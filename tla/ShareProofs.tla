---------------------------- MODULE ShareProofs ----------------------------
(***************************************************************************)
(* The commands on one shared folder: the exit code and the steps tell     *)
(* what was sent, a command changes one family only, success means that    *)
(* what was asked for is there, and a command that is alone succeeds.      *)
(***************************************************************************)
EXTENDS ShareCommands, PagingProofs

\* Calls before the first mutation is answered.
Fresh == {"start", "precheck", "before", "read", "readBin", "create", "set", "delete",
          "shares", "apis", "rows", "rules"}

DataInv ==
    /\ job \in Job /\ pc \in Calls \cup {"start", "done"}
    /\ report \in [StepNames -> Statuses]

\* A command that still runs has reported no trouble and skipped nothing.
GoingInv ==
    pc # "done" =>
        /\ exit = Running /\ unsure = FALSE /\ Troubled = {}
        /\ report["set"] # "SKIPPED" /\ report["nfs"] # "SKIPPED"

\* What each call is for.
KindInv ==
    /\ pc = "precheck" => job.kind \in {"create", "nfs"}
    /\ pc \in {"create", "grant", "check"} => job.kind = "create"
    /\ pc = "before" => job.kind = "nfs"
    /\ pc \in {"save", "load"} => job.kind \in {"create", "nfs"}
    /\ pc \in {"read", "readBin", "set"} \cup Verifying => job.kind = "quota"
    /\ pc = "delete" => job.kind = "delete"
    /\ pc \in {"shares", "apis", "rows", "rules"} => job.kind = "list"

\* What was sent by then.
SentInv ==
    /\ pc \in Fresh => sent = {}
    /\ pc \in {"grant", "check"} => sent \subseteq {"create", "grant"}
    /\ pc \in {"grant", "check", "save", "load"} /\ job.kind = "create" =>
          "create" \in sent /\ report["create"] = "SUCCEEDED"
    /\ pc = "save" /\ job.kind = "nfs" => sent = {}
    /\ pc = "load" => "save" \in sent
    /\ pc \in Verifying => sent = {"set"}

Inv == DataInv /\ GoingInv /\ KindInv /\ SentInv /\ ReportIsTrue

\* A set of one step counts one.
LEMMA Singletons == \A x : Cardinality({x}) = 1
  BY FS_Singleton

\* A command that has not begun has sent and reported nothing.
LEMMA InitInv == Init => Inv
<1> SUFFICES ASSUME Init PROVE Inv
  OBVIOUS
<1>1. DataInv
  BY WorldAssumption DEF Init, DataInv, NoSteps, Statuses
<1>2. Troubled = {}
  BY DEF Init, Troubled, NoSteps
<1>3. GoingInv
  BY <1>2 DEF Init, GoingInv, NoSteps, StepNames
<1> QED
  BY <1>1, <1>3 DEF Init, Inv, KindInv, SentInv, ReportIsTrue, Verifying

\* What a status does to a report without trouble.
LEMMA Marked ==
    ASSUME Inv, pc # "done", NEW s \in StepNames, NEW status \in Statuses,
           Mark(s, status)
    PROVE  /\ report' \in [StepNames -> Statuses] /\ report'[s] = status
           /\ \A t \in StepNames \ {s} : report'[t] = report[t]
           /\ Troubled' = IF status \in {"FAILED", "UNKNOWN"} THEN {s} ELSE {}
<1>1. report \in [StepNames -> Statuses] /\ Troubled = {}
  BY DEF Inv, DataInv, GoingInv
<1>2. report' = [report EXCEPT ![s] = status]
  BY DEF Mark
<1>3. /\ report' \in [StepNames -> Statuses] /\ report'[s] = status
      /\ \A t \in StepNames \ {s} : report'[t] = report[t]
  BY <1>1, <1>2
<1>4. \A t \in StepNames : t \in Troubled' <=> t = s /\ status \in {"FAILED", "UNKNOWN"}
  BY <1>1, <1>3 DEF Troubled
<1>5. Troubled' \subseteq StepNames
  BY DEF Troubled
<1> QED
  BY <1>3, <1>4, <1>5

\* A command that goes on with another call.
LEMMA GoesOn ==
    ASSUME Inv, pc # "done", job' = job, pc' \in Calls, exit' = exit, unsure' = unsure,
           \/ report' = report
           \/ \E s \in StepNames : Mark(s, "SUCCEEDED"),
           KindInv', SentInv'
    PROVE  Inv'
<1>1. /\ report' \in [StepNames -> Statuses] /\ Troubled' = {}
      /\ report'["set"] # "SKIPPED" /\ report'["nfs"] # "SKIPPED"
  <2>1. CASE report' = report
    BY <2>1 DEF Inv, DataInv, GoingInv, Troubled
  <2>2. CASE \E s \in StepNames : Mark(s, "SUCCEEDED")
    <3>1. PICK s \in StepNames : Mark(s, "SUCCEEDED")
      BY <2>2
    <3>2. /\ report' \in [StepNames -> Statuses] /\ report'[s] = "SUCCEEDED"
          /\ \A t \in StepNames \ {s} : report'[t] = report[t]
          /\ Troubled' = {}
      BY <3>1, Marked DEF Statuses
    <3>3. report["set"] # "SKIPPED" /\ report["nfs"] # "SKIPPED"
      BY DEF Inv, GoingInv
    <3> QED
      BY <3>2, <3>3 DEF StepNames
  <2> QED
    BY <2>1, <2>2
<1>2. pc' # "done"
  BY DEF Calls, Early, Verifying
<1> QED
  BY <1>1, <1>2 DEF Inv, DataInv, GoingInv, ReportIsTrue

\* A command that stops without trouble, or with the code of a cause.
LEMMA Ends ==
    ASSUME Inv, pc # "done", job' = job, pc' = "done",
           \/ report' = report
           \/ \E s \in StepNames, status \in {"SUCCEEDED", "SKIPPED"} :
                 Mark(s, status) /\ exit' = 0 /\ (status = "SKIPPED" => sent' = {}),
           exit' \in {0, 10, 11, 20, 30, 40, 60, 70, Killed},
           exit' = 60 => job.kind = "list",
           exit' \in {10, 11} => sent' = {},
           exit' = 0 => unsure' = unsure,
           exit' \in {20, 30, 40, 70} =>
              sent' \subseteq {IF job.kind = "quota" THEN "set" ELSE job.kind}
    PROVE  Inv'
<1>1. /\ report \in [StepNames -> Statuses] /\ Troubled = {} /\ ~ unsure
      /\ report["set"] # "SKIPPED" /\ report["nfs"] # "SKIPPED"
  BY DEF Inv, DataInv, GoingInv
<1>2. /\ report' \in [StepNames -> Statuses] /\ Troubled' = {}
      /\ report'["set"] = "SKIPPED" \/ report'["nfs"] = "SKIPPED" =>
            sent' = {} /\ exit' = 0
  <2>1. CASE report' = report
    BY <1>1, <2>1 DEF Troubled
  <2>2. CASE \E s \in StepNames, status \in {"SUCCEEDED", "SKIPPED"} :
                Mark(s, status) /\ exit' = 0 /\ (status = "SKIPPED" => sent' = {})
    <3>1. PICK s \in StepNames, status \in {"SUCCEEDED", "SKIPPED"} :
             Mark(s, status) /\ exit' = 0 /\ (status = "SKIPPED" => sent' = {})
      BY <2>2
    <3>2. /\ report' \in [StepNames -> Statuses] /\ report'[s] = status
          /\ \A t \in StepNames \ {s} : report'[t] = report[t]
          /\ Troubled' = {}
      BY <3>1, Marked DEF Statuses
    <3> QED
      BY <1>1, <3>1, <3>2 DEF StepNames
  <2> QED
    BY <2>1, <2>2
<1>3. ReportIsTrue'
  BY <1>1, <1>2 DEF ReportIsTrue, Killed
<1> QED
  BY <1>2, <1>3 DEF Inv, DataInv, GoingInv, KindInv, SentInv, Verifying, Fresh

\* A partial result.
LEMMA EndsPartial ==
    ASSUME Inv, pc # "done", job' = job, pc' = "done", exit' = 60,
           NEW s \in StepNames, NEW status \in {"FAILED", "UNKNOWN"}, Mark(s, status),
           sent \subseteq sent', sent' # {},
           s = "permissions" => "save" \notin sent',
           job.kind = "create" =>
              s # "create" /\ report["create"] = "SUCCEEDED" /\ "create" \in sent
    PROVE  Inv'
<1>1. report["set"] # "SKIPPED" /\ report["nfs"] # "SKIPPED"
  BY DEF Inv, GoingInv
<1>2. /\ report' \in [StepNames -> Statuses] /\ report'[s] = status
      /\ \A t \in StepNames \ {s} : report'[t] = report[t]
      /\ Troubled' = {s}
  BY Marked DEF Statuses
<1>3. Cardinality(Troubled)' = 1
  BY <1>2, Singletons
<1>4. report'["set"] # "SKIPPED" /\ report'["nfs"] # "SKIPPED"
  BY <1>1, <1>2 DEF StepNames
<1>5. report'["permissions"] \in {"FAILED", "UNKNOWN"} => s = "permissions"
  <2>1. report'["permissions"] \in {"FAILED", "UNKNOWN"} => "permissions" \in Troubled'
    BY DEF Troubled, StepNames
  <2> QED
    BY <1>2, <2>1
<1>6. job.kind = "create" => report'["create"] = "SUCCEEDED" /\ "create" \in sent'
  BY <1>2 DEF StepNames
<1>7. ReportIsTrue'
  BY <1>3, <1>4, <1>5, <1>6 DEF ReportIsTrue
<1> QED
  BY <1>2, <1>7 DEF Inv, DataInv, GoingInv, KindInv, SentInv, Verifying, Fresh

----------------------------------------------------------------------------
(* The steps.                                                              *)

\* The check of the request and of the NFS service, and the calls that read
\* before anything is sent.
LEMMA BeginInv ==
    ASSUME Inv, Start \/ Precheck \/ ListShares \/ OpenApis \/ ReadRules
    PROVE  Inv'
<1>1. /\ pc \in {"start", "precheck", "shares", "apis", "rules"} /\ pc # "done"
      /\ UNCHANGED <<job, report, sent, unsure>> /\ sent = {}
  BY DEF Start, Precheck, ListShares, OpenApis, ReadRules, readings, ghosts, watch,
         Inv, SentInv, Fresh
<1>2. job.kind \in Kinds
  BY DEF Inv, DataInv, Job
<1>3. \/ pc' \in Calls /\ exit' = exit /\ KindInv' /\ pc' \in Fresh
      \/ pc' = "done" /\ exit' \in {0, 10, 11, 60} /\ (exit' = 60 => job.kind = "list")
  <2>1. CASE Start
    BY <1>1, <1>2, <2>1 DEF Start, Goto, Stop, FirstCall, Kinds, KindInv, Calls, Early,
                            Verifying, Fresh
  <2>2. CASE Precheck
    BY <1>1, <2>2 DEF Precheck, Goto, Stop, Inv, KindInv, Calls, Early, Verifying, Fresh
  <2>3. CASE ListShares \/ OpenApis \/ ReadRules
    BY <1>1, <2>3 DEF ListShares, OpenApis, ReadRules, Goto, Stop, Inv, KindInv, Calls,
                      Early, Verifying, Fresh
  <2> QED
    BY <2>1, <2>2, <2>3
<1>4. CASE pc' \in Calls /\ exit' = exit /\ KindInv' /\ pc' \in Fresh
  <2>1. SentInv'
    BY <1>1, <1>4 DEF SentInv, Fresh, Verifying
  <2> QED
    BY <1>1, <1>4, <2>1, GoesOn
<1>5. CASE /\ pc' = "done" /\ exit' \in {0, 10, 11, 60}
           /\ exit' = 60 => job.kind = "list"
  BY <1>1, <1>5, Ends
<1> QED
  BY <1>3, <1>4, <1>5

\* create-share: the folder, then the grants, category by category.
LEMMA CreateInv ==
    ASSUME Inv, Create \/ Grant
    PROVE  Inv'
<1>1. /\ pc \in {"create", "grant"} /\ pc # "done" /\ job.kind = "create"
      /\ UNCHANGED <<job, unsure>> /\ sent' = sent \cup {pc}
  BY DEF Create, Grant, Mutate, Inv, KindInv
<1>2. CASE Create
  <2>1. Mark("create", "SUCCEEDED") /\ sent' = {"create"} /\ pc = "create"
    BY <1>1, <1>2 DEF Create, Mutate, Inv, SentInv, Fresh
  <2>2. report'["create"] = "SUCCEEDED"
    BY <1>1, <2>1, Marked DEF StepNames, Statuses
  <2>3. CASE Goto("grant") \/ Goto("save")
    <3>1. pc' \in Calls /\ exit' = exit /\ KindInv' /\ SentInv'
      BY <1>1, <2>1, <2>2, <2>3 DEF Goto, KindInv, SentInv, Calls, Early, Verifying, Fresh
    <3> QED
      BY <1>1, <2>1, <3>1, GoesOn DEF StepNames
  <2>4. CASE Stop(0)
    BY <1>1, <2>1, <2>4, Ends DEF Stop, StepNames
  <2> QED
    BY <1>2, <2>3, <2>4 DEF Create, AfterPermissions
<1>3. CASE Grant
  <2>1. /\ pc = "grant" /\ pc' \in {"grant", "check"} /\ exit' = exit
        /\ report' = report /\ sent' = sent \cup {"grant"}
    BY <1>1, <1>3 DEF Grant, Mutate, NextCategory
  <2>2. KindInv' /\ SentInv'
    BY <1>1, <2>1 DEF Inv, KindInv, SentInv, Verifying, Fresh
  <2> QED
    BY <1>1, <2>1, <2>2, GoesOn DEF Calls
<1> QED
  BY <1>2, <1>3

\* create-share: the verification of the grants.
LEMMA CheckInv ==
    ASSUME Inv, Check
    PROVE  Inv'
<1>1. /\ pc = "check" /\ job.kind = "create" /\ UNCHANGED <<job, sent, unsure>>
      /\ sent \subseteq {"create", "grant"} /\ "create" \in sent
      /\ report["create"] = "SUCCEEDED"
  BY DEF Check, ghosts, Inv, KindInv, SentInv
<1>2. CASE Mark("permissions", "FAILED") /\ Stop(60)
  BY <1>1, <1>2, EndsPartial DEF Stop, StepNames
<1>3. CASE NextCategory("check") /\ UNCHANGED <<report, exit>>
  <2>1. pc' = "check"
    BY <1>1, <1>3 DEF NextCategory
  <2>2. KindInv' /\ SentInv'
    BY <1>1, <1>3, <2>1 DEF KindInv, SentInv, Verifying, Fresh
  <2> QED
    BY <1>1, <1>3, <2>1, <2>2, GoesOn DEF Calls
<1>4. CASE Mark("permissions", "SUCCEEDED") /\ Goto("save")
  <2>1. report'["create"] = "SUCCEEDED"
    BY <1>1, <1>4, Marked DEF StepNames, Statuses
  <2>2. pc' \in Calls /\ exit' = exit /\ KindInv' /\ SentInv'
    BY <1>1, <1>4, <2>1 DEF Goto, KindInv, SentInv, Calls, Verifying, Fresh
  <2> QED
    BY <1>1, <1>4, <2>2, GoesOn DEF StepNames
<1>5. CASE Mark("permissions", "SUCCEEDED") /\ Stop(0)
  BY <1>1, <1>5, Ends DEF Stop, StepNames
<1> QED
  BY <1>2, <1>3, <1>4, <1>5 DEF Check, AfterPermissions

\* NFS rules: read, replaced, read back.
LEMMA NfsInv ==
    ASSUME Inv, LoadBefore \/ Save \/ Load
    PROVE  Inv'
<1>1. /\ pc \in {"before", "save", "load"} /\ pc # "done"
      /\ job.kind \in {"create", "nfs"} /\ UNCHANGED <<job, unsure>>
  BY DEF LoadBefore, Save, Load, Mutate, ghosts, Inv, KindInv
<1>2. CASE LoadBefore
  <2>1. pc = "before" /\ job.kind = "nfs" /\ sent = {} /\ sent' = sent
    BY <1>2 DEF LoadBefore, ghosts, Inv, KindInv, SentInv, Fresh
  <2>2. CASE Stop(40) /\ UNCHANGED report
    BY <1>1, <2>1, <2>2, Ends DEF Stop
  <2>3. CASE Stop(0) /\ Mark("nfs", "SKIPPED")
    BY <1>1, <2>1, <2>3, Ends DEF Stop, StepNames
  <2>4. CASE Goto("save") /\ UNCHANGED report
    <3>1. pc' \in Calls /\ exit' = exit /\ KindInv' /\ SentInv'
      BY <1>1, <2>1, <2>4 DEF Goto, KindInv, SentInv, Calls, Verifying, Fresh
    <3> QED
      BY <1>1, <2>4, <3>1, GoesOn
  <2> QED
    BY <1>2, <2>2, <2>3, <2>4 DEF LoadBefore
<1>3. CASE Save
  <2>1. /\ pc = "save" /\ pc' = "load" /\ exit' = exit /\ sent' = sent \cup {"save"}
        /\ IF job.kind = "create" THEN report' = report ELSE Mark("set", "SUCCEEDED")
    BY <1>3 DEF Save, Mutate, Goto
  <2>2. KindInv'
    BY <1>1, <2>1 DEF KindInv, Verifying
  <2>3. SentInv'
    BY <1>1, <2>1 DEF Inv, SentInv, Verifying, Fresh
  <2> QED
    BY <1>1, <2>1, <2>2, <2>3, GoesOn DEF Calls, StepNames
<1>4. CASE Load
  <2>1. /\ pc = "load" /\ sent' = sent /\ "save" \in sent
        /\ job.kind = "create" => report["create"] = "SUCCEEDED" /\ "create" \in sent
    BY <1>4 DEF Load, ghosts, Inv, SentInv
  <2>2. NfsStepName("verify") \in StepNames \ {"create", "permissions"}
    BY DEF NfsStepName, StepNames
  <2>3. CASE Mark(NfsStepName("verify"), "SUCCEEDED") /\ Stop(0)
    BY <1>1, <2>1, <2>2, <2>3, Ends DEF Stop
  <2>4. CASE Mark(NfsStepName("verify"), "FAILED") /\ Stop(60)
    <3> DEFINE step == NfsStepName("verify")
    <3>1. step \in StepNames \ {"create", "permissions"} /\ Mark(step, "FAILED")
      BY <2>2, <2>4
    <3> HIDE DEF step
    <3> QED
      BY <1>1, <2>1, <2>4, <3>1, EndsPartial DEF Stop
  <2> QED
    BY <1>4, <2>3, <2>4 DEF Load
<1> QED
  BY <1>2, <1>3, <1>4 DEF LoadBefore, Save, Load

\* modify-share --quota: the readings before and after the request.
LEMMA QuotaInv ==
    ASSUME Inv, ReadScalars \/ ReadBin
    PROVE  Inv'
<1>1. /\ pc \in {"read", "readBin"} \cup Verifying /\ pc # "done" /\ job.kind = "quota"
      /\ UNCHANGED <<job, sent, unsure>>
      /\ pc \in {"read", "readBin"} => sent = {}
      /\ pc \in Verifying => sent = {"set"}
  BY DEF ReadScalars, ReadBin, ghosts, Inv, KindInv, SentInv, Fresh, Verifying
<1>2. \/ \E s \in {nas.scalars, [part EXCEPT !.bin = nas.scalars.bin]} :
             \/ pc \in {"read", "readBin"} /\ Preflighted(s)
             \/ pc \in Verifying /\ Verified(s)
      \/ /\ Goto(IF pc = "read" THEN "readBin" ELSE "rereadBin") /\ report' = report
         /\ pc \in {"read", "reread"}
  BY <1>1 DEF ReadScalars, ReadBin, Verifying
<1>3. CASE \/ Stop(40) /\ UNCHANGED report /\ pc \in {"read", "readBin"}
           \/ Stop(0) /\ Mark("set", "SKIPPED") /\ pc \in {"read", "readBin"}
           \/ Stop(0) /\ Mark("verify", "SUCCEEDED")
  BY <1>1, <1>3, Ends DEF Stop, StepNames
<1>4. CASE \/ Goto("set") /\ UNCHANGED report /\ pc \in {"read", "readBin"}
           \/ /\ Goto(IF pc = "read" THEN "readBin" ELSE "rereadBin") /\ report' = report
              /\ pc \in {"read", "reread"}
  <2>1. pc' \in Calls /\ exit' = exit /\ KindInv' /\ SentInv'
    BY <1>1, <1>4 DEF Goto, KindInv, SentInv, Calls, Early, Verifying, Fresh
  <2> QED
    BY <1>1, <1>4, <2>1, GoesOn
<1>5. CASE Mark("verify", "FAILED") /\ Stop(60) /\ pc \in Verifying
  BY <1>1, <1>5, EndsPartial DEF Stop, StepNames
<1> QED
  BY <1>2, <1>3, <1>4, <1>5 DEF Preflighted, Verified

\* modify-share --quota and delete-share: the request.
LEMMA WriteInv ==
    ASSUME Inv, SetQuota \/ Delete
    PROVE  Inv'
<1>1. CASE SetQuota
  <2>1. /\ pc = "set" /\ job.kind = "quota" /\ sent' = {"set"} /\ pc' = "reread"
        /\ exit' = exit /\ UNCHANGED <<job, unsure>> /\ Mark("set", "SUCCEEDED")
    BY <1>1 DEF SetQuota, Mutate, Goto, Inv, KindInv, SentInv, Fresh
  <2>2. KindInv' /\ SentInv'
    BY <2>1 DEF KindInv, SentInv, Verifying, Fresh
  <2> QED
    BY <2>1, <2>2, GoesOn DEF Calls, Verifying, StepNames
<1>2. CASE Delete
  <2>1. /\ pc = "delete" /\ UNCHANGED <<job, unsure, report>> /\ pc' = "done" /\ exit' = 0
    BY <1>2 DEF Delete, Mutate, Stop
  <2> QED
    BY <2>1, Ends
<1> QED
  BY <1>1, <1>2

\* list-shares --permissions: a page of grants.
LEMMA ReadRowsInv ==
    ASSUME Inv, ReadRows
    PROVE  Inv'
<1>1. /\ pc = "rows" /\ pc' \in {"rows", "rules"}
      /\ UNCHANGED <<job, report, exit, sent, unsure>>
  BY DEF ReadRows, CategoryFails, NextCategory, ghosts
<1>2. KindInv' /\ SentInv'
  BY <1>1 DEF Inv, KindInv, SentInv, Verifying, Fresh
<1> QED
  BY <1>1, <1>2, GoesOn DEF Calls

----------------------------------------------------------------------------
(* What goes wrong.                                                        *)

\* A failed call counts as sent if it is a mutation, and only then can its
\* answer be missed.
LEMMA TroubleIs ==
    ASSUME Inv, pc # "done", NEW how \in Hows, Trouble(how)
    PROVE  /\ job' = job /\ sent' = sent \cup ({pc} \cap Mutations)
           /\ pc \notin Mutations => unsure' = unsure
<1>1. unsure = FALSE
  BY DEF Inv, GoingInv
<1> QED
  BY <1>1 DEF Trouble

\* A failure with nothing reported but the code of its cause.
LEMMA FailSilently ==
    ASSUME Inv, NEW how \in Hows, FailEarly(how) \/ FailApis(how)
    PROVE  Inv'
<1>1. /\ pc \in Early \cup {"apis"} /\ pc # "done" /\ job' = job /\ report' = report
      /\ sent' = sent \cup ({pc} \cap Mutations)
      /\ pc' = "done" /\ exit' \in {20, 30, 40, 70}
  BY TroubleIs DEF FailEarly, FailApis, Stop, Mapped, Hows, Early
<1>2. sent' \subseteq {IF job.kind = "quota" THEN "set" ELSE job.kind}
  <2>1. sent = {}
    BY <1>1 DEF Early, Inv, SentInv, Fresh
  <2>2. pc = "create" => job.kind = "create"
    BY DEF Inv, KindInv
  <2>3. pc = "delete" => job.kind = "delete"
    BY DEF Inv, KindInv
  <2> QED
    BY <1>1, <2>1, <2>2, <2>3 DEF Early, Mutations
<1> QED
  BY <1>1, <1>2, Ends

\* A failure of the grants of create-share: its NFS rules were not sent.
LEMMA FailPermissionsInv ==
    ASSUME Inv, NEW how \in Hows, FailPermissions(how)
    PROVE  Inv'
<1>1. /\ pc \in {"grant", "check"} /\ job' = job /\ pc' = "done" /\ exit' = 60
      /\ sent' = sent \cup ({pc} \cap Mutations)
      /\ Mark("permissions", Uncertain(how))
  BY TroubleIs DEF FailPermissions, Stop
<1>2. /\ sent \subseteq {"create", "grant"} /\ "create" \in sent
      /\ report["create"] = "SUCCEEDED" /\ job.kind = "create"
  BY <1>1 DEF Inv, SentInv, KindInv
<1>3. "save" \notin sent' /\ sent \subseteq sent' /\ sent' # {}
  BY <1>1, <1>2
<1>4. Uncertain(how) \in {"FAILED", "UNKNOWN"}
  BY DEF Uncertain
<1> QED
  BY <1>1, <1>2, <1>3, <1>4, EndsPartial DEF StepNames

\* A failure of saving NFS rules or of reading them back.
LEMMA FailNfsInv ==
    ASSUME Inv, NEW how \in Hows, FailNfs(how)
    PROVE  Inv'
<1> DEFINE step == NfsStepName(IF pc = "save" THEN "set" ELSE "verify")
<1>1. /\ pc \in {"save", "load"} /\ job' = job /\ pc' = "done" /\ exit' = 60
      /\ sent' = sent \cup ({pc} \cap Mutations)
      /\ Mark(step, Uncertain(how))
  BY TroubleIs DEF FailNfs, Stop
<1>2. step \in StepNames /\ step \notin {"create", "permissions"}
  BY DEF NfsStepName, StepNames
<1>3. sent \subseteq sent' /\ sent' # {}
  BY <1>1 DEF Inv, SentInv, Mutations
<1>4. job.kind = "create" => report["create"] = "SUCCEEDED" /\ "create" \in sent
  BY <1>1 DEF Inv, SentInv
<1>5. Uncertain(how) \in {"FAILED", "UNKNOWN"}
  BY DEF Uncertain
<1> HIDE DEF step
<1> QED
  BY <1>1, <1>2, <1>3, <1>4, <1>5, EndsPartial

\* A failure of the quota request or of its verification.
LEMMA FailQuotaInv ==
    ASSUME Inv, NEW how \in Hows, FailSetQuota(how) \/ FailVerifyQuota(how)
    PROVE  Inv'
<1>1. /\ pc \in {"set"} \cup Verifying /\ pc # "done" /\ job.kind = "quota" /\ job' = job
      /\ sent' = {"set"} /\ sent \subseteq sent' /\ pc' = "done"
  BY TroubleIs DEF FailSetQuota, FailVerifyQuota, Stop, Inv, KindInv, SentInv,
                   Verifying, Fresh, Mutations
<1>2. Uncertain(how) \in {"FAILED", "UNKNOWN"}
  BY DEF Uncertain
<1>3. CASE exit' = 40 /\ report' = report
  BY <1>1, <1>3, Ends
<1>4. CASE exit' = 60 /\ \E s \in {"set", "verify"} : Mark(s, Uncertain(how))
  BY <1>1, <1>2, <1>4, EndsPartial DEF StepNames
<1> QED
  BY <1>3, <1>4 DEF FailSetQuota, FailVerifyQuota, Stop

\* A listing goes on, or ends with a part missing.
LEMMA FailListInv ==
    ASSUME Inv, NEW how \in Hows, FailRows(how) \/ FailRules(how)
    PROVE  Inv'
<1>1. /\ pc \in {"rows", "rules"} /\ job.kind = "list" /\ sent = {}
      /\ UNCHANGED <<job, report, sent, unsure>>
  BY TroubleIs DEF FailRows, FailRules, Inv, KindInv, SentInv, Fresh, Mutations
<1>2. CASE FailRows(how)
  <2>1. pc' \in {"rows", "rules"} /\ exit' = exit
    BY <1>2 DEF FailRows, CategoryFails, NextCategory
  <2>2. KindInv' /\ SentInv'
    BY <1>1, <2>1 DEF KindInv, SentInv, Verifying, Fresh
  <2> QED
    BY <1>1, <2>1, <2>2, GoesOn DEF Calls
<1>3. CASE FailRules(how)
  <2>1. pc' = "done" /\ exit' = 60
    BY <1>3 DEF FailRules, Stop
  <2> QED
    BY <1>1, <2>1, Ends
<1> QED
  BY <1>2, <1>3

\* An API that is too old, a kill, an edit by others.
LEMMA OtherInv ==
    ASSUME Inv, Unsupported \/ Kill \/ Edit \/ UNCHANGED vars
    PROVE  Inv'
<1>1. CASE Unsupported
  <2>1. /\ pc = "read" /\ sent = {} /\ pc' = "done" /\ exit' = 10
        /\ UNCHANGED <<job, report, sent, unsure>>
    BY <1>1 DEF Unsupported, Stop, ghosts, Inv, SentInv, Fresh
  <2> QED
    BY <2>1, Ends
<1>2. CASE Kill
  <2>1. pc # "done" /\ pc' = "done" /\ exit' = Killed /\ UNCHANGED <<job, report>>
    BY <1>2 DEF Kill, Stop, Calls, Early, Verifying
  <2> QED
    BY <2>1, Ends DEF Killed
<1>3. CASE Edit \/ UNCHANGED vars
  <2>1. UNCHANGED <<job, pc, report, exit, sent, unsure>>
    BY <1>3 DEF Edit, vars, place, result, ghosts
  <2> QED
    BY <2>1 DEF Inv, DataInv, GoingInv, KindInv, SentInv, ReportIsTrue, Troubled
<1> QED
  BY <1>1, <1>2, <1>3

\* Every step keeps the invariant.
LEMMA StepInv ==
    ASSUME Inv, [Next]_vars
    PROVE  Inv'
<1>1. CASE Start \/ Precheck \/ ListShares \/ OpenApis \/ ReadRules
  BY <1>1, BeginInv
<1>2. CASE Create \/ Grant
  BY <1>2, CreateInv
<1>3. CASE Check
  BY <1>3, CheckInv
<1>4. CASE LoadBefore \/ Save \/ Load
  BY <1>4, NfsInv
<1>5. CASE ReadScalars \/ ReadBin
  BY <1>5, QuotaInv
<1>6. CASE SetQuota \/ Delete
  BY <1>6, WriteInv
<1>7. CASE ReadRows
  BY <1>7, ReadRowsInv
<1>8. CASE Fail
  BY <1>8, FailSilently, FailPermissionsInv, FailNfsInv, FailQuotaInv, FailListInv,
     OtherInv DEF Fail
<1>9. CASE Kill \/ Edit \/ UNCHANGED vars
  BY <1>9, OtherInv
<1> QED
  BY <1>1, <1>2, <1>3, <1>4, <1>5, <1>6, <1>7, <1>8, <1>9 DEF Next, Command

\* create-share, modify-share, delete-share and list-shares: in every run,
\* whatever others do to the folder and whatever fails, the exit code and
\* the steps tell what was sent.
THEOREM ShareReportIsTrue == Spec => []ReportIsTrue
<1>1. Init => Inv
  BY InitInv
<1>2. Inv /\ [Next]_vars => Inv'
  BY StepInv
<1>3. Inv => ReportIsTrue
  BY DEF Inv
<1> QED
  BY <1>1, <1>2, <1>3, PTL DEF Spec

----------------------------------------------------------------------------
(* One family changes: what a request carries beside it is what the NAS    *)
(* has, as long as nobody else edits the folder.                           *)

\* A state of the NAS with its fields, and its scalars.
Good(n) ==
    /\ n = [live |-> n.live, scalars |-> n.scalars, acl |-> n.acl, nfs |-> n.nfs,
            accounts |-> n.accounts, service |-> n.service]
    /\ n.scalars \in Scalars

\* The quota request carries the other fields as they are, also when they
\* were read by two calls.
CalmInv ==
    calm =>
        /\ pc = "set" => before = nas.scalars
        /\ pc = "readBin" => part = nas.scalars

WorldInv ==
    /\ Good(nas) /\ before \in Scalars /\ part \in Scalars
    /\ edits \in Nat /\ CalmInv

\* A record and one of its fields.
LEMMA Fields ==
    ASSUME NEW n, Good(n)
    PROVE  /\ n = [n EXCEPT !.live = n.live] /\ n = [n EXCEPT !.nfs = n.nfs]
           /\ n = [n EXCEPT !.scalars.quota = n.scalars.quota]
           /\ \A x : Good([n EXCEPT !.live = x])
                      /\ [n EXCEPT !.live = x].live = x
           /\ \A x : Good([n EXCEPT !.nfs = x])
                      /\ [n EXCEPT !.nfs = x].nfs = x
           /\ \A x : Good([n EXCEPT !.acl = x])
           /\ \A x : Good([n EXCEPT !.accounts = x])
           /\ \A x : Good([n EXCEPT !.service = x])
           /\ \A x \in Scalars : Good([n EXCEPT !.scalars = x])
                      /\ [n EXCEPT !.scalars = x].scalars = x
<1> DEFINE live == n.live
           scalars == n.scalars
           acl == n.acl
           nfs == n.nfs
           accounts == n.accounts
           service == n.service
<1>1. n = [live |-> live, scalars |-> scalars, acl |-> acl, nfs |-> nfs,
           accounts |-> accounts, service |-> service]
  BY DEF Good
<1>2. scalars \in Scalars
  BY DEF Good
<1>3. scalars = [scalars EXCEPT !.quota = scalars.quota]
  BY <1>2 DEF Scalars
<1> HIDE DEF live, scalars, acl, nfs, accounts, service
<1>4. n = [n EXCEPT !.live = n.live] /\ n = [n EXCEPT !.nfs = n.nfs]
  BY <1>1
<1>5. n = [n EXCEPT !.scalars.quota = n.scalars.quota]
  BY <1>1, <1>3
<1>6. \A x : Good([n EXCEPT !.live = x]) /\ [n EXCEPT !.live = x].live = x
  BY <1>1, <1>2 DEF Good
<1>7. \A x : Good([n EXCEPT !.nfs = x]) /\ [n EXCEPT !.nfs = x].nfs = x
  BY <1>1, <1>2 DEF Good
<1>8. \A x : /\ Good([n EXCEPT !.acl = x])
             /\ Good([n EXCEPT !.accounts = x])
             /\ Good([n EXCEPT !.service = x])
  BY <1>1, <1>2 DEF Good
<1>9. \A x \in Scalars : Good([n EXCEPT !.scalars = x])
                          /\ [n EXCEPT !.scalars = x].scalars = x
  BY <1>1 DEF Good
<1> QED
  BY <1>4, <1>5, <1>6, <1>7, <1>8, <1>9

\* What a call does to the folder: one family, but for create-share's.
LEMMA PossibleIs ==
    ASSUME Inv, WorldInv, pc \notin {"start", "done"}, NEW n \in Possible
    PROVE  /\ Good(n)
           /\ pc \notin Mutations => n = nas
           /\ pc = "save" => n = [nas EXCEPT !.nfs = n.nfs]
           /\ pc = "delete" => n = [nas EXCEPT !.live = n.live]
           /\ pc = "set" /\ before = nas.scalars =>
                 n = [nas EXCEPT !.scalars.quota = n.scalars.quota]
<1>1. Good(nas)
  BY DEF WorldInv
<1>2. job.scalars \in Scalars /\ before \in Scalars /\ AskedQuota \in Int
      /\ Unavailable \in Int
  BY UnavailableAssumption
     DEF Inv, DataInv, Job, Scalars, WorldInv, AskedQuota, QUOTA_MIB_PER_GIB
<1>3. CASE n = nas
  BY <1>1, <1>3, Fields
<1>4. CASE n # nas /\ pc = "create"
  <2> DEFINE acls == {[i \in Ids |-> IF i \in nas.accounts THEN f[i] ELSE "none"] :
                         f \in FreshAcls}
             quotas == IF job.scalars.volume \notin CanonicalVolume THEN {Unavailable}
                       ELSE IF job.scalars.quota = Unavailable THEN {0}
                       ELSE {0, AskedQuota}
             new(a, q, d) == [nas EXCEPT !.live = TRUE, !.acl = a, !.nfs = {},
                                 !.scalars = [job.scalars EXCEPT !.quota = q, !.desc = d]]
  <2>1. PICK a \in acls, q \in quotas, d \in Descs : n = new(a, q, d)
    <3>1. n \in Created
      BY <1>4 DEF Possible, Done, Mutations
    <3>2. Created = {new(a, q, d) : a \in acls, q \in quotas, d \in Descs}
      BY DEF Created
    <3> HIDE DEF acls, quotas, new
    <3> QED
      BY <3>1, <3>2
  <2>2. [job.scalars EXCEPT !.quota = q, !.desc = d] \in Scalars
    <3>1. q \in Int /\ d \in Descs
      BY <1>2
    <3> HIDE DEF acls, quotas
    <3> QED
      BY <1>2, <3>1 DEF Scalars
  <2>3. Good(n)
    <3> DEFINE x == [job.scalars EXCEPT !.quota = q, !.desc = d]
    <3>1. n = [nas EXCEPT !.live = TRUE, !.acl = a, !.nfs = {}, !.scalars = x] /\ x \in Scalars
      BY <2>1, <2>2
    <3> HIDE DEF x
    <3> QED
      BY <1>1, <3>1 DEF Good
  <2> QED
    BY <1>4, <2>3 DEF Mutations
<1>5. CASE n # nas /\ pc = "grant"
  <2>1. PICK d \in SUBSET AskedOf(at) : n = Granted(d)
    BY <1>5 DEF Possible
  <2>2. n = [nas EXCEPT !.acl = Patched(AclRequest, nas.acl, d \cap nas.accounts)]
    BY <2>1 DEF Granted
  <2> QED
    BY <1>1, <1>5, <2>2, Fields DEF Mutations
<1>6. CASE n # nas /\ pc = "save"
  <2>1. n = [nas EXCEPT !.nfs = RuleSet(job.rules)]
    BY <1>6 DEF Possible, Done, Mutations
  <2> QED
    BY <1>1, <1>6, <2>1, Fields DEF Mutations
<1>7. CASE n # nas /\ pc = "delete"
  <2>1. n = [nas EXCEPT !.live = FALSE]
    BY <1>7 DEF Possible, Done, Mutations
  <2> QED
    BY <1>1, <1>7, <2>1, Fields DEF Mutations
<1>8. CASE n # nas /\ pc = "set"
  <2> DEFINE x == [before EXCEPT !.quota = AskedQuota]
  <2>1. n = [nas EXCEPT !.scalars = x]
    BY <1>8 DEF Possible, Done, ScalarsSet, Mutations
  <2>2. x \in Scalars /\ x.quota = AskedQuota
    BY <1>2 DEF Scalars
  <2>3. Good(n) /\ n.scalars = x
    BY <1>1, <2>1, <2>2, Fields
  <2>4. before = nas.scalars => n = [nas EXCEPT !.scalars.quota = n.scalars.quota]
    BY <2>1, <2>2, <2>3
  <2> QED
    BY <1>8, <2>3, <2>4 DEF Mutations
<1>9. pc \notin Mutations => n = nas
  BY DEF Possible, Mutations
<1> QED
  BY <1>3, <1>4, <1>5, <1>6, <1>7, <1>8, <1>9 DEF Mutations

\* A step of the program changes the folder by the call it is at, and only
\* if the NAS does not refuse it.
LEMMA ProgramChanges ==
    ASSUME Inv, WorldInv, [Next]_vars, ~ Edit
    PROVE  /\ edits' = edits
           /\ \/ nas' = nas
              \/ pc \in Mutations /\ ~ Refused /\ nas' \in Possible
<1>1. CASE Start \/ Precheck \/ Check \/ LoadBefore \/ Load \/ ReadScalars \/ ReadBin
           \/ ListShares \/ OpenApis \/ ReadRows \/ ReadRules \/ Unsupported
           \/ UNCHANGED vars
  BY <1>1 DEF Start, Precheck, Check, LoadBefore, Load, ReadScalars, ReadBin,
     ListShares, OpenApis, ReadRows, ReadRules, Unsupported, vars, Answered
<1>2. CASE \E name \in Mutations : Mutate(name)
  <2>1. pc \in Mutations /\ ~ Refused /\ nas' \in Done /\ edits' = edits
    BY <1>2 DEF Mutate, Answered
  <2>2. nas' \in Possible
    <3>1. CASE pc = "grant"
      <4>1. nas' = Granted(AskedOf(at))
        BY <2>1, <3>1 DEF Done
      <4> QED
        BY <3>1, <4>1 DEF Possible
    <3>2. CASE pc # "grant"
      BY <2>1, <3>2 DEF Possible
    <3> QED
      BY <3>1, <3>2
  <2> QED
    BY <2>1, <2>2
<1>3. CASE \E how \in Hows : Trouble(how)
  <2>1. PICK how \in Hows : Trouble(how)
    BY <1>3
  <2>2. edits' = edits /\ (nas' = nas \/ (~ Refused /\ nas' \in Possible))
    BY <2>1 DEF Trouble
  <2>3. pc \notin Mutations /\ nas' \in Possible => nas' = nas
    BY DEF Possible, Mutations
  <2> QED
    BY <2>2, <2>3
<1>4. CASE Kill
  <2>1. edits' = edits /\ (nas' = nas \/ (~ Refused /\ nas' \in Possible))
    BY <1>4 DEF Kill
  <2>2. pc \notin Mutations /\ nas' \in Possible => nas' = nas
    BY DEF Possible, Mutations
  <2> QED
    BY <2>1, <2>2
<1>5. CASE Create \/ Grant \/ Save \/ SetQuota \/ Delete
  BY <1>2, <1>5 DEF Create, Grant, Save, SetQuota, Delete, Mutations
<1>6. CASE Fail
  BY <1>1, <1>3, <1>6 DEF Fail, FailEarly, FailPermissions, FailNfs, FailSetQuota,
     FailVerifyQuota, FailApis, FailRows, FailRules
<1> QED
  BY <1>1, <1>4, <1>5, <1>6 DEF Next, Command

\* An edit by others leaves a state of the NAS.
LEMMA EditGood ==
    ASSUME Good(nas), NEW n \in Edited
    PROVE  Good(n)
<1>1. CASE n = [nas EXCEPT !.live = ~ nas.live]
  BY <1>1, Fields
<1>2. CASE n = [nas EXCEPT !.service = ~ nas.service]
  BY <1>2, Fields
<1>3. ASSUME NEW d \in Descs, n = [nas EXCEPT !.scalars.desc = d]
      PROVE  Good(n)
  <2>1. [nas.scalars EXCEPT !.desc = d] \in Scalars
    BY DEF Good, Scalars
  <2>2. n = [nas EXCEPT !.scalars = [nas.scalars EXCEPT !.desc = d]]
    BY <1>3
  <2> QED
    BY <2>1, <2>2, Fields
<1>4. ASSUME NEW b \in Bins, n = [nas EXCEPT !.scalars.bin = b]
      PROVE  Good(n)
  <2>1. [nas.scalars EXCEPT !.bin = b] \in Scalars
    BY DEF Good, Scalars
  <2>2. n = [nas EXCEPT !.scalars = [nas.scalars EXCEPT !.bin = b]]
    BY <1>4
  <2> QED
    BY <2>1, <2>2, Fields
<1>5. ASSUME NEW rules \in EditRules, n = [nas EXCEPT !.nfs = rules]
      PROVE  Good(n)
  BY <1>5, Fields
<1>6. ASSUME NEW i, NEW a, n = [nas EXCEPT !.acl[i] = a]
      PROVE  Good(n)
  <2>1. n = [nas EXCEPT !.acl = [nas.acl EXCEPT ![i] = a]]
    BY <1>6
  <2> QED
    BY <2>1, Fields
<1>7. ASSUME NEW i, n = [nas EXCEPT !.accounts = nas.accounts \cup {i}]
      PROVE  Good(n)
  BY <1>7, Fields
<1>8. ASSUME NEW i, n = [nas EXCEPT !.accounts = nas.accounts \ {i}, !.acl[i] = "none"]
      PROVE  Good(n)
  <2> DEFINE m == [nas EXCEPT !.accounts = nas.accounts \ {i}]
  <2>1. Good(m)
    BY Fields
  <2>2. n = [m EXCEPT !.acl = [m.acl EXCEPT ![i] = "none"]]
    BY <1>8
  <2> HIDE DEF m
  <2> QED
    BY <2>1, <2>2, Fields
<1>9. ASSUME n \in Regranted
      PROVE  Good(n)
  <2> DEFINE new(i, a) == [nas EXCEPT !.acl[i] = a]
  <2>1. Regranted = {new(i, a) : i \in nas.accounts, a \in Access}
    BY DEF Regranted
  <2>2. \A i, a : n = new(i, a) => Good(n)
    BY <1>6
  <2> HIDE DEF new
  <2> QED
    BY <1>9, <2>1, <2>2
<1> QED
  BY <1>1, <1>2, <1>3, <1>4, <1>5, <1>7, <1>8, <1>9 DEF Edited

\* The readings stay readings, and undisturbed they are what the NAS has.
LEMMA ReadingsAre ==
    ASSUME Inv, WorldInv, [Next]_vars
    PROVE  before' \in Scalars /\ part' \in Scalars /\ CalmInv'
<1>1. /\ before \in Scalars /\ part \in Scalars /\ nas.scalars \in Scalars /\ CalmInv
  BY DEF WorldInv, Good
<1>2. CASE ReadScalars
  <2>1. nas' = nas /\ calm' = calm
    BY <1>2 DEF ReadScalars, ghosts, watch
  <2>2. CASE /\ IF pc = "read" THEN Preflighted(nas.scalars) ELSE Verified(nas.scalars)
             /\ UNCHANGED part
    <3>1. before' \in Scalars /\ pc' # "readBin" /\ (pc' = "set" => before' = nas.scalars)
      BY <1>1, <2>2 DEF Preflighted, Verified, Stop, Goto
    <3> QED
      BY <1>1, <2>1, <2>2, <3>1 DEF CalmInv
  <2>3. CASE /\ part' = nas.scalars /\ UNCHANGED <<before, report>>
             /\ Goto(IF pc = "read" THEN "readBin" ELSE "rereadBin")
    BY <1>1, <2>1, <2>3 DEF CalmInv, Goto
  <2> QED
    BY <1>2, <2>2, <2>3 DEF ReadScalars
<1>3. CASE ReadBin
  <2> DEFINE s == [part EXCEPT !.bin = nas.scalars.bin]
  <2>1. nas' = nas /\ calm' = calm /\ part' = part
        /\ IF pc = "readBin" THEN Preflighted(s) ELSE Verified(s)
    BY <1>3 DEF ReadBin, ghosts, watch
  <2>2. s \in Scalars /\ (part = nas.scalars => s = nas.scalars)
    BY <1>1 DEF Scalars
  <2> HIDE DEF s
  <2>3. before' \in Scalars /\ pc' # "readBin"
        /\ (pc' = "set" => pc = "readBin" /\ before' = s)
    BY <1>1, <2>1, <2>2 DEF Preflighted, Verified, Stop, Goto
  <2> QED
    BY <1>1, <2>1, <2>2, <2>3 DEF CalmInv
<1>4. CASE Edit
  BY <1>1, <1>4 DEF Edit, readings, CalmInv
<1>5. CASE UNCHANGED vars
  BY <1>1, <1>5 DEF vars, place, readings, ghosts, watch, CalmInv
<1>6. CASE Start \/ Precheck \/ ListShares \/ OpenApis \/ ReadRules \/ ReadRows
  <2>1. UNCHANGED <<before, part>>
    BY <1>6 DEF Start, Precheck, ListShares, OpenApis, ReadRules, ReadRows, readings
  <2>2. pc' \notin {"set", "readBin"}
    BY <1>6 DEF Start, Precheck, ListShares, OpenApis, ReadRules, ReadRows,
       CategoryFails, NextCategory, Goto, Stop, FirstCall, Inv, DataInv, Job, Kinds
  <2> QED
    BY <1>1, <2>1, <2>2 DEF CalmInv
<1>7. CASE Create \/ Grant \/ Check \/ LoadBefore \/ Save \/ Load \/ SetQuota \/ Delete
  <2>1. UNCHANGED <<before, part>>
    BY <1>7 DEF Create, Grant, Check, LoadBefore, Save, Load, SetQuota, Delete, Mutate,
       readings
  <2>2. pc' \notin {"set", "readBin"}
    BY <1>7 DEF Create, Grant, Check, LoadBefore, Save, Load, SetQuota, Delete, Mutate,
       AfterPermissions, NextCategory, Goto, Stop
  <2> QED
    BY <1>1, <2>1, <2>2 DEF CalmInv
<1>8. CASE Fail \/ Kill
  <2>1. UNCHANGED <<before, part>>
    BY <1>8 DEF Fail, FailEarly, FailPermissions, FailNfs, FailSetQuota, FailVerifyQuota,
       FailApis, FailRows, FailRules, Unsupported, Kill, Trouble, readings
  <2>2. pc' \notin {"set", "readBin"}
    BY <1>8 DEF Fail, FailEarly, FailPermissions, FailNfs, FailSetQuota, FailVerifyQuota,
       FailApis, FailRows, FailRules, Unsupported, Kill, Stop, CategoryFails, NextCategory
  <2> QED
    BY <1>1, <2>1, <2>2 DEF CalmInv
<1> QED
  BY <1>2, <1>3, <1>4, <1>5, <1>6, <1>7, <1>8 DEF Next, Command

\* Every step keeps both.
LEMMA WorldStep ==
    ASSUME Inv, WorldInv, [Next]_vars
    PROVE  WorldInv'
<1>1. Good(nas) /\ edits \in Nat
  BY DEF WorldInv
<1>2. CASE Edit
  BY <1>1, <1>2, EditGood, ReadingsAre DEF Edit, WorldInv
<1>3. CASE ~ Edit
  <2>1. edits' = edits /\ (nas' = nas \/ (pc \in Mutations /\ nas' \in Possible))
    BY <1>3, ProgramChanges
  <2>2. Good(nas')
    BY <1>1, <2>1, PossibleIs DEF Mutations
  <2> QED
    BY <1>1, <2>1, <2>2, ReadingsAre DEF WorldInv
<1> QED
  BY <1>2, <1>3

\* One family, step by step.
LEMMA StepChangesOneFamily ==
    ASSUME Inv, WorldInv, [Next]_vars, edits' = edits, calm
    PROVE  CASE job.kind = "create" -> nas.live /\ sent = {} => nas' = nas
             [] job.kind = "quota" ->
                   nas' = [nas EXCEPT !.scalars.quota = nas'.scalars.quota]
             [] job.kind = "nfs" -> nas' = [nas EXCEPT !.nfs = nas'.nfs]
             [] job.kind = "delete" -> nas' = [nas EXCEPT !.live = nas'.live]
             [] job.kind = "list" -> nas' = nas
<1>1. Good(nas) /\ edits \in Nat /\ (pc = "set" => before = nas.scalars)
  BY DEF WorldInv, CalmInv
<1>2. ~ Edit
  <2>1. Edit => edits' = edits + 1
    BY DEF Edit
  <2> QED
    BY <1>1, <2>1
<1>3. CASE nas' = nas
  BY <1>1, <1>3, Fields DEF Inv, DataInv, Job, Kinds
<1>4. CASE pc \in Mutations /\ ~ Refused /\ nas' \in Possible
  <2>1. /\ pc = "save" => nas' = [nas EXCEPT !.nfs = nas'.nfs]
        /\ pc = "delete" => nas' = [nas EXCEPT !.live = nas'.live]
        /\ pc = "set" => nas' = [nas EXCEPT !.scalars.quota = nas'.scalars.quota]
    BY <1>1, <1>4, PossibleIs DEF Mutations
  <2>2. /\ pc \in {"create", "grant"} => job.kind = "create"
        /\ pc = "save" => job.kind \in {"create", "nfs"}
        /\ pc = "set" => job.kind = "quota"
        /\ pc = "delete" => job.kind = "delete"
    BY DEF Inv, KindInv
  <2>3. job.kind = "create" => ~ (nas.live /\ sent = {})
    <3>1. pc = "create" => ~ nas.live
      BY <1>4 DEF Refused
    <3>2. pc \in {"grant", "save"} /\ job.kind = "create" => sent # {}
      BY DEF Inv, SentInv
    <3> QED
      BY <1>4, <2>2, <3>1, <3>2 DEF Mutations
  <2> QED
    BY <1>4, <2>1, <2>2, <2>3 DEF Mutations
<1> QED
  BY <1>2, <1>3, <1>4, ProgramChanges

\* modify-share changes the family it was given and nothing else, create-share
\* no folder that was there, delete-share nothing but the folder's presence:
\* in every run in which nobody else has edited the folder by then, however
\* the command's own calls fail.
THEOREM ShareOneFamilyChanges == Spec => OneFamilyChanges
<1>1. Init => Inv /\ WorldInv
  <2> SUFFICES ASSUME Init PROVE Inv /\ WorldInv
    OBVIOUS
  <2>1. nas \in Nas /\ job \in Job
    BY WorldAssumption DEF Init
  <2>2. Good(nas)
    BY <2>1 DEF Nas, Good
  <2>3. job.scalars \in Scalars
    BY <2>1 DEF Job
  <2> QED
    BY <2>2, <2>3, InitInv DEF Init, WorldInv, CalmInv
<1>2. Inv /\ WorldInv /\ [Next]_vars => (Inv /\ WorldInv)'
  BY StepInv, WorldStep
<1>3. Inv /\ WorldInv /\ [Next]_vars =>
        [edits' = edits /\ calm =>
            CASE job.kind = "create" -> nas.live /\ sent = {} => nas' = nas
              [] job.kind = "quota" ->
                    nas' = [nas EXCEPT !.scalars.quota = nas'.scalars.quota]
              [] job.kind = "nfs" -> nas' = [nas EXCEPT !.nfs = nas'.nfs]
              [] job.kind = "delete" -> nas' = [nas EXCEPT !.live = nas'.live]
              [] job.kind = "list" -> nas' = nas]_vars
  BY StepChangesOneFamily
<1> QED
  BY <1>1, <1>2, <1>3, PTL DEF Spec, OneFamilyChanges

----------------------------------------------------------------------------
(* Comparing two lists of NFS rules by their texts and their length is     *)
(* enough to know what every client is granted.                            *)

RuleSpec == [client: NfsClients, flags: Flags]

\* normalize_nfs_client changes the spelling of a client, not the client.
LEMMA CanonicalSameIdentity ==
    ASSUME NEW c \in NfsClients
    PROVE  Identity(Canonical(c)) = Identity(c)
<1>1. c \in NfsClient
  BY ClientAssumption
<1>2. /\ Canonical(c).form = c.form /\ Canonical(c).version = c.version
      /\ Canonical(c).bits = c.bits /\ Canonical(c).prefix = c.prefix
  BY <1>1 DEF NfsClient, Canonical
<1> QED
  BY <1>2 DEF Identity

\* A rule read from the NAS, and the one that is sent for a request.
LEMMA TextIs ==
    /\ \A r \in Rule :
          /\ AsText(r).client = Canonical(r.client) /\ AsText(r).flags = r.flags
          /\ AsText(r).flavor = r.flavor
          /\ Identity(AsText(r).client) = Identity(r.client)
    /\ \A s \in RuleSpec :
          /\ AsRule(s).flags = s.flags /\ AsRule(s).flavor = "sys"
          /\ Identity(AsRule(s).client) = Identity(s.client)
<1>1. ASSUME NEW r \in Rule
      PROVE  /\ AsText(r).client = Canonical(r.client) /\ AsText(r).flags = r.flags
             /\ AsText(r).flavor = r.flavor /\ r.client \in NfsClients
  BY DEF AsText, Rule
<1>2. ASSUME NEW s \in RuleSpec
      PROVE  /\ AsRule(s).client = Canonical(s.client) /\ AsRule(s).flags = s.flags
             /\ AsRule(s).flavor = "sys" /\ s.client \in NfsClients
  BY DEF AsRule, RuleSpec
<1> QED
  BY <1>1, <1>2, CanonicalSameIdentity

\* As many different rules are sent as were requested: no two of an accepted
\* request are one rule.
LEMMA RulesCounted ==
    ASSUME NEW specs \in Seq(RuleSpec), Accepted(specs)
    PROVE  /\ IsFiniteSet(RuleSet(specs))
           /\ Cardinality(RuleSet(specs)) = Cardinality(DOMAIN specs)
<1> DEFINE f == [i \in DOMAIN specs |-> AsRule(specs[i])]
<1>1. \A i \in DOMAIN specs : specs[i] \in RuleSpec
  OBVIOUS
<1>2. \A i, j \in DOMAIN specs : f[i] = f[j] => i = j
  <2>1. \A i, j \in DOMAIN specs :
          f[i] = f[j] => Identity(specs[i].client) = Identity(specs[j].client)
    BY <1>1, TextIs
  <2> QED
    BY <2>1 DEF Accepted
<1>3. f \in Bijection(DOMAIN specs, RuleSet(specs))
  BY <1>2 DEF Bijection, Injection, Surjection, RuleSet, IsInjective
<1>4. DOMAIN specs = 1..Len(specs) /\ Len(specs) \in Nat
  OBVIOUS
<1>5. IsFiniteSet(DOMAIN specs)
  BY <1>4, FS_Interval
<1> QED
  BY <1>3, <1>5, FS_Bijection DEF ExistsBijection

\* Where the lists match no two rules of the NAS have one text.
LEMMA TextsDiffer ==
    ASSUME NEW specs \in Seq(RuleSpec), Accepted(specs),
           NEW live \in SUBSET Rule, IsFiniteSet(live), RulesMatch(specs, live)
    PROVE  \A r, s \in live : AsText(r) = AsText(s) => r = s
<1> DEFINE f == [r \in live |-> AsText(r)]
<1>1. RuleSet(specs) = {AsText(r) : r \in live}
  BY DEF RulesMatch
<1>2. f \in Surjection(live, RuleSet(specs))
  BY <1>1 DEF Surjection
<1>3. Cardinality(live) = Cardinality(RuleSet(specs))
  BY RulesCounted DEF RulesMatch
<1>4. f \in Injection(live, RuleSet(specs))
  BY <1>2, <1>3, FS_Surjection
<1> QED
  BY <1>4 DEF Injection, IsInjective

\* A request that was accepted and whose rules match those of the NAS, as
\* create-share and modify-share compare them: every client that was asked
\* for has one rule, with what was asked, under whatever spelling, and no
\* other client has a rule.
THEOREM MatchGrantsExactly ==
    ASSUME NEW specs \in Seq(RuleSpec), Accepted(specs),
           NEW live \in SUBSET Rule, IsFiniteSet(live), RulesMatch(specs, live)
    PROVE  GrantsExactly(specs, live)
<1>1. RuleSet(specs) = {AsText(r) : r \in live}
  BY DEF RulesMatch
<1>2. RuleSet(specs) = {AsRule(specs[i]) : i \in DOMAIN specs}
  BY DEF RuleSet
<1>3. \A i \in DOMAIN specs : specs[i] \in RuleSpec
  OBVIOUS
<1>4. \A r \in live : \E i \in DOMAIN specs : AsText(r) = AsRule(specs[i])
  BY <1>1, <1>2
<1>5. ASSUME NEW i \in DOMAIN specs
      PROVE  \E r \in live : /\ RulesFor(live, Identity(specs[i].client)) = {r}
                             /\ r.flags = specs[i].flags /\ r.flavor = "sys"
  <2>1. PICK r \in live : AsText(r) = AsRule(specs[i])
    BY <1>1, <1>2
  <2>2. /\ Identity(r.client) = Identity(specs[i].client)
        /\ r.flags = specs[i].flags /\ r.flavor = "sys"
    BY <1>3, <2>1, TextIs
  <2>3. ASSUME NEW s \in live, Identity(s.client) = Identity(specs[i].client)
        PROVE  s = r
    <3>1. PICK j \in DOMAIN specs : AsText(s) = AsRule(specs[j])
      BY <1>4
    <3>2. Identity(s.client) = Identity(specs[j].client)
      BY <1>3, <3>1, TextIs
    <3>3. j = i
      BY <2>3, <3>2 DEF Accepted
    <3> QED
      BY <2>1, <3>1, <3>3, TextsDiffer
  <2> QED
    BY <2>2, <2>3 DEF RulesFor
<1>6. ASSUME NEW r \in live
      PROVE  \E i \in DOMAIN specs : Identity(r.client) = Identity(specs[i].client)
  BY <1>3, <1>4, TextIs
<1> QED
  BY <1>5, <1>6 DEF GrantsExactly

----------------------------------------------------------------------------
(* Every variable keeps to its range.                                      *)

RangeInv ==
    /\ nas \in Nas /\ IsFiniteSet(nas.nfs) /\ job \in Jobs
    /\ at \in Categories /\ offset \in 0..Cardinality(Ids)
    /\ listed \in [Ids -> Access \cup {Unlisted}] /\ twice \subseteq Ids
    /\ missing \subseteq Categories \cup {NfsStep}
    /\ exit \in {0, 10, 11, 20, 30, 40, 60, 70, Running, Killed}
    /\ sent \subseteq Mutations /\ unsure \in BOOLEAN
    /\ quiet \in BOOLEAN /\ calm \in BOOLEAN /\ steady \in BOOLEAN
    /\ edits \in 0..MaxEdits /\ faults \in 0..MaxFaults

Rows(k) == {i \in nas.accounts : Category[i] = k}

LEMMA RowsFinite ==
    ASSUME RangeInv
    PROVE  /\ Cardinality(Ids) \in Nat
           /\ \A k : /\ Rows(k) \in SUBSET Ids /\ IsFiniteSet(Rows(k))
                     /\ Cardinality(Rows(k)) \in 0..Cardinality(Ids)
<1>1. IsFiniteSet(Ids) /\ nas.accounts \subseteq Ids
  BY RankAssumption DEF RangeInv, Nas
<1>2. \A k : Rows(k) \in SUBSET Ids
  BY <1>1 DEF Rows
<1>3. ASSUME NEW k
      PROVE  IsFiniteSet(Rows(k)) /\ Cardinality(Rows(k)) <= Cardinality(Ids)
  BY <1>1, <1>2, FS_Subset
<1> QED
  BY <1>1, <1>2, <1>3, FS_CardinalityType

\* One field of the folder changes.
LEMMA FieldsFit ==
    ASSUME NEW n \in Nas
    PROVE  /\ \A x \in BOOLEAN : /\ [n EXCEPT !.live = x] \in Nas
                                /\ [n EXCEPT !.live = x].nfs = n.nfs
                                /\ [n EXCEPT !.service = x] \in Nas
                                /\ [n EXCEPT !.service = x].nfs = n.nfs
           /\ \A x \in Scalars : /\ [n EXCEPT !.scalars = x] \in Nas
                                /\ [n EXCEPT !.scalars = x].nfs = n.nfs
           /\ \A x \in Acls : /\ [n EXCEPT !.acl = x] \in Nas
                             /\ [n EXCEPT !.acl = x].nfs = n.nfs
           /\ \A x \in SUBSET Rule : /\ [n EXCEPT !.nfs = x] \in Nas
                                    /\ [n EXCEPT !.nfs = x].nfs = x
           /\ \A x \in SUBSET Ids : /\ [n EXCEPT !.accounts = x] \in Nas
                                   /\ [n EXCEPT !.accounts = x].nfs = n.nfs
<1> DEFINE rules == SUBSET Rule
           grants == Acls
           scalars == Scalars
<1>1. Nas = [live: BOOLEAN, scalars: scalars, acl: grants, nfs: rules,
             accounts: SUBSET Ids, service: BOOLEAN]
  BY DEF Nas
<1> HIDE DEF rules, grants, scalars
<1> QED
  BY <1>1 DEF rules, grants, scalars

\* The rules of an accepted request are rules, and finitely many.
LEMMA RuleSetFits ==
    ASSUME NEW specs \in Seq(RuleSpec)
    PROVE  RuleSet(specs) \in SUBSET Rule /\ IsFiniteSet(RuleSet(specs))
<1> DEFINE f == [i \in DOMAIN specs |-> AsRule(specs[i])]
<1>1. \A i \in DOMAIN specs : specs[i] \in RuleSpec
  OBVIOUS
<1>2. \A s \in RuleSpec : AsRule(s) \in Rule
  BY ClientAssumption DEF RuleSpec, AsRule, Rule
<1>3. DOMAIN specs = 1..Len(specs) /\ Len(specs) \in Nat
  OBVIOUS
<1>4. IsFiniteSet(DOMAIN specs)
  BY <1>3, FS_Interval
<1>5. f \in Surjection(DOMAIN specs, RuleSet(specs))
  BY DEF Surjection, RuleSet
<1> QED
  BY <1>1, <1>2, <1>4, <1>5, FS_Surjection DEF RuleSet

\* What a call may leave behind fits the NAS.
LEMMA PossibleFits ==
    ASSUME Inv, WorldInv, RangeInv, pc \notin {"start", "done"}, NEW n \in Possible
    PROVE  n \in Nas /\ IsFiniteSet(n.nfs)
<1>1. nas \in Nas /\ IsFiniteSet(nas.nfs)
  BY DEF RangeInv
<1>2. /\ job.scalars \in Scalars /\ before \in Scalars /\ AskedQuota \in Int
      /\ Unavailable \in Int /\ job.want \in Acls /\ job.rules \in Seq(RuleSpec)
  BY UnavailableAssumption
     DEF Inv, DataInv, Job, Scalars, WorldInv, AskedQuota, QUOTA_MIB_PER_GIB, RuleSpec
<1>3. CASE n = nas
  BY <1>1, <1>3
<1>4. CASE n # nas /\ pc = "create"
  <2> DEFINE fresh(f) == [i \in Ids |-> IF i \in nas.accounts THEN f[i] ELSE "none"]
             acls == {fresh(f) : f \in FreshAcls}
             quotas == IF job.scalars.volume \notin CanonicalVolume THEN {Unavailable}
                       ELSE IF job.scalars.quota = Unavailable THEN {0}
                       ELSE {0, AskedQuota}
             new(a, q, d) == [nas EXCEPT !.live = TRUE, !.acl = a, !.nfs = {},
                                 !.scalars = [job.scalars EXCEPT !.quota = q, !.desc = d]]
  <2>1. PICK a \in acls, q \in quotas, d \in Descs : n = new(a, q, d)
    <3>1. n \in Created
      BY <1>4 DEF Possible, Done, Mutations
    <3>2. Created = {new(a, q, d) : a \in acls, q \in quotas, d \in Descs}
      BY DEF Created
    <3> HIDE DEF acls, quotas, new
    <3> QED
      BY <3>1, <3>2
  <2>2. [job.scalars EXCEPT !.quota = q, !.desc = d] \in Scalars
    <3>1. q \in Int /\ d \in Descs
      BY <1>2
    <3> HIDE DEF acls, quotas
    <3> QED
      BY <1>2, <3>1 DEF Scalars
  <2>3. a \in Acls
    <3>1. PICK f \in FreshAcls : a = fresh(f)
      OBVIOUS
    <3>2. f \in Acls
      BY WorldAssumption
    <3>3. \A i \in Ids : f[i] \in Access /\ "none" \in Access
      BY <3>2 DEF Acls, Access
    <3> QED
      BY <3>1, <3>3 DEF Acls
  <2>4. n \in Nas /\ n.nfs = {}
    <3> DEFINE x == [job.scalars EXCEPT !.quota = q, !.desc = d]
               none == {}
               rules == SUBSET Rule
    <3>1. n = [nas EXCEPT !.live = TRUE, !.acl = a, !.nfs = none, !.scalars = x]
      BY <2>1
    <3>2. x \in Scalars /\ none \in rules
      BY <2>2
    <3>3. Nas = [live: BOOLEAN, scalars: Scalars, acl: Acls, nfs: rules,
                 accounts: SUBSET Ids, service: BOOLEAN]
      BY DEF Nas
    <3>4. n.nfs = none
      <4> HIDE DEF x, none, rules
      <4> QED
        BY <1>1, <3>1, <3>3
    <3>5. n \in Nas
      <4> HIDE DEF x, none, rules
      <4> QED
        BY <1>1, <2>3, <3>1, <3>2, <3>3
    <3> QED
      BY <3>4, <3>5
  <2> QED
    BY <2>4, FS_EmptySet
<1>5. CASE n # nas /\ pc = "grant"
  <2>1. PICK d \in SUBSET AskedOf(at) : n = Granted(d)
    BY <1>5 DEF Possible
  <2> DEFINE acl == Patched(AclRequest, nas.acl, d \cap nas.accounts)
  <2>2. n = [nas EXCEPT !.acl = acl]
    BY <2>1 DEF Granted
  <2>3. acl \in Acls
    <3>1. nas.acl \in Acls /\ AclRequest.want = job.want
      BY <1>1 DEF Nas, AclRequest
    <3>2. \A i \in Ids : nas.acl[i] \in Access /\ job.want[i] \in Access
      BY <1>2, <3>1 DEF Acls
    <3> QED
      BY <3>1, <3>2 DEF Patched, Acls
  <2> HIDE DEF acl
  <2> QED
    BY <1>1, <2>2, <2>3, FieldsFit
<1>6. CASE n # nas /\ pc = "save"
  <2>1. n = [nas EXCEPT !.nfs = RuleSet(job.rules)]
    BY <1>6 DEF Possible, Done, Mutations
  <2> QED
    BY <1>1, <1>2, <2>1, FieldsFit, RuleSetFits
<1>7. CASE n # nas /\ pc = "delete"
  <2>1. n = [nas EXCEPT !.live = FALSE]
    BY <1>7 DEF Possible, Done, Mutations
  <2> QED
    BY <1>1, <2>1, FieldsFit
<1>8. CASE n # nas /\ pc = "set"
  <2> DEFINE x == [before EXCEPT !.quota = AskedQuota]
  <2>1. n = [nas EXCEPT !.scalars = x]
    BY <1>8 DEF Possible, Done, ScalarsSet, Mutations
  <2>2. x \in Scalars
    BY <1>2 DEF Scalars
  <2> HIDE DEF x
  <2> QED
    BY <1>1, <2>1, <2>2, FieldsFit
<1>9. pc \notin Mutations => n = nas
  BY DEF Possible, Mutations
<1> QED
  BY <1>3, <1>4, <1>5, <1>6, <1>7, <1>8, <1>9 DEF Mutations

\* What others do leaves what fits the NAS.
LEMMA EditFits ==
    ASSUME RangeInv, NEW n \in Edited
    PROVE  n \in Nas /\ IsFiniteSet(n.nfs)
<1>1. /\ nas \in Nas /\ IsFiniteSet(nas.nfs) /\ nas.live \in BOOLEAN
      /\ nas.service \in BOOLEAN /\ nas.scalars \in Scalars /\ nas.acl \in Acls
      /\ nas.accounts \in SUBSET Ids
  BY DEF RangeInv, Nas
<1>2. \A i \in Ids, a \in Access : [nas.acl EXCEPT ![i] = a] \in Acls
  BY <1>1 DEF Acls
<1>3. CASE n = [nas EXCEPT !.live = ~ nas.live] \/ n = [nas EXCEPT !.service = ~ nas.service]
  BY <1>1, <1>3, FieldsFit
<1>4. ASSUME NEW d \in Descs, n = [nas EXCEPT !.scalars.desc = d]
      PROVE  n \in Nas /\ IsFiniteSet(n.nfs)
  <2>1. [nas.scalars EXCEPT !.desc = d] \in Scalars
    BY <1>1 DEF Scalars
  <2>2. n = [nas EXCEPT !.scalars = [nas.scalars EXCEPT !.desc = d]]
    BY <1>4
  <2> QED
    BY <1>1, <2>1, <2>2, FieldsFit
<1>5. ASSUME NEW b \in Bins, n = [nas EXCEPT !.scalars.bin = b]
      PROVE  n \in Nas /\ IsFiniteSet(n.nfs)
  <2>1. [nas.scalars EXCEPT !.bin = b] \in Scalars
    BY <1>1 DEF Scalars
  <2>2. n = [nas EXCEPT !.scalars = [nas.scalars EXCEPT !.bin = b]]
    BY <1>5
  <2> QED
    BY <1>1, <2>1, <2>2, FieldsFit
<1>6. ASSUME NEW rules \in EditRules, n = [nas EXCEPT !.nfs = rules]
      PROVE  n \in Nas /\ IsFiniteSet(n.nfs)
  <2>1. rules \in SUBSET Rule /\ IsFiniteSet(rules)
    BY WorldAssumption
  <2> QED
    BY <1>1, <1>6, <2>1, FieldsFit
<1>7. ASSUME NEW i \in Ids, NEW a \in Access, n = [nas EXCEPT !.acl[i] = a]
      PROVE  n \in Nas /\ IsFiniteSet(n.nfs)
  <2>1. n = [nas EXCEPT !.acl = [nas.acl EXCEPT ![i] = a]]
    BY <1>7
  <2> QED
    BY <1>1, <1>2, <2>1, FieldsFit
<1>8. ASSUME NEW i \in Ids, n = [nas EXCEPT !.accounts = nas.accounts \cup {i}]
      PROVE  n \in Nas /\ IsFiniteSet(n.nfs)
  <2>1. nas.accounts \cup {i} \in SUBSET Ids
    BY <1>1
  <2> QED
    BY <1>1, <1>8, <2>1, FieldsFit
<1>9. ASSUME NEW i \in Ids,
             n = [nas EXCEPT !.accounts = nas.accounts \ {i}, !.acl[i] = "none"]
      PROVE  n \in Nas /\ IsFiniteSet(n.nfs)
  <2> DEFINE m == [nas EXCEPT !.accounts = nas.accounts \ {i}]
             acl == [nas.acl EXCEPT ![i] = "none"]
  <2>1. nas.accounts \ {i} \in SUBSET Ids /\ acl \in Acls
    BY <1>1, <1>2 DEF Access
  <2>2. m \in Nas /\ m.nfs = nas.nfs
    BY <1>1, <2>1, FieldsFit
  <2>3. n = [m EXCEPT !.acl = acl]
    BY <1>1, <1>9 DEF Nas
  <2> HIDE DEF m, acl
  <2> QED
    BY <1>1, <2>1, <2>2, <2>3, FieldsFit
<1>10. ASSUME n \in Regranted
       PROVE  n \in Nas /\ IsFiniteSet(n.nfs)
  <2> DEFINE new(i, a) == [nas EXCEPT !.acl[i] = a]
  <2>1. Regranted = {new(i, a) : i \in nas.accounts, a \in Access}
    BY DEF Regranted
  <2>2. \A i \in Ids, a \in Access : n = new(i, a) => n \in Nas /\ IsFiniteSet(n.nfs)
    BY <1>7
  <2> HIDE DEF new
  <2> QED
    BY <1>1, <1>10, <2>1, <2>2
<1> QED
  BY <1>3, <1>4, <1>5, <1>6, <1>8, <1>9, <1>10 DEF Edited

LEMMA NextCategoryIs ==
    ASSUME at \in Categories, NEW next, NextCategory(next)
    PROVE  /\ at' \in Categories /\ offset' = 0 /\ pc' \in {pc, next}
           /\ at = LdapGroup => at' = LocalUser /\ pc' = next
           /\ at # LdapGroup => /\ at' = at + 1 /\ pc' = pc
                                /\ \A k \in Categories : k < at' <=> k < at \/ k = at
  BY DEF Categories, NextCategory, LocalUser, LocalGroup, LdapUser, LdapGroup

\* A page lies within the listing.
LEMMA PageFits ==
    ASSUME RangeInv
    PROVE  LET page == Page(Rank, Rows(at), offset)
           IN  /\ page \in SUBSET Ids /\ Cardinality(page) \in Nat
               /\ offset \in Nat /\ Cardinality(Rows(at)) \in 0..Cardinality(Ids)
               /\ \A i \in page : nas.acl[i] \in Access /\ Category[i] = at
                                  /\ i \in nas.accounts
<1> DEFINE page == Page(Rank, Rows(at), offset)
<1>1. page \subseteq Rows(at) /\ Rows(at) \subseteq Ids /\ IsFiniteSet(Rows(at))
  BY RowsFinite DEF Page
<1>2. Cardinality(page) \in Nat
  <2>1. IsFiniteSet(page)
    BY <1>1, FS_Subset
  <2> QED
    BY <2>1, FS_CardinalityType
<1>3. offset \in Nat /\ nas.acl \in Acls
  BY RowsFinite DEF RangeInv, Nas
<1> HIDE DEF page
<1> QED
  BY <1>1, <1>2, <1>3, RowsFinite DEF page, Rows, Acls

LEMMA CategoryFailsFits ==
    ASSUME RangeInv, CategoryFails
    PROVE  /\ at' \in Categories /\ offset' = 0
           /\ listed' \in [Ids -> Access \cup {Unlisted}] /\ twice' \subseteq Ids
           /\ missing' \subseteq Categories \cup {NfsStep}
<1>1. at' \in Categories /\ offset' = 0
  BY NextCategoryIs DEF CategoryFails, RangeInv
<1>2. \A i \in Ids : (IF Category[i] = at THEN Unlisted ELSE listed[i])
                        \in Access \cup {Unlisted}
  BY DEF RangeInv
<1> QED
  BY <1>1, <1>2 DEF CategoryFails, RangeInv

\* The place, the listing and what it misses.
LEMMA ListRange ==
    ASSUME Inv, RangeInv, [Next]_vars
    PROVE  /\ at' \in Categories /\ offset' \in 0..Cardinality(Ids)
           /\ listed' \in [Ids -> Access \cup {Unlisted}] /\ twice' \subseteq Ids
           /\ missing' \subseteq Categories \cup {NfsStep}
<1> USE DEF place, readings, Stop, Goto
<1>0. /\ at \in Categories /\ offset \in 0..Cardinality(Ids) /\ 0 \in 0..Cardinality(Ids)
      /\ listed \in [Ids -> Access \cup {Unlisted}] /\ twice \subseteq Ids
      /\ missing \subseteq Categories \cup {NfsStep}
  BY RowsFinite DEF RangeInv
<1>1. CASE UNCHANGED <<at, offset, listed, twice, missing>>
  BY <1>0, <1>1
<1>2. CASE CategoryFails
  BY <1>0, <1>2, CategoryFailsFits
<1>3. CASE NextCategory("check") /\ UNCHANGED <<listed, twice, missing>>
  BY <1>0, <1>3, NextCategoryIs
<1>4. CASE ReadRows /\ ~ CategoryFails
  <2> DEFINE page == Page(Rank, Rows(at), offset)
  <2>1. /\ listed' = [i \in Ids |-> IF i \in page THEN nas.acl[i] ELSE listed[i]]
        /\ twice' = twice \cup {i \in page : listed[i] # Unlisted}
        /\ UNCHANGED missing
    BY <1>4 DEF ReadRows, Rows
  <2>2. \/ NextCategory("rules")
        \/ offset' = Onward(page) /\ UNCHANGED at /\ Onward(page) # Cardinality(Rows(at))
           /\ ~ (Onward(page) > Cardinality(Rows(at)))
    BY <1>4 DEF ReadRows, Rows
  <2>3. at' \in Categories /\ offset' \in 0..Cardinality(Ids)
    <3>1. CASE NextCategory("rules")
      BY <1>0, <3>1, NextCategoryIs
    <3>2. CASE offset' = Onward(page) /\ UNCHANGED at
               /\ ~ (Onward(page) > Cardinality(Rows(at)))
      <4>1. /\ Cardinality(page) \in Nat /\ offset \in Nat /\ Cardinality(Ids) \in Nat
            /\ Cardinality(Rows(at)) \in 0..Cardinality(Ids)
        BY PageFits, RowsFinite
      <4> HIDE DEF page
      <4> QED
        BY <1>0, <3>2, <4>1 DEF Onward
    <3> QED
      BY <2>2, <3>1, <3>2
  <2>4. \A i \in page : nas.acl[i] \in Access /\ i \in Ids
    BY PageFits
  <2> HIDE DEF page
  <2> QED
    BY <1>0, <2>1, <2>3, <2>4
<1>5. CASE Start \/ Precheck \/ Create \/ Check \/ LoadBefore \/ Load \/ ReadScalars
           \/ ReadBin \/ ListShares \/ OpenApis \/ ReadRules
  BY <1>1, <1>3, <1>5 DEF Start, Precheck, Create, Check, LoadBefore, Load, ReadScalars,
     ReadBin, ListShares, OpenApis, ReadRules, Mutate, AfterPermissions, Preflighted,
     Verified
<1>6. CASE Grant \/ Save \/ SetQuota \/ Delete
  BY <1>1, <1>3, <1>6 DEF Grant, Save, SetQuota, Delete, Mutate
<1>7. CASE Fail
  <2>1. \/ /\ UNCHANGED <<at, offset, listed, twice>>
           /\ missing' \in {missing, missing \cup {NfsStep}}
        \/ CategoryFails
    BY <1>7 DEF Fail, FailEarly, FailPermissions, FailNfs, FailSetQuota, FailVerifyQuota,
       FailApis, FailRows, FailRules, Unsupported
  <2> QED
    BY <1>0, <1>2, <2>1
<1>8. CASE Kill \/ Edit \/ UNCHANGED vars
  BY <1>1, <1>8 DEF Kill, Edit, vars, result
<1> QED
  BY <1>2, <1>4, <1>5, <1>6, <1>7, <1>8 DEF Next, Command

\* The exit code, the ghosts and the budgets.
LEMMA CountsRange ==
    ASSUME Inv, RangeInv, [Next]_vars
    PROVE  /\ exit' \in {0, 10, 11, 20, 30, 40, 60, 70, Running, Killed}
           /\ sent' \subseteq Mutations /\ unsure' \in BOOLEAN
           /\ quiet' \in BOOLEAN /\ calm' \in BOOLEAN /\ steady' \in BOOLEAN
           /\ edits' \in 0..MaxEdits /\ faults' \in 0..MaxFaults
<1> USE DEF Stop, Goto, Answered
<1>0. /\ exit \in {0, 10, 11, 20, 30, 40, 60, 70, Running, Killed}
      /\ sent \subseteq Mutations /\ unsure \in BOOLEAN
      /\ quiet \in BOOLEAN /\ calm \in BOOLEAN /\ steady \in BOOLEAN
      /\ edits \in 0..MaxEdits /\ faults \in 0..MaxFaults
  BY DEF RangeInv
<1>1. CASE Start \/ Precheck \/ Check \/ LoadBefore \/ Load \/ ReadScalars
           \/ ReadBin \/ ListShares \/ OpenApis \/ ReadRows \/ ReadRules
  <2>1. UNCHANGED <<sent, unsure, edits, faults>>
        /\ quiet' \in {quiet, TRUE} /\ calm' \in {calm, TRUE} /\ steady' \in {steady, TRUE}
    BY <1>1 DEF Start, Precheck, Check, LoadBefore, Load, ReadScalars, ReadBin,
       ListShares, OpenApis, ReadRows, ReadRules, ghosts, watch
  <2>2. exit' \in {exit, 0, 10, 11, 40, 60}
    BY <1>1 DEF Start, Precheck, Check, LoadBefore, Load, ReadScalars, ReadBin,
       ListShares, OpenApis, ReadRows, ReadRules, AfterPermissions, Preflighted, Verified
  <2>3. quiet' \in BOOLEAN /\ calm' \in BOOLEAN /\ steady' \in BOOLEAN
    BY <1>0, <2>1
  <2>4. exit' \in {0, 10, 11, 20, 30, 40, 60, 70, Running, Killed}
    BY <1>0, <2>2
  <2> QED
    BY <1>0, <2>1, <2>3, <2>4
<1>2. CASE Create \/ Grant \/ Save \/ SetQuota \/ Delete
  <2>1. /\ UNCHANGED <<unsure, edits, faults, calm, steady>> /\ quiet' \in {quiet, TRUE}
        /\ sent' \subseteq sent \cup Mutations
    BY <1>2 DEF Create, Grant, Save, SetQuota, Delete, Mutate, Watch, Unwatched, watch,
       Mutations
  <2>2. exit' \in {exit, 0}
    BY <1>2 DEF Create, Grant, Save, SetQuota, Delete, AfterPermissions
  <2>3. quiet' \in BOOLEAN /\ sent' \subseteq Mutations
    BY <1>0, <2>1
  <2>4. exit' \in {0, 10, 11, 20, 30, 40, 60, 70, Running, Killed}
    BY <1>0, <2>2
  <2> QED
    BY <1>0, <2>1, <2>3, <2>4
<1>3. CASE Fail
  <2>1. \/ \E how \in Hows : Trouble(how) /\ exit' \in {exit, Mapped(how), 40, 60, 70}
        \/ Unsupported
    BY <1>3 DEF Fail, FailEarly, FailPermissions, FailNfs, FailSetQuota, FailVerifyQuota,
       FailApis, FailRows, FailRules
  <2>2. CASE Unsupported
    <3>1. UNCHANGED <<sent, unsure, quiet, calm, steady, edits>> /\ exit' = 10
          /\ faults < MaxFaults /\ faults' = faults + 1
      BY <2>2 DEF Unsupported, ghosts, watch
    <3> QED
      BY <1>0, <3>1, BoundsAssumption
  <2>3. ASSUME NEW how \in Hows, Trouble(how), exit' \in {exit, Mapped(how), 40, 60, 70}
        PROVE  /\ exit' \in {exit, 20, 30, 40, 60, 70} /\ sent' \subseteq Mutations
               /\ unsure' \in BOOLEAN /\ UNCHANGED <<quiet, calm, steady, edits>>
               /\ faults' \in 0..MaxFaults
    <3>1. Mapped(how) \in {20, 30, 40, 70}
      BY DEF Mapped, Hows
    <3>2. sent' \subseteq Mutations /\ UNCHANGED <<quiet, calm, steady, edits>>
      BY <1>0, <2>3 DEF Trouble, watch
    <3>3. \/ UNCHANGED <<faults, unsure>>
          \/ /\ faults < MaxFaults /\ faults' = faults + 1
             /\ unsure' = (unsure \/ (pc \in Mutations /\ Lands(how)))
      BY <2>3 DEF Trouble
    <3>4. unsure' \in BOOLEAN
      BY <1>0, <3>3
    <3>5. faults' \in 0..MaxFaults
      BY <1>0, <3>3, BoundsAssumption
    <3> QED
      BY <2>3, <3>1, <3>2, <3>4, <3>5
  <2> QED
    BY <1>0, <2>1, <2>2, <2>3
<1>4. CASE Kill
  <2>1. /\ faults < MaxFaults /\ faults' = faults + 1 /\ exit' = Killed
        /\ UNCHANGED <<unsure, quiet, calm, steady, edits>>
        /\ sent' = sent \cup ({pc} \cap Mutations)
    BY <1>4 DEF Kill, watch
  <2> QED
    BY <1>0, <2>1, BoundsAssumption
<1>5. CASE Edit
  <2>1. /\ edits < MaxEdits /\ edits' = edits + 1 /\ quiet' = FALSE /\ calm' = FALSE
        /\ steady' = (steady /\ nas'.accounts = nas.accounts)
        /\ UNCHANGED <<exit, sent, unsure, faults>>
    BY <1>5 DEF Edit, result
  <2>2. edits' \in 0..MaxEdits
    BY <1>0, <2>1, BoundsAssumption
  <2>3. quiet' \in BOOLEAN /\ calm' \in BOOLEAN /\ steady' \in BOOLEAN
    BY <1>0, <2>1
  <2> QED
    BY <1>0, <2>1, <2>2, <2>3
<1>6. CASE UNCHANGED vars
  BY <1>0, <1>6 DEF vars, result, ghosts, watch
<1> QED
  BY <1>1, <1>2, <1>3, <1>4, <1>5, <1>6 DEF Next, Command

LEMMA RangeStep ==
    ASSUME Inv, WorldInv, RangeInv, [Next]_vars
    PROVE  RangeInv'
<1>1. nas' \in Nas /\ IsFiniteSet(nas'.nfs)
  <2>1. CASE Edit
    BY <2>1, EditFits DEF Edit
  <2>2. CASE ~ Edit
    <3>1. CASE nas' = nas
      BY <3>1 DEF RangeInv
    <3>2. CASE pc \in Mutations /\ nas' \in Possible
      BY <3>2, PossibleFits DEF Mutations
    <3> QED
      BY <2>2, <3>1, <3>2, ProgramChanges
  <2> QED
    BY <2>1, <2>2
<1>2. job' = job
  BY DEF Next, Command, Start, Precheck, Create, Grant, Check, LoadBefore, Save, Load,
     ReadScalars, ReadBin, SetQuota, Delete, ListShares, OpenApis, ReadRows, ReadRules,
     Mutate, Fail, FailEarly, FailPermissions, FailNfs, FailSetQuota, FailVerifyQuota,
     FailApis, FailRows, FailRules, Unsupported, Trouble, Kill, Edit, vars
<1> QED
  BY <1>1, <1>2, ListRange, CountsRange DEF RangeInv

LEMMA InitRange == Init => WorldInv /\ RangeInv
<1> SUFFICES ASSUME Init PROVE WorldInv /\ RangeInv
  OBVIOUS
<1>1. nas \in Nas /\ job \in Job /\ IsFiniteSet(nas.nfs)
  BY WorldAssumption DEF Init
<1>2. Good(nas)
  BY <1>1 DEF Nas, Good
<1>3. job.scalars \in Scalars
  BY <1>1 DEF Job
<1>4. WorldInv
  BY <1>2, <1>3 DEF Init, WorldInv, CalmInv
<1>5. Cardinality(Ids) \in Nat
  BY RankAssumption, FS_CardinalityType
<1>6. listed \in [Ids -> Access \cup {Unlisted}] /\ twice \subseteq Ids
  BY DEF Init, NothingListed
<1>7. offset \in 0..Cardinality(Ids) /\ edits \in 0..MaxEdits /\ faults \in 0..MaxFaults
  BY <1>5, BoundsAssumption DEF Init
<1>8. /\ sent = {} /\ missing = {} /\ job \in Jobs /\ exit = Running /\ at \in Categories
      /\ unsure = FALSE /\ quiet = TRUE /\ calm = TRUE /\ steady = TRUE
  BY DEF Init, Categories
<1>9. RangeInv
  BY <1>1, <1>6, <1>7, <1>8 DEF RangeInv
<1> QED
  BY <1>4, <1>9

\* Every variable keeps to its range.
THEOREM ShareTypeCorrect == Spec => []TypeOK
<1>1. Init => Inv /\ WorldInv /\ RangeInv
  BY InitInv, InitRange
<1>2. Inv /\ WorldInv /\ RangeInv /\ [Next]_vars => (Inv /\ WorldInv /\ RangeInv)'
  BY StepInv, WorldStep, RangeStep
<1>3. Inv /\ WorldInv /\ RangeInv => TypeOK
  BY DEF Inv, DataInv, WorldInv, RangeInv, TypeOK
<1> QED
  BY <1>1, <1>2, <1>3, PTL DEF Spec

----------------------------------------------------------------------------
(* What a listing shows.                                                   *)

\* A walk through the categories begins with the first.
PlaceInv ==
    pc \in {"start", "precheck", "create", "shares", "apis"} =>
        at = LocalUser /\ offset = 0

\* Nothing is listed before, nor by another command.
EmptyInv ==
    job.kind # "list" \/ pc \in {"start", "shares", "apis"} =>
        listed = NothingListed /\ twice = {} /\ missing = {}

\* Of the categories behind it a listing shows everybody, or nobody when one
\* is missing; of the one it has reached, who is on the pages read.
Behind(k) == pc = "rules" \/ k < at
ListInv ==
    steady /\ pc \in {"rows", "rules"} =>
        /\ twice = {} /\ missing \subseteq {k \in Categories : Behind(k)}
        /\ pc = "rows" => offset <= Cardinality(Rows(at))
        /\ \A i \in Ids :
              listed[i] # Unlisted <=>
                 IF Behind(Category[i])
                 THEN i \in nas.accounts /\ Category[i] \notin missing
                 ELSE Category[i] = at /\ i \in Before(Rank, Rows(at), offset)
GrantsInv ==
    quiet /\ pc \in {"rows", "rules"} =>
        \A i \in Ids : listed[i] # Unlisted => listed[i] = nas.acl[i]

\* A category is done with, read to its end or dropped.
LEMMA CategoryDone ==
    ASSUME RangeInv, ListInv, steady, pc = "rows", nas' = nas, twice' = {},
           missing' \in {missing, missing \cup {at}},
           \A i \in Ids :
              listed'[i] # Unlisted <=>
                 IF Category[i] = at THEN i \in nas.accounts /\ at \notin missing'
                 ELSE listed[i] # Unlisted,
           NextCategory("rules")
    PROVE  ListInv'
<1>1. at \in Categories /\ Category \in [Ids -> Categories]
  BY CategoryAssumption DEF RangeInv
<1>2. \A i \in Ids : Category[i] < at =>
         (listed[i] # Unlisted <=> i \in nas.accounts /\ Category[i] \notin missing)
  BY DEF ListInv, Behind
<1>3. \A i \in Ids : Category[i] \in Categories /\ ~ Category[i] < at /\ Category[i] # at
                     => listed[i] = Unlisted
  BY DEF ListInv, Behind
<1>4. \A k \in missing : k \in Categories /\ k < at
  BY DEF ListInv, Behind
<1>5. CASE at = LdapGroup
  <2>1. pc' = "rules" /\ \A k \in Categories : k < at \/ k = at
    BY <1>1, <1>5, NextCategoryIs DEF Categories, LocalUser, LocalGroup, LdapUser, LdapGroup
  <2>2. \A i \in Ids : listed'[i] # Unlisted <=>
           i \in nas.accounts /\ Category[i] \notin missing'
    <3> TAKE i \in Ids
    <3>1. CASE Category[i] = at
      BY <3>1
    <3>2. CASE Category[i] < at /\ Category[i] # at
      BY <1>2, <3>2
    <3> QED
      BY <1>1, <2>1, <3>1, <3>2
  <2>3. missing' \subseteq Categories
    BY <1>1, <1>4
  <2> QED
    BY <2>1, <2>2, <2>3 DEF ListInv, Behind
<1>6. CASE at # LdapGroup
  <2>1. /\ pc' = "rows" /\ at' \in Categories /\ offset' = 0
        /\ \A k \in Categories : k < at' <=> k < at \/ k = at
    BY <1>1, <1>6, NextCategoryIs
  <2>2. Before(Rank, Rows(at'), 0) = {} /\ Rows(at)' = Rows(at')
        /\ 0 <= Cardinality(Rows(at'))
    <3>1. Rows(at)' = Rows(at')
      BY DEF Rows
    <3>2. /\ Rows(at') \in SUBSET Ids /\ IsFiniteSet(Rows(at'))
          /\ Cardinality(Rows(at')) \in 0..Cardinality(Ids) /\ Cardinality(Ids) \in Nat
      BY RowsFinite
    <3>3. Before(Rank, Rows(at'), 0) = {}
      BY <3>2, RankAssumption, BeforeEnds
    <3> QED
      BY <3>1, <3>2, <3>3
  <2>3. \A i \in Ids : listed'[i] # Unlisted <=>
           Category[i] < at' /\ i \in nas.accounts /\ Category[i] \notin missing'
    <3> TAKE i \in Ids
    <3>1. CASE Category[i] = at
      BY <1>1, <2>1, <3>1
    <3>2. CASE Category[i] < at /\ Category[i] # at
      BY <1>1, <1>2, <2>1, <3>2
    <3>3. CASE ~ Category[i] < at /\ Category[i] # at
      BY <1>1, <1>3, <2>1, <3>3
    <3> QED
      BY <3>1, <3>2, <3>3
  <2>4. \A k \in missing' : k \in Categories /\ k < at'
    BY <1>1, <1>4, <2>1
  <2>5. \A i \in Ids : i \notin Before(Rank, Rows(at)', offset')
    BY <2>1, <2>2
  <2>6. offset' <= Cardinality(Rows(at)')
    BY <2>1, <2>2
  <2> QED
    BY <2>1, <2>3, <2>4, <2>5, <2>6 DEF ListInv, Behind
<1> QED
  BY <1>5, <1>6

\* A page of a listing whose accounts stay.
LEMMA RowsListed ==
    ASSUME RangeInv, ListInv, ReadRows, steady
    PROVE  ListInv'
<1> DEFINE page == Page(Rank, Rows(at), offset)
           count == Cardinality(Rows(at))
<1>1. pc = "rows" /\ nas' = nas /\ steady' = steady
  BY DEF ReadRows, ghosts, watch
<1>2. offset \in Nat /\ offset <= count /\ count \in Nat /\ Cardinality(page) \in Nat
  <2>1. count \in 0..Cardinality(Ids) /\ Cardinality(Ids) \in Nat /\ offset \in Nat
        /\ Cardinality(page) \in Nat
    BY RowsFinite, PageFits
  <2>2. offset <= count
    BY <1>1 DEF ListInv
  <2> HIDE DEF count, page
  <2> QED
    BY <2>1, <2>2
<1>3. /\ Onward(page) <= count
      /\ Before(Rank, Rows(at), Onward(page)) = Before(Rank, Rows(at), offset) \cup page
      /\ Before(Rank, Rows(at), offset) \cap page = {}
  BY <1>2, RowsFinite, RankAssumption, PageExtends DEF Onward
<1>4. /\ listed' = [i \in Ids |-> IF i \in page THEN nas.acl[i] ELSE listed[i]]
      /\ twice' = twice \cup {i \in page : listed[i] # Unlisted}
      /\ UNCHANGED missing
      /\ \/ Onward(page) = count /\ NextCategory("rules")
         \/ Onward(page) # count /\ offset' = Onward(page) /\ UNCHANGED <<pc, at>>
  <2>1. Onward(page) \in Nat
    BY <1>2 DEF Onward
  <2>2. ~ (Onward(page) > count)
    <3> HIDE DEF page, count
    <3> QED
      BY <1>2, <1>3, <2>1
  <2> QED
    BY <2>2 DEF ReadRows, Rows
<1>5. /\ page \subseteq Ids
      /\ \A i \in page : nas.acl[i] # Unlisted /\ Category[i] = at /\ i \in nas.accounts
  BY PageFits DEF Access, Unlisted
<1>6. at \notin missing /\ twice = {}
      /\ \A i \in Ids : Category[i] = at =>
            (listed[i] # Unlisted <=> i \in Before(Rank, Rows(at), offset))
  <2>1. ~ at < at
    BY DEF RangeInv, Categories, LocalUser, LocalGroup, LdapUser, LdapGroup
  <2> QED
    BY <1>1, <2>1 DEF ListInv, Behind
<1>7. twice' = {}
  BY <1>3, <1>4, <1>5, <1>6
<1>8. \A i \in Ids :
         /\ Category[i] # at => listed'[i] = listed[i]
         /\ Category[i] = at =>
               (listed'[i] # Unlisted <=> i \in Before(Rank, Rows(at), Onward(page)))
  <2> HIDE DEF page
  <2> QED
    BY <1>3, <1>4, <1>5, <1>6
<1>9. CASE Onward(page) = count /\ NextCategory("rules")
  <2>1. Before(Rank, Rows(at), Onward(page)) = Rows(at)
    BY <1>9, RowsFinite, RankAssumption, BeforeEnds
  <2>2. \A i \in Ids :
           listed'[i] # Unlisted <=>
              IF Category[i] = at THEN i \in nas.accounts /\ at \notin missing'
              ELSE listed[i] # Unlisted
    BY <1>4, <1>6, <1>8, <2>1 DEF Rows
  <2> QED
    BY <1>1, <1>4, <1>7, <1>9, <2>2, CategoryDone
<1>10. CASE offset' = Onward(page) /\ UNCHANGED <<pc, at>>
  <2>1. Rows(at)' = Rows(at)
    BY <1>1, <1>10 DEF Rows
  <2> HIDE DEF page
  <2>2. \A i \in Ids :
           listed'[i] # Unlisted <=>
              IF Category[i] < at
              THEN i \in nas.accounts /\ Category[i] \notin missing
              ELSE Category[i] = at /\ i \in Before(Rank, Rows(at), offset')
    <3> TAKE i \in Ids
    <3>1. CASE Category[i] = at
      BY <1>8, <1>10, <3>1 DEF RangeInv, Categories, LocalUser, LocalGroup, LdapUser, LdapGroup
    <3>2. CASE Category[i] # at
      BY <1>1, <1>8, <3>2 DEF ListInv, Behind
    <3> QED
      BY <3>1, <3>2
  <2>3. \A k \in missing' : k \in Categories /\ k < at
    BY <1>1, <1>4 DEF ListInv, Behind
  <2>4. offset' <= Cardinality(Rows(at)')
    BY <1>3, <1>10, <2>1
  <2>5. pc' = "rows" /\ at' = at /\ missing' = missing
    BY <1>1, <1>4, <1>10
  <2>6. \A i \in Ids :
           listed'[i] # Unlisted <=>
              IF Category[i] < at'
              THEN i \in nas'.accounts /\ Category[i] \notin missing'
              ELSE Category[i] = at' /\ i \in Before(Rank, Rows(at)', offset')
    BY <1>1, <2>1, <2>2, <2>5
  <2> QED
    BY <1>7, <2>3, <2>4, <2>5, <2>6 DEF ListInv, Behind
<1> QED
  BY <1>4, <1>9, <1>10

\* What a page shows is what is granted.
LEMMA GrantsRead ==
    ASSUME RangeInv, GrantsInv, ReadRows
    PROVE  GrantsInv'
<1> SUFFICES ASSUME quiet' PROVE GrantsInv'
  BY DEF GrantsInv
<1>1. /\ nas' = nas /\ quiet /\ pc = "rows"
  BY DEF ReadRows, ghosts, watch
<1>2. \A i \in Ids : listed[i] # Unlisted => listed[i] = nas.acl[i]
  BY <1>1 DEF GrantsInv
<1>3. \/ listed' = [i \in Ids |-> IF i \in Page(Rank, Rows(at), offset) THEN nas.acl[i]
                                   ELSE listed[i]]
      \/ listed' = [i \in Ids |-> IF Category[i] = at THEN Unlisted ELSE listed[i]]
  BY DEF ReadRows, CategoryFails, Rows
<1>4. \A i \in Ids : listed'[i] # Unlisted => listed'[i] = nas.acl[i]
  BY <1>2, <1>3
<1> QED
  BY <1>1, <1>4 DEF GrantsInv

\* A command that does not list stays away from the listing, and so does one
\* that has not begun to.
LEMMA EmptyStep ==
    ASSUME Inv, EmptyInv, PlaceInv, [Next]_vars
    PROVE  EmptyInv' /\ PlaceInv'
<1> USE DEF Goto, Stop, place, readings, result
<1>1. /\ pc \in {"rows", "rules"} => job.kind = "list"
      /\ job' = job
  BY DEF Inv, KindInv, Next, Command, Start, Precheck, Create, Grant, Check, LoadBefore,
     Save, Load, ReadScalars, ReadBin, SetQuota, Delete, ListShares, OpenApis, ReadRows,
     ReadRules, Mutate, Fail, FailEarly, FailPermissions, FailNfs, FailSetQuota,
     FailVerifyQuota, FailApis, FailRows, FailRules, Unsupported, Trouble, Kill, Edit, vars
<1>2. CASE ReadRows \/ (\E how \in Hows : FailRows(how))
  <2>1. pc = "rows" /\ pc' \in {"rows", "rules"}
    BY <1>2 DEF ReadRows, FailRows, CategoryFails, NextCategory
  <2> QED
    BY <1>1, <2>1 DEF EmptyInv, PlaceInv
<1>3. CASE ReadRules \/ (\E how \in Hows : FailRules(how))
  <2>1. pc = "rules" /\ pc' = "done"
    BY <1>3 DEF ReadRules, FailRules
  <2> QED
    BY <1>1, <2>1 DEF EmptyInv, PlaceInv
<1>4. CASE Edit \/ UNCHANGED vars
  <2>1. UNCHANGED <<pc, at, offset, listed, twice, missing>>
    BY <1>4 DEF Edit, vars
  <2> QED
    BY <1>1, <2>1 DEF EmptyInv, PlaceInv
<1>5. CASE Start \/ Precheck \/ ListShares \/ OpenApis
  <2>1. /\ UNCHANGED <<at, offset, listed, twice, missing>>
        /\ pc \in {"start", "precheck", "shares", "apis"}
        /\ pc' \in {"start", "shares", "apis"} => pc \in {"start", "shares", "apis"}
    BY <1>5 DEF Start, Precheck, ListShares, OpenApis
  <2> QED
    BY <1>1, <2>1 DEF EmptyInv, PlaceInv
<1>6. CASE Create \/ Grant \/ Check \/ LoadBefore \/ Save \/ Load \/ ReadScalars \/ ReadBin
           \/ SetQuota \/ Delete
  <2>1. /\ UNCHANGED <<listed, twice, missing>>
        /\ pc' \notin {"start", "precheck", "create", "shares", "apis"}
    BY <1>6 DEF Create, Grant, Check, LoadBefore, Save, Load, ReadScalars, ReadBin,
       SetQuota, Delete, Mutate, AfterPermissions, NextCategory, Preflighted, Verified
  <2> QED
    BY <1>1, <2>1 DEF EmptyInv, PlaceInv
<1>7. CASE \/ \E how \in Hows :
                 \/ FailEarly(how) \/ FailPermissions(how) \/ FailNfs(how)
                 \/ FailSetQuota(how) \/ FailVerifyQuota(how) \/ FailApis(how)
           \/ Unsupported \/ Kill
  <2>1. UNCHANGED <<listed, twice, missing>> /\ pc' = "done"
    BY <1>7 DEF FailEarly, FailPermissions, FailNfs, FailSetQuota, FailVerifyQuota,
       FailApis, Unsupported, Kill
  <2> QED
    BY <1>1, <2>1 DEF EmptyInv, PlaceInv
<1> QED
  BY <1>2, <1>3, <1>4, <1>5, <1>6, <1>7 DEF Next, Command, Fail

\* The steps that come to a listing, or go on with it.
LEMMA ListingSteps ==
    ASSUME Inv, WorldInv, [Next]_vars, pc' \in {"rows", "rules"}
    PROVE  \/ OpenApis
           \/ ReadRows
           \/ CategoryFails /\ nas' = nas /\ pc = "rows" /\ UNCHANGED watch
           \/ Edit
           \/ UNCHANGED vars
<1> USE DEF Goto, Stop
<1>1. job.kind \in Kinds
  BY DEF Inv, DataInv, Job
<1>2. CASE Start \/ Precheck \/ ListShares \/ ReadRules
  BY <1>1, <1>2 DEF Start, Precheck, ListShares, ReadRules, FirstCall, Kinds
<1>3. CASE Create \/ Grant \/ Check \/ LoadBefore \/ Save \/ Load \/ ReadScalars \/ ReadBin
           \/ SetQuota \/ Delete
  BY <1>3 DEF Create, Grant, Check, LoadBefore, Save, Load, ReadScalars, ReadBin,
     SetQuota, Delete, Mutate, AfterPermissions, NextCategory, Preflighted, Verified
<1>4. CASE \E how \in Hows : FailRows(how)
  <2>1. CategoryFails /\ pc = "rows" /\ UNCHANGED watch
    BY <1>4 DEF FailRows, Trouble
  <2>2. nas' = nas
    BY <1>4 DEF FailRows, Trouble, Possible, Mutations
  <2> QED
    BY <2>1, <2>2
<1>5. CASE \/ \E how \in Hows :
                 \/ FailEarly(how) \/ FailPermissions(how) \/ FailNfs(how)
                 \/ FailSetQuota(how) \/ FailVerifyQuota(how) \/ FailApis(how)
                 \/ FailRules(how)
           \/ Unsupported \/ Kill
  BY <1>5 DEF FailEarly, FailPermissions, FailNfs, FailSetQuota, FailVerifyQuota,
     FailApis, FailRules, Unsupported, Kill
<1> QED
  BY <1>2, <1>3, <1>4, <1>5 DEF Next, Command, Fail

LEMMA ListStep ==
    ASSUME Inv, WorldInv, RangeInv, PlaceInv, EmptyInv, ListInv, GrantsInv, [Next]_vars
    PROVE  ListInv' /\ GrantsInv'
<1> SUFFICES ASSUME pc' \in {"rows", "rules"} PROVE ListInv' /\ GrantsInv'
  BY DEF ListInv, GrantsInv
<1>1. CASE OpenApis
  <2>1. /\ pc = "apis" /\ pc' = "rows" /\ UNCHANGED <<nas, at, offset, listed, twice, missing>>
    BY <1>1 DEF OpenApis, Goto, readings
  <2>2. /\ at = LocalUser /\ offset = 0 /\ listed = NothingListed /\ twice = {}
        /\ missing = {}
    BY <2>1 DEF PlaceInv, EmptyInv
  <2>3. /\ Before(Rank, Rows(at), 0) = {} /\ 0 <= Cardinality(Rows(at))
    BY RowsFinite, RankAssumption, BeforeEnds
  <2>4. \A i \in Ids : listed[i] = Unlisted /\ ~ Category[i] < at
    BY <2>2, CategoryAssumption
       DEF NothingListed, Categories, LocalUser, LocalGroup, LdapUser, LdapGroup
  <2>5. Rows(at)' = Rows(at)
    BY <2>1 DEF Rows
  <2>6. GrantsInv'
    BY <2>1, <2>4 DEF GrantsInv
  <2>7. \A i \in Ids : i \notin Before(Rank, Rows(at)', offset')
    BY <2>1, <2>2, <2>3, <2>5
  <2>8. offset' <= Cardinality(Rows(at)')
    BY <2>1, <2>2, <2>3, <2>5
  <2>9. ListInv'
    BY <2>1, <2>2, <2>4, <2>7, <2>8 DEF ListInv, Behind
  <2> QED
    BY <2>6, <2>9
<1>2. CASE ReadRows \/ (CategoryFails /\ nas' = nas /\ pc = "rows" /\ UNCHANGED watch)
  <2>1. pc = "rows" /\ nas' = nas /\ steady' = steady /\ quiet' = quiet
    BY <1>2 DEF ReadRows, ghosts, watch
  <2>2. CASE ReadRows
    <3>1. steady' => ListInv'
      BY <2>1, <2>2, RowsListed
    <3> QED
      BY <3>1, <2>1, GrantsRead, <2>2 DEF ListInv
  <2>3. CASE CategoryFails
    <3>1. GrantsInv'
      BY <2>1, <2>3 DEF CategoryFails, GrantsInv
    <3>2. steady => ListInv'
      <4> SUFFICES ASSUME steady PROVE ListInv'
        OBVIOUS
      <4>1. twice' = {}
        BY <2>1, <2>3 DEF CategoryFails, ListInv
      <4>2. \A i \in Ids :
               listed'[i] # Unlisted <=>
                  IF Category[i] = at THEN i \in nas.accounts /\ at \notin missing'
                  ELSE listed[i] # Unlisted
        BY <2>3 DEF CategoryFails
      <4>3. missing' = missing \cup {at} /\ NextCategory("rules")
        BY <2>3 DEF CategoryFails
      <4> QED
        BY <2>1, <4>1, <4>2, <4>3, CategoryDone
    <3> QED
      BY <2>1, <3>1, <3>2 DEF ListInv
  <2> QED
    BY <1>2, <2>1, <2>2, <2>3
<1>3. CASE Edit
  <2>1. /\ quiet' = FALSE /\ steady' = (steady /\ nas'.accounts = nas.accounts)
        /\ UNCHANGED <<pc, at, offset, listed, twice, missing>>
    BY <1>3 DEF Edit, place, readings, result
  <2>2. CASE nas'.accounts = nas.accounts
    <3>1. Rows(at)' = Rows(at)
      BY <2>1, <2>2 DEF Rows
    <3> QED
      BY <2>1, <2>2, <3>1 DEF ListInv, GrantsInv, Behind
  <2> QED
    BY <2>1, <2>2 DEF ListInv, GrantsInv
<1>4. CASE UNCHANGED vars
  <2>1. UNCHANGED <<nas, pc, at, offset, listed, twice, missing, quiet, steady>>
    BY <1>4 DEF vars, place, readings, result, ghosts, watch
  <2>2. Rows(at)' = Rows(at)
    BY <2>1 DEF Rows
  <2> QED
    BY <2>1, <2>2 DEF ListInv, GrantsInv, Behind
<1> QED
  BY <1>1, <1>2, <1>3, <1>4, ListingSteps

----------------------------------------------------------------------------
(* What exit code 0 says.                                                  *)

ValidInv == pc \notin {"start", "done"} => Valid

\* What was read by one call holds while the other is made, and the grants of
\* the categories that were checked are there.
PartInv == quiet /\ pc \in {"readBin", "rereadBin"} => part = nas.scalars
CheckedInv ==
    /\ quiet /\ pc = "check" =>
          \A i \in AskedIds : Category[i] < at => nas.acl[i] = job.want[i]
    /\ quiet /\ pc \in {"save", "load"} /\ job.kind = "create" =>
          \A i \in AskedIds : nas.acl[i] = job.want[i]
\* A listing that nobody has disturbed has met no change of the accounts.
QuietInv == quiet /\ job.kind = "list" => steady
SeenInv == ValidInv /\ PartInv /\ CheckedInv /\ QuietInv

LEMMA AskedAre == \A i \in AskedIds : i \in Ids /\ Category[i] \in Categories
  BY CategoryAssumption DEF AskedIds, Asked

\* Grants of a category that were seen.
LEMMA GrantsAreSeen ==
    ASSUME RangeInv, GrantsSeen
    PROVE  \A i \in AskedIds : Category[i] = at => nas.acl[i] = job.want[i]
  BY DEF GrantsSeen, AskedOf

LEMMA SameJob ==
    ASSUME [Next]_vars
    PROVE  job' = job /\ AskedIds' = AskedIds
<1>1. job' = job
  BY DEF Next, Command, Start, Precheck, Create, Grant, Check, LoadBefore, Save, Load,
     ReadScalars, ReadBin, SetQuota, Delete, ListShares, OpenApis, ReadRows, ReadRules,
     Mutate, Fail, FailEarly, FailPermissions, FailNfs, FailSetQuota, FailVerifyQuota,
     FailApis, FailRows, FailRules, Unsupported, Trouble, Kill, Edit, vars
<1> QED
  BY <1>1 DEF AskedIds, AclRequest

LEMMA ValidStep ==
    ASSUME Inv, ValidInv, [Next]_vars
    PROVE  ValidInv'
<1>1. Valid' = Valid
  BY SameJob DEF Valid
<1>2. CASE pc = "start"
  <2>1. pc' \in {"start", "done"} \/ Valid
    BY <1>2 DEF Next, Command, Start, Precheck, Create, Grant, Check, LoadBefore, Save,
       Load, ReadScalars, ReadBin, SetQuota, Delete, ListShares, OpenApis, ReadRows,
       ReadRules, Mutate, Fail, FailEarly, FailPermissions, FailNfs, FailSetQuota,
       FailVerifyQuota, FailApis, FailRows, FailRules, Unsupported, Kill, Edit, vars,
       Goto, Stop, Early, Verifying, Calls, place
  <2> QED
    BY <1>1, <2>1 DEF ValidInv
<1>3. CASE pc = "done"
  <2>1. pc' = "done"
    BY <1>3 DEF Next, Command, Start, Precheck, Create, Grant, Check, LoadBefore, Save,
       Load, ReadScalars, ReadBin, SetQuota, Delete, ListShares, OpenApis, ReadRows,
       ReadRules, Mutate, Fail, FailEarly, FailPermissions, FailNfs, FailSetQuota,
       FailVerifyQuota, FailApis, FailRows, FailRules, Unsupported, Kill, Edit, vars,
       Early, Verifying, Calls, place
  <2> QED
    BY <2>1 DEF ValidInv
<1> QED
  BY <1>1, <1>2, <1>3 DEF ValidInv

LEMMA PartStep ==
    ASSUME Inv, WorldInv, PartInv, [Next]_vars
    PROVE  PartInv'
<1> SUFFICES ASSUME quiet', pc' \in {"readBin", "rereadBin"} PROVE part' = nas'.scalars
  BY DEF PartInv
<1> USE DEF Goto, Stop
<1>1. CASE ReadScalars
  <2>1. nas' = nas
    BY <1>1 DEF ReadScalars
  <2> QED
    BY <1>1, <2>1 DEF ReadScalars, Preflighted, Verified
<1>2. CASE ReadBin
  BY <1>2 DEF ReadBin, Preflighted, Verified
<1>3. CASE Edit \/ UNCHANGED vars
  BY <1>3 DEF Edit, vars, readings, place, ghosts, watch, PartInv
<1>4. CASE Start \/ Precheck \/ ListShares \/ OpenApis \/ ReadRules \/ ReadRows
  BY <1>4 DEF Start, Precheck, ListShares, OpenApis, ReadRules, ReadRows,
     CategoryFails, NextCategory, FirstCall, Inv, DataInv, Job, Kinds
<1>5. CASE Create \/ Grant \/ Check \/ LoadBefore \/ Save \/ Load \/ SetQuota \/ Delete
  BY <1>5 DEF Create, Grant, Check, LoadBefore, Save, Load, SetQuota, Delete, Mutate,
     AfterPermissions, NextCategory
<1>6. CASE Fail \/ Kill
  BY <1>6 DEF Fail, FailEarly, FailPermissions, FailNfs, FailSetQuota, FailVerifyQuota,
     FailApis, FailRows, FailRules, Unsupported, Kill, CategoryFails, NextCategory
<1> QED
  BY <1>1, <1>2, <1>3, <1>4, <1>5, <1>6 DEF Next, Command

LEMMA CheckedStep ==
    ASSUME Inv, WorldInv, RangeInv, CheckedInv, [Next]_vars
    PROVE  CheckedInv'
<1> SUFFICES ASSUME quiet', pc' \in {"check", "save", "load"} PROVE CheckedInv'
  BY DEF CheckedInv
<1> USE DEF Goto, Stop
<1>0. job' = job /\ AskedIds' = AskedIds /\ at \in Categories /\ job.kind \in Kinds
  BY SameJob DEF RangeInv, Inv, DataInv, Job
<1>1. CASE Create
  <2>1. AskedIds = {} \/ pc' = "grant"
    BY <1>1 DEF Create, AfterPermissions
  <2> QED
    BY <1>0, <2>1 DEF CheckedInv
<1>2. CASE Grant
  <2>1. pc' \in {"grant", "check"} /\ (pc' = "check" => at' = LocalUser)
    BY <1>2 DEF Grant, Mutate, NextCategory
  <2>2. \A i \in AskedIds : ~ Category[i] < LocalUser
    BY AskedAre DEF Categories, LocalUser, LocalGroup, LdapUser, LdapGroup
  <2> QED
    BY <1>0, <2>1, <2>2 DEF CheckedInv
<1>3. CASE Check
  <2>1. pc = "check" /\ nas' = nas /\ quiet
    BY <1>3 DEF Check, ghosts, watch
  <2>2. GrantsSeen
    BY <1>3 DEF Check
  <2>3. \A i \in AskedIds : Category[i] < at \/ Category[i] = at =>
           nas.acl[i] = job.want[i]
    BY <2>1, <2>2, GrantsAreSeen DEF CheckedInv
  <2>4. CASE at # LdapGroup
    <3>1. at' = at + 1 /\ pc' = "check"
      BY <1>3, <2>1, <2>2, <2>4 DEF Check, NextCategory
    <3>2. \A i \in AskedIds : Category[i] < at' => Category[i] < at \/ Category[i] = at
      BY <1>0, <3>1, AskedAre DEF Categories, LocalUser, LocalGroup, LdapUser, LdapGroup
    <3> QED
      BY <1>0, <2>1, <2>3, <3>1, <3>2 DEF CheckedInv
  <2>5. CASE at = LdapGroup
    <3>1. \A i \in AskedIds : Category[i] < at \/ Category[i] = at
      BY <2>5, AskedAre DEF Categories, LocalUser, LocalGroup, LdapUser, LdapGroup
    <3>2. pc' = "save"
      BY <1>3, <2>2, <2>5 DEF Check, AfterPermissions
    <3> QED
      BY <1>0, <2>1, <2>3, <3>1, <3>2 DEF CheckedInv
  <2> QED
    BY <2>4, <2>5
<1>4. CASE Save
  <2>1. /\ pc = "save" /\ pc' = "load" /\ (job.kind = "create" => quiet)
        /\ nas' = [nas EXCEPT !.nfs = RuleSet(job.rules)]
    BY <1>4 DEF Save, Mutate, Done, Unwatched, watch
  <2>2. nas'.acl = nas.acl
    BY <2>1 DEF RangeInv, Nas
  <2> QED
    BY <1>0, <2>1, <2>2 DEF CheckedInv
<1>5. CASE LoadBefore
  <2>1. job.kind = "nfs" /\ pc' \in {"save", "done"}
    BY <1>5 DEF LoadBefore, Inv, KindInv
  <2> QED
    BY <1>0, <2>1 DEF CheckedInv
<1>6. CASE Edit \/ UNCHANGED vars
  <2>1. CASE Edit
    BY <2>1 DEF Edit
  <2>2. CASE UNCHANGED vars
    BY <1>0, <2>2 DEF vars, place, ghosts, watch, CheckedInv
  <2> QED
    BY <1>6, <2>1, <2>2
<1>7. CASE Start \/ Precheck \/ ListShares \/ OpenApis \/ ReadRules \/ ReadRows
  BY <1>7, <1>0 DEF Start, Precheck, ListShares, OpenApis, ReadRules, ReadRows,
     CategoryFails, NextCategory, FirstCall, Kinds
<1>8. CASE Load \/ SetQuota \/ Delete \/ ReadScalars \/ ReadBin
  BY <1>8 DEF Load, SetQuota, Delete, ReadScalars, ReadBin, Preflighted, Verified, Mutate
<1>9. CASE Fail \/ Kill
  BY <1>9 DEF Fail, FailEarly, FailPermissions, FailNfs, FailSetQuota, FailVerifyQuota,
     FailApis, FailRows, FailRules, Unsupported, Kill, CategoryFails, NextCategory
<1> QED
  BY <1>1, <1>2, <1>3, <1>4, <1>5, <1>6, <1>7, <1>8, <1>9 DEF Next, Command

LEMMA QuietStep ==
    ASSUME Inv, QuietInv, [Next]_vars
    PROVE  QuietInv'
<1>0. job' = job
  BY SameJob
<1>1. CASE Start \/ Edit
  BY <1>1 DEF Start, Edit, QuietInv
<1>2. CASE Create \/ Grant \/ Save \/ SetQuota
  <2>1. job.kind # "list"
    BY <1>2 DEF Create, Grant, Save, SetQuota, Mutate, Inv, KindInv
  <2> QED
    BY <1>0, <2>1 DEF QuietInv
<1>3. CASE ~ (Start \/ Edit \/ Create \/ Grant \/ Save \/ SetQuota)
  <2>1. UNCHANGED watch
    BY <1>3 DEF Next, Command, Precheck, Check, LoadBefore, Load, ReadScalars, ReadBin,
       Delete, ListShares, OpenApis, ReadRows, ReadRules, Unwatched, Fail, FailEarly,
       FailPermissions, FailNfs, FailSetQuota, FailVerifyQuota, FailApis, FailRows,
       FailRules, Unsupported, Trouble, Kill, vars, ghosts
  <2> QED
    BY <1>0, <2>1 DEF QuietInv, watch
<1> QED
  BY <1>1, <1>2, <1>3

\* Live rules that match grant what was asked.
LEMMA LoadedGrants ==
    ASSUME Inv, RangeInv, ValidInv, pc \notin {"start", "done"},
           job.kind \in {"create", "nfs"}, RulesMatch(job.rules, nas.nfs)
    PROVE  GrantsAsAsked
<1>1. job.rules \in Seq(RuleSpec) /\ Accepted(job.rules)
  BY DEF Inv, DataInv, Job, RuleSpec, ValidInv, Valid
<1>2. nas.nfs \in SUBSET Rule /\ IsFiniteSet(nas.nfs)
  BY DEF RangeInv, Nas
<1> QED
  BY <1>1, <1>2, MatchGrantsExactly DEF GrantsAsAsked

\* A command that does not list, and has achieved what it should.
LEMMA SuccessWithoutListing ==
    ASSUME EmptyInv', job.kind # "list", job' = job, quiet' => Outcome'
    PROVE  SuccessIsReal'
<1>1. listed' = NothingListed /\ twice' = {}
  BY DEF EmptyInv
<1>2. Shown' = {}
  BY <1>1 DEF Shown, NothingListed
<1> QED
  BY <1>1, <1>2 DEF SuccessIsReal

CommandInv ==
    /\ Inv /\ WorldInv /\ RangeInv
    /\ PlaceInv /\ EmptyInv /\ ListInv /\ GrantsInv /\ SeenInv

LEMMA CommandStep ==
    ASSUME CommandInv, [Next]_vars
    PROVE  CommandInv'
<1>1. Inv' /\ WorldInv' /\ RangeInv'
  BY StepInv, WorldStep, RangeStep DEF CommandInv
<1>2. PlaceInv' /\ EmptyInv' /\ ListInv' /\ GrantsInv'
  BY EmptyStep, ListStep DEF CommandInv
<1>3. SeenInv'
  BY ValidStep, PartStep, CheckedStep, QuietStep DEF CommandInv, SeenInv
<1> QED
  BY <1>1, <1>2, <1>3 DEF CommandInv

LEMMA InitCommand == Init => CommandInv
<1> SUFFICES ASSUME Init PROVE CommandInv
  OBVIOUS
<1>1. Inv /\ WorldInv /\ RangeInv
  BY InitInv, InitRange
<1>2. pc = "start" /\ at = LocalUser /\ offset = 0 /\ listed = NothingListed
      /\ twice = {} /\ missing = {}
  BY DEF Init
<1> QED
  BY <1>1, <1>2 DEF CommandInv, PlaceInv, EmptyInv, ListInv, GrantsInv, SeenInv,
     ValidInv, PartInv, CheckedInv, QuietInv, Init

\* A quota that was read as it was asked for, by one call or two.
LEMMA QuotaSuccess ==
    ASSUME CommandInv, ReadScalars \/ ReadBin, pc' = "done", exit' = 0, quiet'
    PROVE  Outcome'
<1>1. /\ job' = job /\ nas' = nas /\ nas.live /\ quiet /\ job.kind = "quota"
      /\ job.scalars \in Scalars
  <2>1. job.kind = "quota" /\ job.scalars \in Scalars /\ pc \in Calls \ {"precheck", "shares", "apis"}
    BY DEF ReadScalars, ReadBin, CommandInv, Inv, DataInv, KindInv, Job, Calls, Early, Verifying
  <2>2. ~ Refused /\ pc # "create"
    BY DEF ReadScalars, ReadBin
  <2> QED
    BY <2>1, <2>2 DEF ReadScalars, ReadBin, ghosts, watch, Refused
<1>2. PICK s \in {nas.scalars, [part EXCEPT !.bin = nas.scalars.bin]} :
         /\ Preflighted(s) \/ Verified(s)
         /\ s = nas.scalars \/ part = nas.scalars
  <2>1. CASE ReadScalars
    BY <2>1 DEF ReadScalars, Goto
  <2>2. CASE ReadBin
    <3>1. part = nas.scalars
      BY <1>1, <2>2 DEF ReadBin, CommandInv, SeenInv, PartInv
    <3> QED
      BY <2>2, <3>1 DEF ReadBin
  <2> QED
    BY <2>1, <2>2
<1>3. s.quota = AskedQuota
  BY <1>2 DEF Preflighted, Verified, Stop, Goto
<1>4. s.quota = nas.scalars.quota
  BY <1>2 DEF CommandInv, RangeInv, Nas, Scalars
<1> QED
  BY <1>1, <1>3, <1>4 DEF Outcome, AskedQuota

\* A folder that was made is there.
LEMMA CreatedLives ==
    ASSUME nas \in Nas
    PROVE  \A n \in Created : n.live
<1> DEFINE fresh == {[i \in Ids |-> IF i \in nas.accounts THEN f[i] ELSE "none"] :
                        f \in FreshAcls}
           quotas == IF job.scalars.volume \notin CanonicalVolume THEN {Unavailable}
                     ELSE IF job.scalars.quota = Unavailable THEN {0}
                     ELSE {0, AskedQuota}
           new(a, q, d) == [nas EXCEPT !.live = TRUE, !.acl = a, !.nfs = {},
                               !.scalars = [job.scalars EXCEPT !.quota = q, !.desc = d]]
<1>1. Created = {new(a, q, d) : a \in fresh, q \in quotas, d \in Descs}
  BY DEF Created
<1>2. \A a, q, d : new(a, q, d).live = TRUE
  BY DEF Nas
<1> HIDE DEF fresh, quotas, new
<1> QED
  BY <1>1, <1>2

\* create-share: what the last step finds.
LEMMA CreateSuccess ==
    ASSUME CommandInv, Create \/ Check, pc' = "done", exit' = 0, quiet'
    PROVE  Outcome'
<1> USE DEF Goto, Stop
<1>1. job.kind = "create" /\ job' = job /\ AskedIds' = AskedIds
      /\ at \in Categories
  BY DEF Create, Check, Mutate, CommandInv, Inv, KindInv, RangeInv, AskedIds, AclRequest
<1>2. CASE Create
  <2>1. AskedIds = {} /\ job.rules = <<>>
    BY <1>2 DEF Create, AfterPermissions
  <2>2. nas'.live
    <3>1. pc = "create" /\ nas' \in Created
      BY <1>2 DEF Create, Mutate, Done
    <3> QED
      BY <3>1, CreatedLives DEF CommandInv, RangeInv
  <2> QED
    BY <1>1, <2>1, <2>2 DEF Outcome
<1>3. CASE Check
  <2>1. pc = "check" /\ nas' = nas /\ quiet /\ nas.live
    BY <1>3 DEF Check, ghosts, watch, Refused, Calls
  <2>2. GrantsSeen /\ at = LdapGroup /\ job.rules = <<>>
    BY <1>3, <2>1 DEF Check, AfterPermissions, NextCategory
  <2>3. \A i \in AskedIds : Category[i] < at \/ Category[i] = at
    BY <2>2, AskedAre DEF Categories, LocalUser, LocalGroup, LdapUser, LdapGroup
  <2>4. \A i \in AskedIds : nas.acl[i] = job.want[i]
    BY <2>1, <2>2, <2>3, GrantsAreSeen DEF CommandInv, SeenInv, CheckedInv
  <2> QED
    BY <1>1, <2>1, <2>2, <2>4 DEF Outcome
<1> QED
  BY <1>2, <1>3

\* create-share and modify-share: rules that were read back.
LEMMA NfsSuccess ==
    ASSUME CommandInv, LoadBefore \/ Load, pc' = "done", exit' = 0, quiet'
    PROVE  Outcome'
<1> USE DEF Goto, Stop
<1>1. /\ job.kind \in {"create", "nfs"} /\ job' = job /\ nas' = nas /\ quiet
      /\ pc \in {"before", "load"} /\ (pc = "before" => job.kind = "nfs") /\ nas.live
      /\ AskedIds' = AskedIds
  BY DEF LoadBefore, Load, CommandInv, Inv, KindInv, ghosts, watch, Refused, Calls, Early,
         AskedIds, AclRequest
<1>2. RulesMatch(job.rules, nas.nfs)
  BY DEF LoadBefore, Load
<1>3. GrantsAsAsked
  BY <1>1, <1>2, LoadedGrants DEF CommandInv, SeenInv
<1>4. GrantsAsAsked'
  BY <1>1, <1>3 DEF GrantsAsAsked
<1>5. job.kind = "create" => \A i \in AskedIds : nas.acl[i] = job.want[i]
  BY <1>1 DEF CommandInv, SeenInv, CheckedInv
<1> QED
  BY <1>1, <1>4, <1>5 DEF Outcome

\* list-shares: what is shown at the end.
LEMMA ListSuccess ==
    ASSUME CommandInv, ListShares \/ ReadRules, pc' = "done", exit' = 0
    PROVE  SuccessIsReal'
<1> USE DEF Goto, Stop
<1>1. /\ job.kind = "list" /\ job' = job
      /\ UNCHANGED <<nas, listed, twice, missing, quiet, steady>>
  BY DEF ListShares, ReadRules, CommandInv, Inv, KindInv, readings, ghosts, watch
<1>2. CASE ListShares
  <2>1. pc = "shares" /\ ~ nas.live
    BY <1>2 DEF ListShares
  <2>2. listed = NothingListed /\ twice = {}
    BY <2>1 DEF CommandInv, EmptyInv
  <2>3. Shown' = {} /\ twice' = {}
    BY <1>1, <2>2 DEF Shown, NothingListed
  <2> QED
    BY <1>1, <2>1, <2>3 DEF SuccessIsReal, Outcome
<1>3. CASE ReadRules
  <2>1. pc = "rules" /\ missing = {}
    BY <1>3 DEF ReadRules
  <2>2. nas.accounts \subseteq Ids
    BY DEF CommandInv, RangeInv, Nas
  <2>3. steady => twice = {} /\ \A i \in Ids : listed[i] # Unlisted <=> i \in nas.accounts
    BY <2>1 DEF CommandInv, ListInv, Behind
  <2>4. steady' => twice' = {} /\ Shown' = nas'.accounts
    BY <1>1, <2>2, <2>3 DEF Shown
  <2>5. quiet => steady
    BY <1>1 DEF CommandInv, SeenInv, QuietInv
  <2>6. quiet' => Outcome'
    BY <1>1, <2>1, <2>2, <2>3, <2>5 DEF Outcome, CommandInv, GrantsInv
  <2> QED
    BY <2>4, <2>6 DEF SuccessIsReal
<1> QED
  BY <1>2, <1>3

\* Of the steps only these end with 0.
LEMMA OthersDoNotSucceed ==
    ASSUME Inv, [Next]_vars, pc # "done", pc' = "done", exit' = 0
    PROVE  \/ Create \/ Check \/ LoadBefore \/ Load \/ ReadScalars \/ ReadBin
           \/ Delete \/ ListShares \/ ReadRules
<1> USE DEF Goto, Stop
<1>1. CASE Start \/ Precheck \/ OpenApis
  BY <1>1 DEF Start, Precheck, OpenApis, FirstCall, Inv, DataInv, Job, Kinds, GoingInv, Running
<1>2. CASE Grant \/ Save \/ SetQuota
  BY <1>2 DEF Grant, Save, SetQuota, Mutate, NextCategory
<1>3. CASE ReadRows
  <2>1. exit' = exit
    BY <1>3 DEF ReadRows
  <2> QED
    BY <2>1 DEF Inv, GoingInv, Running
<1>4. CASE Fail
  <2>1. \A how \in Hows : Mapped(how) # 0
    BY DEF Hows, Mapped
  <2>2. exit = Running
    BY DEF Inv, GoingInv
  <2> QED
    BY <1>4, <2>1, <2>2 DEF Fail, FailEarly, FailPermissions, FailNfs, FailSetQuota,
       FailVerifyQuota, FailApis, FailRows, FailRules, Unsupported, Running
<1>5. CASE Kill
  BY <1>5 DEF Kill, Killed
<1>6. CASE Edit \/ UNCHANGED vars
  BY <1>6 DEF Edit, vars, place
<1> QED
  BY <1>1, <1>2, <1>3, <1>4, <1>5, <1>6 DEF Next, Command

LEMMA SuccessStep ==
    ASSUME CommandInv, SuccessIsReal, [Next]_vars
    PROVE  SuccessIsReal'
<1> SUFFICES ASSUME pc' = "done", exit' = 0 PROVE SuccessIsReal'
  BY DEF SuccessIsReal
<1>0. Inv /\ job' = job /\ EmptyInv'
  BY SameJob, CommandStep DEF CommandInv
<1>1. CASE pc = "done"
  <2>1. UNCHANGED vars
    BY <1>1 DEF Next, Command, Start, Precheck, Create, Grant, Check, LoadBefore, Save,
       Load, ReadScalars, ReadBin, SetQuota, Delete, ListShares, OpenApis, ReadRows,
       ReadRules, Mutate, Fail, FailEarly, FailPermissions, FailNfs, FailSetQuota,
       FailVerifyQuota, FailApis, FailRows, FailRules, Unsupported, Kill, Edit,
       Early, Verifying, Calls
  <2> QED
    BY <2>1 DEF vars, place, readings, result, ghosts, watch, SuccessIsReal, Shown,
       Outcome, GrantsAsAsked, AskedIds, AclRequest, AskedQuota
<1>2. CASE pc # "done"
  <2>1. CASE Create \/ Check
    <3>1. job.kind # "list"
      BY <1>0, <2>1 DEF Create, Check, Mutate, Inv, KindInv
    <3> QED
      BY <1>0, <2>1, <3>1, CreateSuccess, SuccessWithoutListing
  <2>2. CASE LoadBefore \/ Load
    <3>1. job.kind # "list"
      BY <1>0, <2>2 DEF LoadBefore, Load, Inv, KindInv
    <3> QED
      BY <1>0, <2>2, <3>1, NfsSuccess, SuccessWithoutListing
  <2>3. CASE ReadScalars \/ ReadBin
    <3>1. job.kind # "list"
      BY <1>0, <2>3 DEF ReadScalars, ReadBin, Inv, KindInv, Verifying
    <3> QED
      BY <1>0, <2>3, <3>1, QuotaSuccess, SuccessWithoutListing
  <2>4. CASE Delete
    <3>1. job.kind = "delete" /\ nas' = [nas EXCEPT !.live = FALSE]
      BY <1>0, <2>4 DEF Delete, Mutate, Done, Inv, KindInv
    <3>2. ~ nas'.live
      BY <3>1 DEF CommandInv, RangeInv, Nas
    <3>3. Outcome'
      BY <1>0, <3>1, <3>2 DEF Outcome
    <3> QED
      BY <1>0, <3>1, <3>3, SuccessWithoutListing
  <2>5. CASE ListShares \/ ReadRules
    BY <2>5, ListSuccess
  <2> QED
    BY <1>0, <1>2, <2>1, <2>2, <2>3, <2>4, <2>5, OthersDoNotSucceed
<1> QED
  BY <1>1, <1>2

\* Exit code 0 means what it says: the grants, the rules and the quota asked
\* for are there, the folder is gone, the listing shows every grant there is,
\* if nobody has edited the folder since the last reading began; and a listing
\* shows everybody once if nobody came or went meanwhile, whatever the sizes
\* of the pages and the categories.
THEOREM ShareSuccessIsReal == Spec => []SuccessIsReal
<1>1. Init => CommandInv /\ SuccessIsReal
  BY InitCommand DEF Init, SuccessIsReal
<1>2. CommandInv /\ SuccessIsReal /\ [Next]_vars => (CommandInv /\ SuccessIsReal)'
  BY CommandStep, SuccessStep
<1> QED
  BY <1>1, <1>2, PTL DEF Spec

----------------------------------------------------------------------------
(* A command nobody disturbs and whose calls are answered.                 *)

Alone == calm /\ faults = 0 /\ pc \notin {"start", "done"}

\* The folder stays, what was set so far is in place, and a listing misses
\* nothing.
AloneInv ==
    /\ calm => quiet /\ steady
    /\ Alone =>
          /\ missing = {}
          /\ pc \notin {"precheck", "before", "read", "create", "delete", "shares"} =>
                nas.live
          /\ pc = "grant" => \A i \in AskedIds \cap nas.accounts :
                                Category[i] < at => nas.acl[i] = job.want[i]
          /\ pc = "check" => \A i \in AskedIds \cap nas.accounts :
                                nas.acl[i] = job.want[i]
          /\ pc = "load" => nas.nfs = RuleSet(job.rules)
          /\ pc \in Verifying => nas.scalars = [before EXCEPT !.quota = AskedQuota]

\* The rules that were set load, and match those asked for.
LEMMA SetRulesMatch ==
    ASSUME NEW specs \in Seq(RuleSpec), Accepted(specs)
    PROVE  Loadable(RuleSet(specs)) /\ RulesMatch(specs, RuleSet(specs))
<1>1. \A i \in DOMAIN specs : specs[i] \in RuleSpec
  OBVIOUS
<1>2. ASSUME NEW i \in DOMAIN specs
      PROVE  /\ AsRule(specs[i]).client = Canonical(specs[i].client)
             /\ AsRule(specs[i]).flavor = "sys"
             /\ specs[i].client \in NfsClient
  BY <1>1, ClientAssumption DEF AsRule, RuleSpec
<1>3. \A c \in NfsClient :
         /\ Canonical(c).form = c.form /\ Canonical(c).version = c.version
         /\ Canonical(c).bits = c.bits /\ Canonical(c).prefix = c.prefix
         /\ Canonical(Canonical(c)) = Canonical(c)
  BY DEF NfsClient, Canonical
<1>4. ASSUME NEW c \in NfsClient, ValidClient(c) PROVE ValidClient(Canonical(c))
  <2>1. /\ Canonical(c).form = c.form /\ Canonical(c).version = c.version
        /\ Canonical(c).bits = c.bits /\ Canonical(c).prefix = c.prefix
    BY <1>3
  <2>2. c.form = "network" => c.bits % (2 ^ (Width[c.version] - c.prefix)) = 0
    BY <1>4 DEF ValidClient
  <2>3. Canonical(c).form = "network" =>
           Canonical(c).bits % (2 ^ (Width[Canonical(c).version] - Canonical(c).prefix)) = 0
    BY <2>1, <2>2, Zenon
  <2> QED
    BY <1>4, <2>1, <2>3 DEF ValidClient
<1>5. ASSUME NEW i \in DOMAIN specs
      PROVE  AsText(AsRule(specs[i])) = AsRule(specs[i])
  <2> DEFINE r == AsRule(specs[i])
  <2>1. r = [client |-> Canonical(specs[i].client), flags |-> specs[i].flags,
             flavor |-> "sys", copy |-> 0]
    BY DEF AsRule
  <2>2. Canonical(r.client) = r.client
    BY <1>2, <1>3, <2>1
  <2>3. AsText(r) = [client |-> Canonical(r.client), flags |-> r.flags,
                     flavor |-> r.flavor, copy |-> 0]
    BY <2>1 DEF AsText
  <2> QED
    BY <2>1, <2>2, <2>3
<1>6. RuleSet(specs) = {AsText(r) : r \in RuleSet(specs)}
  BY <1>5 DEF RuleSet
<1>7. Loadable(RuleSet(specs))
  <2> SUFFICES ASSUME NEW r \in RuleSet(specs)
               PROVE  ValidClient(r.client) /\ r.flavor = "sys"
    BY DEF Loadable
  <2>1. PICK i \in DOMAIN specs : r = AsRule(specs[i])
    BY DEF RuleSet
  <2>2. ValidClient(specs[i].client)
    BY DEF Accepted
  <2> QED
    BY <1>2, <1>4, <2>1, <2>2
<1> QED
  BY <1>6, <1>7, RulesCounted DEF RulesMatch

\* A call that fails although nothing was wrong spends the budget of faults.
LEMMA TroubleAlone ==
    ASSUME RangeInv, NEW how, Trouble(how), faults' = 0
    PROVE  Refused /\ how = "api" /\ nas' = nas /\ faults = 0 /\ UNCHANGED watch
  BY BoundsAssumption DEF RangeInv, Trouble

\* A page never reaches beyond the listing while no account comes or goes.
LEMMA NothingMissed ==
    ASSUME CommandInv, steady, ReadRows
    PROVE  missing' = missing
<1> DEFINE page == Page(Rank, Rows(at), offset)
           count == Cardinality(Rows(at))
<1>1. pc = "rows" /\ Rows(at) = {i \in nas.accounts : Category[i] = at}
  BY DEF ReadRows, Rows
<1>2. offset \in Nat /\ count \in Nat /\ offset <= count
  BY <1>1, PageFits, RowsFinite DEF CommandInv, ListInv
<1>3. Rows(at) \in SUBSET Ids /\ IsFiniteSet(Rows(at))
  BY RowsFinite DEF CommandInv
<1>4. offset + Cardinality(page) <= count
  BY <1>2, <1>3, RankAssumption, PageExtends
<1>5. ~ Onward(page) > count
  BY <1>2, <1>4, PageFits DEF CommandInv, Onward
<1> HIDE DEF page, count
<1> QED
  BY <1>1, <1>5 DEF ReadRows, page, count

LEMMA AloneStep ==
    ASSUME CommandInv, AloneInv, [Next]_vars
    PROVE  AloneInv'
<1> USE DEF Goto, Stop
<1>1. (calm => quiet /\ steady)'
  <2>1. calm => quiet /\ steady
    BY DEF AloneInv
  <2>2. CASE Start \/ Edit
    BY <2>2 DEF Start, Edit
  <2>3. CASE Create \/ Grant \/ Save \/ SetQuota
    BY <2>1, <2>3 DEF Create, Grant, Save, SetQuota, Watch, Unwatched, watch
  <2>4. CASE ~ (Start \/ Edit \/ Create \/ Grant \/ Save \/ SetQuota)
    <3>1. UNCHANGED watch
      BY <2>4 DEF Next, Command, Precheck, Check, LoadBefore, Load, ReadScalars, ReadBin,
         Delete, ListShares, OpenApis, ReadRows, ReadRules, Unwatched, Fail, FailEarly,
         FailPermissions, FailNfs, FailSetQuota, FailVerifyQuota, FailApis, FailRows,
         FailRules, Unsupported, Trouble, Kill, vars, ghosts
    <3> QED
      BY <2>1, <3>1 DEF watch
  <2> QED
    BY <2>2, <2>3, <2>4
<1> SUFFICES ASSUME Alone' PROVE AloneInv'
  BY <1>1 DEF AloneInv
<1>2. calm' /\ faults' = 0 /\ pc' \notin {"start", "done"}
  BY DEF Alone
<1>3. /\ Inv /\ RangeInv /\ nas \in Nas /\ at \in Categories /\ job.kind \in Kinds
      /\ job' = job /\ AskedIds' = AskedIds /\ AskedQuota' = AskedQuota
  BY SameJob DEF CommandInv, RangeInv, Inv, DataInv, Job, AskedQuota
<1>4. CASE Start
  <2>1. pc = "start" /\ pc' \in {"create", "precheck", "read", "delete", "shares"}
        /\ missing' = missing
    BY <1>2, <1>3, <1>4 DEF Start, FirstCall, Kinds
  <2>2. missing = {}
    BY <2>1 DEF CommandInv, EmptyInv
  <2> QED
    BY <1>1, <2>1, <2>2 DEF AloneInv, Verifying
<1>5. CASE Precheck \/ ListShares \/ OpenApis
  <2>1. Alone /\ nas' = nas /\ missing' = missing
    BY <1>2, <1>5 DEF Precheck, ListShares, OpenApis, ghosts, watch, Answered, Alone
  <2>2. /\ pc' \in {"create", "before", "apis", "rows"}
        /\ pc' \in {"apis", "rows"} => nas.live
    BY <1>2, <1>5, <2>1 DEF Precheck, ListShares, OpenApis, AloneInv
  <2> QED
    BY <1>1, <2>1, <2>2 DEF AloneInv, Verifying
<1>6. CASE Create
  <2>1. Alone /\ missing' = missing /\ pc = "create" /\ nas' \in Created
        /\ pc' \in {"grant", "save"} /\ at' = at
    BY <1>2, <1>6 DEF Create, Mutate, Done, Answered, Alone, Watch, AfterPermissions
  <2>2. nas'.live
    BY <1>3, <2>1, CreatedLives
  <2>3. at = LocalUser
    BY <2>1 DEF CommandInv, PlaceInv
  <2>4. \A i \in AskedIds : ~ Category[i] < LocalUser
    BY AskedAre DEF Categories, LocalUser, LocalGroup, LdapUser, LdapGroup
  <2> QED
    BY <1>1, <1>3, <2>1, <2>2, <2>3, <2>4 DEF AloneInv, Verifying
<1>7. CASE Grant
  <2>1. /\ Alone /\ missing' = missing /\ pc = "grant" /\ nas' = Granted(AskedOf(at))
        /\ pc' \in {"grant", "check"} /\ NextCategory("check")
    BY <1>2, <1>7, NextCategoryIs, <1>3 DEF Grant, Mutate, Done, Answered, Alone, Watch
  <2>2. /\ nas'.live = nas.live /\ nas'.accounts = nas.accounts
        /\ nas'.acl = Patched(AclRequest, nas.acl, AskedOf(at) \cap nas.accounts)
    BY <1>3, <2>1 DEF Granted, Nas
  <2>3. \A i \in AskedIds \cap nas.accounts :
           /\ Category[i] = at => nas'.acl[i] = job.want[i]
           /\ Category[i] # at => nas'.acl[i] = nas.acl[i]
    BY <2>2, AskedAre DEF Patched, AclRequest, AskedOf
  <2>4. \A i \in AskedIds \cap nas.accounts :
           Category[i] < at \/ Category[i] = at => nas'.acl[i] = job.want[i]
    <3> TAKE i \in AskedIds \cap nas.accounts
    <3>1. Category[i] < at => nas.acl[i] = job.want[i]
      BY <2>1 DEF AloneInv
    <3> QED
      BY <2>3, <3>1
  <2>5. pc' = "grant" => at # LdapGroup
    BY <1>3, <2>1, NextCategoryIs
  <2>6. pc' = "check" => at = LdapGroup
    BY <1>3, <2>1, NextCategoryIs
  <2>7. \A i \in AskedIds : at # LdapGroup /\ Category[i] < at' =>
                               Category[i] < at \/ Category[i] = at
    BY <1>3, <2>1, AskedAre, NextCategoryIs
  <2>8. \A i \in AskedIds : at = LdapGroup => Category[i] < at \/ Category[i] = at
    BY AskedAre DEF Categories, LocalUser, LocalGroup, LdapUser, LdapGroup
  <2>9. nas.live /\ missing = {}
    BY <2>1 DEF AloneInv
  <2> QED
    BY <1>1, <1>3, <2>1, <2>2, <2>4, <2>5, <2>6, <2>7, <2>8, <2>9 DEF AloneInv, Verifying
<1>8. CASE Check \/ LoadBefore
  <2>1. /\ Alone /\ missing' = missing /\ nas' = nas /\ nas.live
        /\ pc \in {"check", "before"} /\ pc' \in {"check", "save"}
        /\ pc = "before" => pc' = "save"
    BY <1>2, <1>3, <1>8, NextCategoryIs DEF Check, LoadBefore, ghosts, watch, Answered,
       Alone, Refused, Calls, Early, AfterPermissions
  <2> QED
    BY <1>1, <1>3, <2>1 DEF AloneInv, Verifying
<1>9. CASE Save
  <2>1. /\ Alone /\ missing' = missing /\ pc = "save" /\ pc' = "load"
        /\ nas' = [nas EXCEPT !.nfs = RuleSet(job.rules)]
    BY <1>2, <1>9 DEF Save, Mutate, Done, Answered, Alone, Watch, Unwatched, watch
  <2>2. nas'.live = nas.live /\ nas'.nfs = RuleSet(job.rules)
    BY <1>3, <2>1 DEF Nas
  <2>3. RuleSet(job.rules)' = RuleSet(job.rules)
    BY <1>3
  <2> QED
    BY <1>1, <1>3, <2>1, <2>2, <2>3 DEF AloneInv, Verifying
<1>10. CASE SetQuota
  <2>1. /\ Alone /\ missing' = missing /\ pc = "set" /\ pc' = "reread"
        /\ before' = before
        /\ nas' = [nas EXCEPT !.scalars = [before EXCEPT !.quota = AskedQuota]]
    BY <1>2, <1>10 DEF SetQuota, Mutate, Done, ScalarsSet, Answered, Alone, Watch, readings
  <2>2. nas'.live = nas.live /\ nas'.scalars = [before EXCEPT !.quota = AskedQuota]
    BY <1>3, <2>1 DEF Nas
  <2> QED
    BY <1>1, <1>3, <2>1, <2>2 DEF AloneInv, Verifying
<1>11. CASE ReadScalars \/ ReadBin
  <2>1. /\ Alone /\ missing' = missing /\ nas' = nas /\ nas.live
        /\ pc \in {"read", "readBin", "reread", "rereadBin"}
        /\ pc' \in {"readBin", "rereadBin", "set"}
        /\ pc' = "rereadBin" => pc = "reread" /\ before' = before
    BY <1>2, <1>3, <1>11 DEF ReadScalars, ReadBin, Preflighted, Verified, ghosts, watch,
       Answered, Alone, Refused, Calls, Early, Verifying
  <2> QED
    BY <1>1, <1>3, <2>1 DEF AloneInv, Verifying
<1>12. CASE ReadRows
  <2>1. /\ Alone /\ nas' = nas /\ pc = "rows" /\ steady
    BY <1>2, <1>12 DEF ReadRows, ghosts, watch, Answered, Alone, AloneInv
  <2>2. missing' = missing
    BY <1>12, <2>1, NothingMissed
  <2>3. pc' \in {"rows", "rules"}
    BY <1>12, <2>1 DEF ReadRows, CategoryFails, NextCategory
  <2> QED
    BY <1>1, <2>1, <2>2, <2>3 DEF AloneInv, Verifying
<1>13. CASE Load \/ Delete \/ ReadRules
  BY <1>2, <1>13 DEF Load, Delete, ReadRules
<1>14. CASE Fail
  <2>1. ~ Unsupported
    BY <1>2 DEF Unsupported
  <2>2. PICK how \in Hows : FailRows(how)
    BY <1>2, <1>14, <2>1 DEF Fail, FailEarly, FailPermissions, FailNfs, FailSetQuota,
       FailVerifyQuota, FailApis, FailRules
  <2>3. pc = "rows" /\ Trouble(how)
    BY <2>2 DEF FailRows
  <2>4. Refused /\ faults = 0 /\ calm
    BY <1>2, <1>3, <2>3, TroubleAlone DEF watch
  <2>5. nas.live
    BY <2>3, <2>4 DEF AloneInv, Alone
  <2> QED
    BY <2>3, <2>4, <2>5 DEF Refused
<1>15. CASE Kill \/ Edit
  BY <1>2, <1>15 DEF Kill, Edit
<1>16. CASE UNCHANGED vars
  <2>1. Alone
    BY <1>2, <1>16 DEF vars, place, ghosts, watch, Alone
  <2> QED
    BY <1>1, <1>3, <1>16, <2>1 DEF vars, place, readings, result, ghosts, watch, AloneInv
<1> QED
  BY <1>4, <1>5, <1>6, <1>7, <1>8, <1>9, <1>10, <1>11, <1>12, <1>13, <1>14, <1>15, <1>16
     DEF Next, Command

\* Why a command that is alone ends otherwise.
LEMMA RefusedAlone ==
    ASSUME CommandInv, AloneInv, Fail, calm', faults' = 0, pc' = "done", exit' \notin {0, 11}
    PROVE  /\ nas' = nas /\ exit' = 40
           /\ \/ job.kind = "create" /\ nas.live
              \/ job.kind # "create" /\ ~ nas.live
<1> USE DEF Stop
<1>0. Inv /\ RangeInv
  BY DEF CommandInv
<1>1. ~ Unsupported
  BY <1>0 DEF Unsupported, RangeInv
<1>2. PICK how \in Hows :
         \/ FailEarly(how) \/ FailPermissions(how) \/ FailNfs(how)
         \/ FailSetQuota(how) \/ FailVerifyQuota(how)
         \/ FailApis(how) \/ FailRows(how) \/ FailRules(how)
  BY <1>1 DEF Fail
<1>3. Trouble(how)
  BY <1>2 DEF FailEarly, FailPermissions, FailNfs, FailSetQuota, FailVerifyQuota,
     FailApis, FailRows, FailRules
<1>4. Refused /\ how = "api" /\ nas' = nas /\ faults = 0 /\ calm
  BY <1>0, <1>3, TroubleAlone DEF watch
<1>5. CASE FailEarly(how)
  <2>1. exit' = 40 /\ pc \in Early
    BY <1>4, <1>5 DEF FailEarly, Mapped
  <2>2. CASE pc = "create"
    BY <1>0, <1>4, <2>1, <2>2 DEF Refused, Inv, KindInv
  <2>3. CASE pc # "create"
    <3>1. ~ nas.live /\ pc \in {"before", "read", "readBin", "delete"}
      BY <1>4, <2>1, <2>3 DEF Refused, Early
    <3>2. job.kind # "create"
      BY <1>0, <3>1 DEF Inv, KindInv
    <3> QED
      BY <1>4, <2>1, <3>1, <3>2
  <2> QED
    BY <2>2, <2>3
<1>6. CASE ~ FailEarly(how)
  <2>1. pc \in {"grant", "check", "save", "load", "set", "apis", "rows", "rules"} \cup Verifying
    BY <1>2, <1>6 DEF FailPermissions, FailNfs, FailSetQuota, FailVerifyQuota,
       FailApis, FailRows, FailRules
  <2>2. nas.live
    BY <1>4, <2>1 DEF AloneInv, Alone, Verifying
  <2> QED
    BY <1>4, <2>1, <2>2 DEF Refused, Verifying
<1> QED
  BY <1>5, <1>6

\* create-share, whose permissions are not seen: one of them is not on the
\* first page.
LEMMA UnseenGrant ==
    ASSUME CommandInv, AloneInv, calm, faults = 0, pc = "check", ~ GrantsSeen
    PROVE  \E i \in AskedIds : ~ FirstPage(i)
<1>1. PICK i \in AskedOf(at) :
         i \notin {j \in Page(Rank, {j \in nas.accounts : Category[j] = at}, 0) :
                     nas.acl[j] = job.want[j]}
  BY DEF GrantsSeen
<1>2. i \in AskedIds /\ Category[i] = at
  BY DEF AskedOf
<1>3. SUFFICES ASSUME FirstPage(i) PROVE FALSE
  BY <1>2
<1>4. i \in Page(Rank, {j \in nas.accounts : Category[j] = at}, 0)
  BY <1>2, <1>3 DEF FirstPage
<1>5. i \in nas.accounts
  BY <1>4 DEF Page
<1>6. nas.acl[i] = job.want[i]
  BY <1>2, <1>5 DEF AloneInv, Alone
<1> QED
  BY <1>1, <1>4, <1>6

\* What was read by two calls is what there is.
LEMMA ReadingAlone ==
    ASSUME CommandInv, AloneInv, calm, faults = 0, ReadScalars \/ ReadBin, pc' = "done"
    PROVE  \/ Preflighted(nas.scalars) /\ pc \in {"read", "readBin"}
           \/ Verified(nas.scalars) /\ pc \in Verifying
<1>1. CASE ReadScalars
  BY <1>1 DEF ReadScalars, Goto, Verifying
<1>2. CASE ReadBin
  <2>1. part = nas.scalars /\ part \in Scalars
    BY <1>2 DEF ReadBin, AloneInv, CommandInv, SeenInv, PartInv, WorldInv
  <2>2. [part EXCEPT !.bin = nas.scalars.bin] = nas.scalars
    BY <2>1 DEF Scalars
  <2> QED
    BY <1>2, <2>2 DEF ReadBin, Verifying
<1> QED
  BY <1>1, <1>2

\* A quota that was set is found.
LEMMA QuotaFound ==
    ASSUME CommandInv, AloneInv, calm, faults = 0, pc \in Verifying,
           Verified(nas.scalars)
    PROVE  exit' = 0
<1>1. nas.scalars = [before EXCEPT !.quota = AskedQuota] /\ before \in Scalars
  BY DEF AloneInv, Alone, Verifying, CommandInv, WorldInv
<1>2. nas.scalars.quota = AskedQuota /\ Preserved(nas.scalars)
  BY <1>1 DEF Scalars, Preserved
<1> QED
  BY <1>2 DEF Verified, Stop

LEMMA CalmStep ==
    ASSUME CommandInv, AloneInv, CalmRunsSucceed, [Next]_vars
    PROVE  CalmRunsSucceed'
<1> USE DEF Goto, Stop
<1> SUFFICES ASSUME pc' = "done", calm', faults' = 0, exit' \notin {0, 11}
             PROVE  CalmRunsSucceed'
  BY DEF CalmRunsSucceed
<1>0. /\ Inv /\ RangeInv /\ job.kind \in Kinds
      /\ job' = job /\ AskedIds' = AskedIds /\ Valid' = Valid
      /\ \A i : nas' = nas => FirstPage(i)' = FirstPage(i)
  BY SameJob DEF CommandInv, Inv, DataInv, Job, Valid, FirstPage
<1>1. CASE pc = "done"
  <2>1. UNCHANGED vars
    BY <1>1 DEF Next, Command, Start, Precheck, Create, Grant, Check, LoadBefore, Save,
       Load, ReadScalars, ReadBin, SetQuota, Delete, ListShares, OpenApis, ReadRows,
       ReadRules, Mutate, Fail, FailEarly, FailPermissions, FailNfs, FailSetQuota,
       FailVerifyQuota, FailApis, FailRows, FailRules, Unsupported, Kill, Edit,
       Early, Verifying, Calls
  <2> QED
    BY <1>0, <1>1, <2>1 DEF vars, place, result, ghosts, watch, CalmRunsSucceed
<1>2. CASE Start
  BY <1>0, <1>2 DEF Start, FirstCall, Kinds, CalmRunsSucceed
<1>3. CASE Precheck
  BY <1>0, <1>3 DEF Precheck, CalmRunsSucceed
<1>4. CASE Create \/ Grant \/ Save \/ SetQuota \/ Delete
  BY <1>4 DEF Create, Grant, Save, SetQuota, Delete, Mutate, NextCategory, AfterPermissions
<1>5. CASE Check
  <2>1. pc = "check" /\ nas' = nas /\ calm /\ faults = 0
    BY <1>5 DEF Check, ghosts, watch, Answered
  <2>2. ~ GrantsSeen /\ exit' = 60
    BY <1>5, <2>1 DEF Check, NextCategory, AfterPermissions
  <2>3. job.kind = "create" /\ \E i \in AskedIds : ~ FirstPage(i)
    BY <1>0, <2>1, <2>2, UnseenGrant DEF Inv, KindInv
  <2> QED
    BY <1>0, <2>1, <2>2, <2>3 DEF CalmRunsSucceed
<1>6. CASE LoadBefore
  <2>1. job.kind = "nfs" /\ nas' = nas /\ ~ Loadable(nas.nfs) /\ exit' = 40
    BY <1>0, <1>6 DEF LoadBefore, Inv, KindInv
  <2> QED
    BY <1>0, <2>1 DEF CalmRunsSucceed
<1>7. CASE Load
  <2>1. pc = "load" /\ calm /\ faults = 0 /\ job.kind \in {"create", "nfs"}
    BY <1>0, <1>7 DEF Load, ghosts, watch, Answered, Inv, KindInv
  <2>2. nas.nfs = RuleSet(job.rules)
    BY <2>1 DEF AloneInv, Alone
  <2>3. job.rules \in Seq(RuleSpec) /\ Accepted(job.rules)
    BY <1>0, <2>1 DEF CommandInv, SeenInv, ValidInv, Valid, Inv, DataInv, Job, RuleSpec
  <2> QED
    BY <1>7, <2>2, <2>3, SetRulesMatch DEF Load
<1>8. CASE ReadScalars \/ ReadBin
  <2>1. nas' = nas /\ calm /\ faults = 0 /\ job.kind = "quota"
    BY <1>0, <1>8 DEF ReadScalars, ReadBin, ghosts, watch, Answered, Inv, KindInv, Verifying
  <2>2. CASE Preflighted(nas.scalars)
    <3>1. exit' = 40 /\ nas.scalars.quota = Unavailable
      BY <2>2 DEF Preflighted
    <3> QED
      BY <1>0, <2>1, <3>1 DEF CalmRunsSucceed
  <2> QED
    BY <1>8, <2>1, <2>2, ReadingAlone, QuotaFound
<1>9. CASE ListShares \/ OpenApis
  BY <1>9 DEF ListShares, OpenApis
<1>10. CASE ReadRows
  BY <1>10 DEF ReadRows, CategoryFails, NextCategory
<1>11. CASE ReadRules
  <2>1. pc = "rules" /\ calm /\ faults = 0 /\ missing # {}
    BY <1>11 DEF ReadRules, ghosts, watch, Answered
  <2> QED
    BY <2>1 DEF AloneInv, Alone
<1>12. CASE Fail
  <2>1. /\ nas' = nas /\ exit' = 40
        /\ \/ job.kind = "create" /\ nas.live
           \/ job.kind # "create" /\ ~ nas.live
    BY <1>12, RefusedAlone
  <2> QED
    BY <1>0, <2>1 DEF CalmRunsSucceed
<1>13. CASE Kill \/ Edit
  BY <1>0, <1>13 DEF Kill, Edit, RangeInv
<1>14. CASE UNCHANGED vars /\ pc # "done"
  BY <1>14 DEF vars, place
<1> QED
  BY <1>1, <1>2, <1>3, <1>4, <1>5, <1>6, <1>7, <1>8, <1>9, <1>10, <1>11, <1>12, <1>13,
     <1>14 DEF Next, Command

\* A command that nobody disturbs and whose calls are answered fails only for
\* a reason in the request or in the folder as it was found: what it set it
\* finds again, but for grants beyond the first page.
THEOREM ShareCalmRunsSucceed == Spec => []CalmRunsSucceed
<1>1. Init => CommandInv /\ AloneInv /\ CalmRunsSucceed
  BY InitCommand DEF Init, AloneInv, Alone, CalmRunsSucceed
<1>2. CommandInv /\ AloneInv /\ CalmRunsSucceed /\ [Next]_vars
         => (CommandInv /\ AloneInv /\ CalmRunsSucceed)'
  BY CommandStep, AloneStep, CalmStep
<1> QED
  BY <1>1, <1>2, PTL DEF Spec

----------------------------------------------------------------------------
(* How long a command may take.                                            *)

\* The steps that are left at most: four calls of each sort over the
\* categories for the grants; for a listing as many pages of each category
\* as there are identities, and one more that finds it has changed.
CategoriesLeft == 4 - at
RowsLeft == CategoriesLeft * (Cardinality(Ids) + 1) + (Cardinality(Ids) - offset)
StepsLeft ==
    CASE pc = "done" -> 0
      [] pc \in {"load", "rereadBin", "delete", "rules"} -> 1
      [] pc \in {"save", "reread"} -> 2
      [] pc \in {"before", "set"} -> 3
      [] pc = "readBin" -> 4
      [] pc = "read" -> 5
      [] pc = "check" -> 3 + CategoriesLeft
      [] pc = "grant" -> 7 + CategoriesLeft
      [] pc = "create" -> 11
      [] pc = "precheck" -> 12
      [] pc = "rows" -> 2 + RowsLeft
      [] pc = "apis" -> 4 * Cardinality(Ids) + 6
      [] pc = "shares" -> 4 * Cardinality(Ids) + 7
      [] pc = "start" -> IF job.kind = "list" THEN 4 * Cardinality(Ids) + 8 ELSE 13
MostSteps == 4 * Cardinality(Ids) + 13

LEMMA RowsBound ==
    ASSUME RangeInv
    PROVE  /\ Cardinality(Ids) \in Nat /\ CategoriesLeft \in 0..3
           /\ RowsLeft \in 0..(4 * Cardinality(Ids) + 3)
<1> DEFINE n == Cardinality(Ids)
<1>1. n \in Nat /\ offset \in 0..n
  BY RowsFinite DEF RangeInv
<1>2. CategoriesLeft \in {0, 1, 2, 3}
  BY DEF CategoriesLeft, RangeInv, Categories, LocalUser, LocalGroup, LdapUser, LdapGroup
<1> HIDE DEF n
<1>3. \A c \in {0, 1, 2, 3} : c * (n + 1) \in 0..(3 * n + 3)
  BY <1>1
<1>4. RowsLeft \in 0..(4 * n + 3)
  <2>1. RowsLeft = CategoriesLeft * (n + 1) + (n - offset)
    BY DEF RowsLeft, n
  <2> QED
    BY <1>1, <1>2, <1>3, <2>1
<1> QED
  BY <1>1, <1>2, <1>4 DEF n

LEMMA StepsBound ==
    ASSUME Inv, RangeInv
    PROVE  StepsLeft \in 0..MostSteps /\ (StepsLeft = 0 <=> pc = "done")
<1>1. pc \in Calls \cup {"start", "done"}
  BY DEF Inv, DataInv
<1>2. Cardinality(Ids) \in Nat /\ CategoriesLeft \in 0..3
      /\ RowsLeft \in 0..(4 * Cardinality(Ids) + 3)
  BY RowsBound
<1>3. CASE pc \in {"done", "load", "rereadBin", "delete", "rules", "save", "reread",
                   "before", "set", "readBin", "read", "create", "precheck"}
  <2>1. StepsLeft \in 0..12 /\ (StepsLeft = 0 <=> pc = "done")
    BY <1>3 DEF StepsLeft
  <2> QED
    BY <1>2, <2>1 DEF MostSteps
<1>4. CASE pc \in {"check", "grant"}
  <2>1. StepsLeft \in 1..10
    BY <1>2, <1>4 DEF StepsLeft
  <2> QED
    BY <1>2, <1>4, <2>1 DEF MostSteps
<1>5. CASE pc = "rows"
  <2>1. StepsLeft = 2 + RowsLeft
    BY <1>5 DEF StepsLeft
  <2> QED
    BY <1>2, <1>5, <2>1 DEF MostSteps
<1>6. CASE pc \in {"apis", "shares", "start"}
  <2>1. StepsLeft \in {4 * Cardinality(Ids) + 6, 4 * Cardinality(Ids) + 7,
                       4 * Cardinality(Ids) + 8, 13}
    BY <1>6 DEF StepsLeft
  <2> QED
    BY <1>2, <1>6, <2>1 DEF MostSteps
<1> QED
  BY <1>1, <1>3, <1>4, <1>5, <1>6 DEF Calls, Early, Verifying

\* A command that ends has no step left.
LEMMA EndShortens ==
    ASSUME Inv, RangeInv, pc # "done", pc' = "done"
    PROVE  StepsLeft' < StepsLeft
<1>1. StepsLeft' = 0
  BY DEF StepsLeft
<1>2. StepsLeft \in Nat /\ StepsLeft # 0
  BY StepsBound, RowsBound DEF MostSteps
<1> QED
  BY <1>1, <1>2

\* A category that is through is not gone back to.
LEMMA CategoryShortens ==
    ASSUME Inv, RangeInv, RangeInv', NEW next, NextCategory(next),
           \/ pc = "grant" /\ next = "check"
           \/ pc = "check" /\ next = "check" /\ at # LdapGroup
           \/ pc = "rows" /\ next = "rules"
    PROVE  StepsLeft' < StepsLeft
<1> DEFINE n == Cardinality(Ids)
<1>1. /\ n \in Nat /\ offset \in 0..n /\ offset' = 0 /\ at \in {1, 2, 3, 4}
      /\ at = 4 => pc' = next /\ at' = 1
      /\ at # 4 => pc' = pc /\ at' = at + 1
  BY RowsFinite DEF RangeInv, NextCategory, Categories, LocalUser, LocalGroup, LdapUser,
     LdapGroup
<1>2. CategoriesLeft = 4 - at /\ CategoriesLeft' = 4 - at'
  BY DEF CategoriesLeft
<1>3. CASE pc = "grant"
  <2>1. StepsLeft = 7 + CategoriesLeft
    BY <1>3 DEF StepsLeft
  <2>2. StepsLeft' = IF at = 4 THEN 3 + CategoriesLeft' ELSE 7 + CategoriesLeft'
    BY <1>1, <1>3 DEF StepsLeft
  <2> QED
    BY <1>1, <1>2, <2>1, <2>2
<1>4. CASE pc = "check"
  <2>1. StepsLeft = 3 + CategoriesLeft /\ StepsLeft' = 3 + CategoriesLeft' /\ at # 4
    BY <1>1, <1>4 DEF StepsLeft, LdapGroup
  <2> QED
    BY <1>1, <1>2, <2>1
<1>5. CASE pc = "rows" /\ at = 4
  <2>1. StepsLeft = 2 + RowsLeft /\ StepsLeft' = 1
    BY <1>1, <1>5 DEF StepsLeft
  <2> QED
    BY <2>1, RowsBound
<1>6. CASE pc = "rows" /\ at # 4
  <2>1. StepsLeft = 2 + RowsLeft /\ StepsLeft' = 2 + RowsLeft'
    BY <1>1, <1>6 DEF StepsLeft
  <2>2. CategoriesLeft \in {1, 2, 3} /\ CategoriesLeft' = CategoriesLeft - 1
    BY <1>1, <1>2, <1>6
  <2>3. \A c \in {1, 2, 3} : /\ (c - 1) * (n + 1) \in Int
                             /\ c * (n + 1) = (c - 1) * (n + 1) + (n + 1)
    BY <1>1
  <2>4. PICK others \in Int :
           /\ CategoriesLeft * (n + 1) = others + (n + 1)
           /\ CategoriesLeft' * (n + 1) = others
    BY <2>2, <2>3
  <2>5. RowsLeft = others + (n + 1) + (n - offset)
    BY <1>1, <2>4 DEF RowsLeft
  <2>6. RowsLeft' = others + (n - 0)
    BY <1>1, <2>4 DEF RowsLeft
  <2> QED
    BY <1>1, <2>1, <2>5, <2>6
<1> QED
  BY <1>3, <1>4, <1>5, <1>6

\* A page of the listing.
LEMMA RowsShorten ==
    ASSUME Inv, RangeInv, RangeInv', ReadRows
    PROVE  StepsLeft' < StepsLeft
<1> DEFINE n == Cardinality(Ids)
           page == Page(Rank, Rows(at), offset)
           count == Cardinality(Rows(at))
<1>1. pc = "rows" /\ offset \in Nat /\ Cardinality(page) \in Nat /\ count \in 0..n
      /\ n \in Nat /\ offset \in 0..n
  BY PageFits, RowsFinite DEF ReadRows, RangeInv
<1>2. CASE NextCategory("rules")
  BY <1>1, <1>2, CategoryShortens
<1>3. CASE ~ NextCategory("rules")
  <2>1. /\ offset + Cardinality(page) < count
        /\ offset' = offset + Cardinality(page) /\ pc' = pc /\ at' = at
    <3>1. /\ ~ Onward(page) > count /\ Onward(page) # count
          /\ offset' = Onward(page) /\ UNCHANGED <<pc, at>>
      BY <1>3 DEF ReadRows, CategoryFails, Rows
    <3> QED
      BY <1>1, <3>1 DEF Onward
  <2>2. offset < count /\ offset' \in 0..n
    BY <1>1, <2>1
  <2>3. offset < offset'
    <3>1. Rows(at) \in SUBSET Ids /\ IsFiniteSet(Rows(at))
      BY RowsFinite
    <3>2. offset <= count
      BY <1>1, <2>2
    <3>3. offset < count => offset < offset + Cardinality(page)
      BY <1>1, <3>1, <3>2, RankAssumption, PageExtends
    <3> QED
      BY <2>1, <2>2, <3>3
  <2>4. StepsLeft = 2 + RowsLeft /\ StepsLeft' = 2 + RowsLeft'
    BY <1>1, <2>1 DEF StepsLeft
  <2>5. PICK others \in Int : /\ RowsLeft = others + (n - offset)
                              /\ RowsLeft' = others + (n - offset')
    <3>1. CategoriesLeft \in {0, 1, 2, 3} /\ CategoriesLeft' = CategoriesLeft
      BY <2>1, RowsBound DEF CategoriesLeft
    <3>2. CategoriesLeft * (n + 1) \in Int
      BY <1>1, <3>1
    <3> QED
      BY <3>1, <3>2 DEF RowsLeft
  <2> QED
    BY <1>1, <2>2, <2>3, <2>4, <2>5
<1> QED
  BY <1>2, <1>3

\* Every step of the command uses one up; nothing others do adds one.
LEMMA StepShortens ==
    ASSUME Inv, RangeInv, RangeInv', Next
    PROVE  IF edits' = edits THEN StepsLeft' < StepsLeft ELSE StepsLeft' = StepsLeft
<1> USE DEF Goto, Stop, Mutate
<1>1. Cardinality(Ids) \in Nat /\ CategoriesLeft \in 0..3 /\ CategoriesLeft' \in 0..3
      /\ RowsLeft \in 0..(4 * Cardinality(Ids) + 3) /\ edits \in Nat
      /\ at \in Categories
  <2>1. CategoriesLeft' \in 0..3
    <3>1. at' \in Categories
      BY DEF RangeInv
    <3>2. at' \in 1..4
      BY <3>1 DEF Categories, LocalUser, LocalGroup, LdapUser, LdapGroup
    <3>3. CategoriesLeft' = 4 - at'
      BY DEF CategoriesLeft
    <3>4. \A k \in 1..4 : 4 - k \in 0..3
      OBVIOUS
    <3> QED
      BY <3>2, <3>3, <3>4, Zenon
  <2> QED
    BY <2>1, RowsBound DEF RangeInv
<1>2. ASSUME Command \/ Kill PROVE StepsLeft' < StepsLeft
  <2>0. CASE pc # "done" /\ pc' = "done"
    BY <2>0, EndShortens
  <2>1. CASE Start
    <3>1. /\ pc = "start" /\ job' = job
          /\ pc' # "done" => \/ job.kind = "list" /\ pc' = "shares"
                             \/ /\ job.kind # "list"
                                /\ pc' \in {"create", "precheck", "read", "delete"}
      BY <2>1 DEF Start, FirstCall, Inv, DataInv, Job, Kinds
    <3>2. pc' = "shares" => StepsLeft' = 4 * Cardinality(Ids) + 7
      BY DEF StepsLeft
    <3>3. pc' \in {"create", "precheck", "read", "delete"} => StepsLeft' \in 0..12
      BY DEF StepsLeft
    <3>4. StepsLeft = IF job.kind = "list" THEN 4 * Cardinality(Ids) + 8 ELSE 13
      BY <3>1 DEF StepsLeft
    <3> QED
      BY <1>1, <2>0, <3>1, <3>2, <3>3, <3>4
  <2>2. CASE Precheck
    <3>1. pc = "precheck" /\ pc' \in {"done", "create", "before"}
      BY <2>2 DEF Precheck
    <3>2. StepsLeft = 12 /\ (pc' # "done" => StepsLeft' \in 0..11)
      BY <3>1 DEF StepsLeft
    <3> QED
      BY <2>0, <3>1, <3>2
  <2>3. CASE Create
    <3>1. pc = "create" /\ pc' \in {"done", "grant", "save"}
      BY <2>3 DEF Create, AfterPermissions
    <3>2. /\ StepsLeft = 11 /\ (pc' = "grant" => StepsLeft' = 7 + CategoriesLeft')
          /\ pc' = "save" => StepsLeft' = 2
      BY <3>1 DEF StepsLeft
    <3> QED
      BY <1>1, <2>0, <3>1, <3>2
  <2>4. CASE Grant
    BY <2>4, CategoryShortens DEF Grant
  <2>5. CASE Check
    <3>1. \/ NextCategory("check") /\ at # LdapGroup /\ pc = "check"
          \/ pc = "check" /\ pc' \in {"done", "save"}
      BY <2>5 DEF Check, AfterPermissions
    <3>2. pc' = "save" => StepsLeft' = 2
      BY DEF StepsLeft
    <3>3. pc = "check" => StepsLeft = 3 + CategoriesLeft
      BY DEF StepsLeft
    <3> QED
      BY <1>1, <2>0, <3>1, <3>2, <3>3, CategoryShortens
  <2>6. CASE LoadBefore \/ Save \/ SetQuota
    <3>1. \/ pc' = "done" /\ pc = "before"
          \/ pc = "before" /\ pc' = "save"
          \/ pc = "save" /\ pc' = "load"
          \/ pc = "set" /\ pc' = "reread"
      BY <2>6 DEF LoadBefore, Save, SetQuota
    <3>2. /\ pc = "before" /\ pc' = "save" => StepsLeft = 3 /\ StepsLeft' = 2
          /\ pc = "save" /\ pc' = "load" => StepsLeft = 2 /\ StepsLeft' = 1
          /\ pc = "set" /\ pc' = "reread" => StepsLeft = 3 /\ StepsLeft' = 2
      BY DEF StepsLeft
    <3> QED
      BY <2>0, <3>1, <3>2
  <2>7. CASE ReadScalars \/ ReadBin
    <3>1. \/ pc # "done" /\ pc' = "done"
          \/ pc = "read" /\ pc' \in {"set", "readBin"}
          \/ pc = "readBin" /\ pc' = "set"
          \/ pc = "reread" /\ pc' = "rereadBin"
      BY <2>7 DEF ReadScalars, ReadBin, Preflighted, Verified
    <3>2. /\ pc = "read" /\ pc' \in {"set", "readBin"} => StepsLeft = 5 /\ StepsLeft' \in {3, 4}
          /\ pc = "readBin" /\ pc' = "set" => StepsLeft = 4 /\ StepsLeft' = 3
          /\ pc = "reread" /\ pc' = "rereadBin" => StepsLeft = 2 /\ StepsLeft' = 1
      BY DEF StepsLeft
    <3> QED
      BY <2>0, <3>1, <3>2
  <2>8. CASE ListShares \/ OpenApis
    <3>1. \/ pc # "done" /\ pc' = "done"
          \/ pc = "shares" /\ pc' = "apis"
          \/ pc = "apis" /\ pc' = "rows"
      BY <2>8 DEF ListShares, OpenApis
    <3>2. /\ pc = "shares" => StepsLeft = 4 * Cardinality(Ids) + 7
          /\ pc = "apis" => StepsLeft = 4 * Cardinality(Ids) + 6
      BY DEF StepsLeft
    <3>3. /\ pc' = "apis" => StepsLeft' = 4 * Cardinality(Ids) + 6
          /\ pc' = "rows" => StepsLeft' = 2 + RowsLeft'
      BY DEF StepsLeft
    <3>4. pc = "apis" => at' = at /\ offset' = offset
      BY <2>8 DEF ListShares, OpenApis
    <3>5. pc = "apis" => RowsLeft' = RowsLeft
      BY <3>4 DEF RowsLeft, CategoriesLeft
    <3> QED
      BY <1>1, <2>0, <3>1, <3>2, <3>3, <3>5
  <2>9. CASE ReadRows
    BY <2>9, RowsShorten
  <2>10. ASSUME NEW how, FailRows(how) PROVE StepsLeft' < StepsLeft
    BY <2>10, CategoryShortens DEF FailRows, CategoryFails
  <2>11. CASE /\ Load \/ Delete \/ ReadRules \/ Fail \/ Kill
              /\ \A how \in Hows : ~ FailRows(how)
    <3>1. pc # "done" /\ pc' = "done"
      BY <2>11 DEF Load, Delete, ReadRules, Fail, FailEarly, FailPermissions, FailNfs,
         FailSetQuota, FailVerifyQuota, FailApis, FailRules, Unsupported, Kill,
         Early, Verifying, Calls
    <3> QED
      BY <2>0, <3>1
  <2> QED
    BY <1>2, <2>1, <2>2, <2>3, <2>4, <2>5, <2>6, <2>7, <2>8, <2>9, <2>10, <2>11 DEF Command
<1>3. ASSUME Edit PROVE StepsLeft' = StepsLeft
  BY <1>3 DEF Edit, StepsLeft, CategoriesLeft, RowsLeft, place
<1>4. Command \/ Kill => edits' = edits
  BY DEF Command, Start, Precheck, Create, Grant, Check, LoadBefore, Save, Load,
     ReadScalars, ReadBin, SetQuota, Delete, ListShares, OpenApis, ReadRows, ReadRules,
     Answered, Fail, FailEarly, FailPermissions, FailNfs, FailSetQuota, FailVerifyQuota,
     FailApis, FailRows, FailRules, Trouble, Unsupported, Kill
<1>5. Edit => edits' # edits
  BY <1>1 DEF Edit
<1> QED
  BY <1>2, <1>3, <1>4, <1>5 DEF Next

\* A command on a folder takes at most thirteen steps, a listing four for
\* every identity more, whatever page the accounts are moved to while it
\* reads: each step it takes, also one that fails, brings it nearer to its
\* end, and only at the end is there none left.
THEOREM ShareWorkIsBounded ==
    Spec => /\ [](StepsLeft \in 0..MostSteps /\ (StepsLeft = 0 <=> pc = "done"))
            /\ [][IF edits' = edits THEN StepsLeft' < StepsLeft
                  ELSE StepsLeft' = StepsLeft]_vars
<1> DEFINE Shorter ==
      IF edits' = edits THEN StepsLeft' < StepsLeft ELSE StepsLeft' = StepsLeft
<1>1. CommandInv => Inv /\ RangeInv
  BY DEF CommandInv
<1>2. CommandInv => StepsLeft \in 0..MostSteps /\ (StepsLeft = 0 <=> pc = "done")
  BY <1>1, StepsBound
<1>3. CommandInv' => RangeInv'
  BY DEF CommandInv
<1>4. CommandInv /\ CommandInv' /\ [Next]_vars => [Shorter]_vars
  BY <1>1, <1>3, StepShortens
<1>5. Spec => []CommandInv
  BY InitCommand, CommandStep, PTL DEF Spec
<1> QED
  BY <1>2, <1>4, <1>5, PTL DEF Spec
=============================================================================
