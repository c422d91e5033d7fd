------------------------- MODULE ApplyReportProofs -------------------------
(***************************************************************************)
(* The report of a run of apply-config: what was sent is what the report   *)
(* owns up to, and the statuses tell the order in which it happened.  From *)
(* that order follows that apply-config implements the abstract serial     *)
(* plan: its initial states are initial states of SerialPlan, and each of  *)
(* its steps is a step of SerialPlan or leaves it alone.                   *)
(***************************************************************************)
EXTENDS ApplyTypeProofs, ApplySerial, FiniteSetTheorems

USE DEF Shares, Dirs

\* The order of the plan is total.
LEMMA BeforeOrder ==
    ASSUME NEW o \in Ops, NEW p \in Ops, o # p
    PROVE  Before(o, p) <=> ~ Before(p, o)
<1>1. /\ o[1] \in Int /\ o[2] \in Int /\ p[1] \in Int /\ p[2] \in Int
      /\ o = <<o[1], o[2]>> /\ p = <<p[1], p[2]>>
  BY SizeAssumption DEF Ops, Slots
<1>2. o[1] # p[1] \/ o[2] # p[2]
  BY <1>1
<1> QED
  BY <1>1, <1>2 DEF Before

\* Before the plan is built nothing has a status and nothing was sent.
PlanningInv ==
    pc \in PlanPcs =>
        stage = "idle" /\ wrote = {} /\ \A o \in Ops : status[o] = "none"

\* While it is executed, what has run succeeded and precedes what has not,
\* the current operation is the first of those, and only those that have
\* run, and the current one, have sent anything.
ExecutionInv ==
    pc = "execute" =>
        /\ doc.yes
        /\ \A o \in Ops : status[o] \in {"none", "PLANNED", "SUCCEEDED"}
        /\ \A o \in Ops, p \in Planned :
              status[o] = "SUCCEEDED" => Before(o, p)
        /\ stage # "idle" =>
              op \in Planned /\ \A p \in Planned \ {op} : Before(op, p)
        /\ \A o \in wrote :
              status[o] = "SUCCEEDED" \/ (stage # "idle" /\ o = op)

\* The end of a run.
OutcomeInv ==
    pc = "done" =>
        /\ exit = 60 =>
             \E o \in Ops :
                /\ status[o] \in {"FAILED", "UNKNOWN"}
                /\ \A p \in Ops \ {o} : status[p] # "none" =>
                      status[p] = IF Before(p, o) THEN "SUCCEEDED"
                                  ELSE "SKIPPED"
        /\ exit = 0 /\ doc.yes =>
              \A o \in Ops : status[o] \in {"none", "SUCCEEDED"}
        /\ \A o \in wrote : status[o] \notin {"none", "SKIPPED"}
        /\ exit \notin {0, 60, Killed} =>
              wrote = {} \/ (exit = 40 /\ stage = "scalarRead")
        /\ ~ doc.yes => wrote = {}

ReportInv == PlanningInv /\ ExecutionInv /\ OutcomeInv

LEMMA InitReport == Init => ReportInv
  BY DEF Init, ReportInv, PlanningInv, ExecutionInv, OutcomeInv, PlanPcs

\* build_apply_plan ends without a mutation, or hands over a plan of which
\* nothing has run.
LEMMA PlanReport == TypeInv /\ ReportInv /\ Plan => ReportInv'
<1> SUFFICES ASSUME TypeInv, ReportInv, Plan PROVE ReportInv'
  OBVIOUS
<1>1. pc \in PlanPcs
  BY DEF Plan, List, SkipShare, PlanNewShare, RejectVolume, ReadState, ReadAcl,
         ReadNfs, ReadDir, DirsRead, SharesRead, PreflightCreate,
         LookupPrincipals, Build, PlanPcs
<1>2. stage = "idle" /\ wrote = {} /\ \A o \in Ops : status[o] = "none"
  BY <1>1 DEF ReportInv, PlanningInv
<1>3. stage' = stage /\ wrote' = wrote /\ doc' = doc
  BY DEF Plan, List, SkipShare, PlanNewShare, RejectVolume, ReadState, ReadAcl,
         ReadNfs, ReadDir, DirsRead, SharesRead, PreflightCreate,
         LookupPrincipals, Build, planVars, opVars, ghosts
<1>4. CASE Build
  <2>1. \A o \in Ops : status'[o] \in {"none", "PLANNED"}
    BY <1>4 DEF Build
  <2>2. \/ pc' = "execute" /\ doc.yes
        \/ pc' = "done" /\ exit' = 0 /\ ~ doc.yes
    BY <1>4 DEF Build, Stop
  <2> QED
    BY <1>2, <1>3, <2>1, <2>2
    DEF ReportInv, PlanningInv, ExecutionInv, OutcomeInv, PlanPcs, Planned
<1>5. CASE ~ Build
  <2>1. status' = status
    BY <1>5
    DEF Plan, List, SkipShare, PlanNewShare, RejectVolume, ReadState, ReadAcl,
        ReadNfs, ReadDir, DirsRead, SharesRead, PreflightCreate,
        LookupPrincipals
  <2>2. pc' \in PlanPcs \/ (pc' = "done" /\ exit' \in {10, 40, 41})
    BY <1>5, <1>1
    DEF Plan, List, SkipShare, PlanNewShare, RejectVolume, ReadState, ReadAcl,
        ReadNfs, ReadDir, DirsRead, SharesRead, PreflightCreate,
        LookupPrincipals, PlanPcs, NextShare, Stop
  <2> QED
    BY <1>2, <1>3, <2>1, <2>2
    DEF ReportInv, PlanningInv, ExecutionInv, OutcomeInv, PlanPcs
<1> QED
  BY <1>4, <1>5

\* One step of the current operation, which may send a mutation.
LEMMA OpReport ==
    ASSUME TypeInv, ReportInv, pc = "execute", stage # "idle", UNCHANGED <<op, doc>>,
           wrote' = wrote \/ (wrote' = wrote \cup {op} /\ stage # "scalarRead"),
           NEW next \in ReadStages \cup WriteStages,
           NEW how \in {"FAILED", "UNKNOWN"},
           \/ Goto(next) \/ Succeed \/ Fail(how)
           \/ Abort /\ stage = "scalarRead"
           \/ Stop(Killed) /\ UNCHANGED <<status, stage>>
    PROVE  ReportInv'
<1>1. /\ doc.yes /\ op \in Ops /\ status[op] = "PLANNED"
      /\ \A o \in Ops : status[o] \in {"none", "PLANNED", "SUCCEEDED"}
      /\ \A o \in Ops, p \in Planned : status[o] = "SUCCEEDED" => Before(o, p)
      /\ \A p \in Planned \ {op} : Before(op, p)
      /\ \A o \in wrote : status[o] = "SUCCEEDED" \/ o = op
  BY DEF ReportInv, ExecutionInv, Planned
<1>2. wrote' \subseteq wrote \cup {op} /\ wrote \subseteq Ops
  BY DEF TypeInv, GhostInv
<1>3. next # "idle"
  BY DEF ReadStages, WriteStages
<1>4. status \in [Ops -> Statuses]
  BY DEF TypeInv, ControlInv
<1>5. CASE Goto(next)
  BY <1>1, <1>2, <1>3, <1>5
  DEF Goto, ReportInv, PlanningInv, ExecutionInv, OutcomeInv, PlanPcs, Planned
<1>6. CASE Succeed
  <2>1. /\ pc' = "execute" /\ stage' = "idle" /\ doc' = doc
        /\ status'[op] = "SUCCEEDED"
        /\ \A o \in Ops \ {op} : status'[o] = status[o]
    BY <1>1, <1>4, <1>6 DEF Succeed
  <2>2. Planned' = Planned \ {op}
    BY <1>1, <2>1 DEF Planned
  <2>3. \A o \in Ops, p \in Planned' :
            status'[o] = "SUCCEEDED" => Before(o, p)
    BY <1>1, <2>1, <2>2
  <2> QED
    BY <1>1, <1>2, <2>1, <2>3
    DEF ReportInv, PlanningInv, ExecutionInv, OutcomeInv, PlanPcs
<1>7. CASE Fail(how)
  <2>1. /\ pc' = "done" /\ exit' = 60 /\ doc' = doc
        /\ status'[op] = how
        /\ \A o \in Ops \ {op} : status'[o] =
              IF status[o] = "PLANNED" THEN "SKIPPED" ELSE status[o]
    BY <1>1, <1>7 DEF Fail, Stop
  <2>2. ASSUME NEW p \in Ops \ {op}, status'[p] # "none"
        PROVE  status'[p] = IF Before(p, op) THEN "SUCCEEDED" ELSE "SKIPPED"
    <3>1. CASE status[p] = "PLANNED"
      <4>1. Before(op, p)
        BY <1>1, <3>1 DEF Planned
      <4>2. ~ Before(p, op)
        BY <1>1, <4>1, BeforeOrder
      <4> QED
        BY <2>1, <3>1, <4>2
    <3>2. CASE status[p] = "SUCCEEDED"
      BY <1>1, <2>1, <3>2 DEF Planned
    <3> QED
      BY <1>1, <2>1, <2>2, <3>1, <3>2
  <2>3. \A o \in wrote' : status'[o] \in {how, "SUCCEEDED"}
    BY <1>1, <1>2, <2>1
  <2> QED
    BY <1>1, <2>1, <2>2, <2>3
    DEF ReportInv, PlanningInv, ExecutionInv, OutcomeInv, PlanPcs, Killed
<1>8. CASE Abort /\ stage = "scalarRead"
  BY <1>1, <1>2, <1>8
  DEF Abort, Stop, ReportInv, PlanningInv, ExecutionInv, OutcomeInv, PlanPcs
<1>9. CASE Stop(Killed) /\ UNCHANGED <<status, stage>>
  BY <1>1, <1>2, <1>9
  DEF Stop, Killed, ReportInv, PlanningInv, ExecutionInv, OutcomeInv, PlanPcs
<1> QED
  BY <1>5, <1>6, <1>7, <1>8, <1>9

LEMMA ReadReport == TypeInv /\ ReportInv /\ Read => ReportInv'
<1> SUFFICES ASSUME TypeInv, ReportInv, Read PROVE ReportInv'
  OBVIOUS
<1>1. pc = "execute" /\ stage # "idle" /\ UNCHANGED <<op, doc, wrote>>
  BY DEF Read, CheckCreated, ReadScalars, VerifyScalarsSet, VerifyScalars,
         ReadAclBefore, VerifyAclSet, VerifyAcl, ReadNfsBefore, VerifyNfsSaved,
         VerifyNfs, ReadNewDir, VerifyDirChild, VerifyDirPath, RecheckDir,
         VerifyDirGone, VerifyDir, ReadUnavailable, At, Expect, ExpectLast,
         ReadOnly, ghosts, ReadStages
<1> USE DEF ReadStages, WriteStages, At, Expect, ExpectLast
<1>2. CASE ReadNewDir
  <2>1. DirStage(OpItem, Live.dirs[OpDir]) \in ReadStages \cup WriteStages
    BY DEF DirStage
  <2> QED
    BY <1>1, <1>2, <2>1, OpReport DEF ReadNewDir
<1>3. CASE ReadScalars \/ ReadUnavailable
  BY <1>1, <1>3, OpReport DEF ReadScalars, ReadUnavailable, Broken, BrokenStatus
<1>4. CASE CheckCreated \/ VerifyScalarsSet \/ VerifyScalars \/ ReadAclBefore
  BY <1>1, <1>4, OpReport
  DEF CheckCreated, VerifyScalarsSet, VerifyScalars, ReadAclBefore
<1>5. CASE VerifyAclSet \/ VerifyAcl \/ ReadNfsBefore \/ VerifyNfsSaved \/ VerifyNfs
  BY <1>1, <1>5, OpReport
  DEF VerifyAclSet, VerifyAcl, ReadNfsBefore, VerifyNfsSaved, VerifyNfs
<1>6. CASE VerifyDirChild \/ VerifyDirPath \/ RecheckDir \/ VerifyDirGone \/ VerifyDir
  BY <1>1, <1>6, OpReport
  DEF VerifyDirChild, VerifyDirPath, RecheckDir, VerifyDirGone, VerifyDir
<1> QED
  BY <1>2, <1>3, <1>4, <1>5, <1>6 DEF Read

LEMMA WriteReport == TypeInv /\ ReportInv /\ (Write \/ WriteLost \/ KillInWrite) => ReportInv'
<1> SUFFICES ASSUME TypeInv, ReportInv, Write \/ WriteLost \/ KillInWrite
             PROVE  ReportInv'
  OBVIOUS
<1> USE DEF ReadStages, WriteStages
<1>1. /\ pc = "execute" /\ stage # "idle" /\ stage # "scalarRead"
      /\ UNCHANGED <<op, doc>> /\ wrote' = wrote \cup {op}
  BY DEF Write, CreateShare, SetScalars, SetAcl, SaveNfs, CreateDir, DeleteDir,
         DeleteShare, WriteRefused, WriteLost, KillInWrite, WriteAnswered, At,
         Sent, opVars
<1>2. \/ Succeed \/ Fail("FAILED") \/ Fail("UNKNOWN")
      \/ Stop(Killed) /\ UNCHANGED <<status, stage>>
      \/ \E next \in ReadStages : Goto(next)
  BY DEF Write, CreateShare, SetScalars, SetAcl, SaveNfs, CreateDir, DeleteDir,
         DeleteShare, WriteRefused, WriteLost, KillInWrite, WriteAnswered,
         RefusedStatus, LostStatus, opVars
<1> QED
  BY <1>1, <1>2, OpReport

LEMMA FaultReport == TypeInv /\ ReportInv /\ (PlanFault \/ ReadFault \/ Kill) => ReportInv'
<1> SUFFICES ASSUME TypeInv, ReportInv, PlanFault \/ ReadFault \/ Kill
             PROVE  ReportInv'
  OBVIOUS
<1>1. CASE PlanFault
  <2>1. pc \in PlanPcs
    BY <1>1 DEF PlanFault, PlanCalls, MakesClient, PlanPcs
  <2>2. /\ UNCHANGED <<doc, status, stage, wrote>>
        /\ pc' = "done" /\ exit' \in {10, 20, 30, 40}
    BY <1>1 DEF PlanFault, Stop, opVars, ghosts
  <2> QED
    BY <2>1, <2>2 DEF ReportInv, PlanningInv, ExecutionInv, OutcomeInv, PlanPcs
<1>2. CASE ReadFault
  <2>1. /\ pc = "execute" /\ stage # "idle"
        /\ UNCHANGED <<op, doc, wrote>>
        /\ Fail("FAILED") \/ Fail("UNKNOWN") \/ (Abort /\ stage = "scalarRead")
    BY <1>2 DEF ReadFault, Broken, BrokenStatus, ReadStages, ghosts
  <2>2. "aclVerify" \in ReadStages
    BY DEF ReadStages
  <2> QED
    BY <2>1, <2>2, OpReport
<1>3. CASE Kill
  <2>1. /\ UNCHANGED <<doc, status, opVars, wrote>>
        /\ pc # "done" /\ pc' = "done" /\ exit' = Killed
    BY <1>3 DEF Kill, Stop, ghosts
  <2>2. CASE pc \in PlanPcs
    BY <2>1, <2>2
    DEF Killed, opVars, ReportInv, PlanningInv, ExecutionInv, OutcomeInv, PlanPcs
  <2>3. CASE pc = "execute"
    <3>1. /\ doc.yes
          /\ \A o \in wrote : status[o] = "SUCCEEDED" \/ status[o] = "PLANNED"
      BY <2>3 DEF ReportInv, ExecutionInv, Planned
    <3> QED
      BY <2>1, <3>1
      DEF Killed, ReportInv, PlanningInv, ExecutionInv, OutcomeInv, PlanPcs
  <2> QED
    BY <2>1, <2>2, <2>3 DEF TypeInv, ControlInv
<1> QED
  BY <1>1, <1>2, <1>3

LEMMA OtherReport ==
    TypeInv /\ ReportInv /\ (StartOp \/ FinishPlan \/ Edit \/ Rerun) => ReportInv'
<1> SUFFICES ASSUME TypeInv, ReportInv, StartOp \/ FinishPlan \/ Edit \/ Rerun
             PROVE  ReportInv'
  OBVIOUS
<1> USE DEF ReportInv
<1>1. CASE StartOp
  <2>1. PICK o \in Planned : /\ \A p \in Planned \ {o} : Before(o, p)
                             /\ op' = o
    BY <1>1 DEF StartOp
  <2>2. /\ pc = "execute" /\ stage = "idle"
        /\ UNCHANGED <<doc, pc, status, wrote>>
    BY <1>1 DEF StartOp, ghosts
  <2>3. /\ doc.yes
        /\ \A x \in Ops : status[x] \in {"none", "PLANNED", "SUCCEEDED"}
        /\ \A x \in Ops, p \in Planned : status[x] = "SUCCEEDED" => Before(x, p)
        /\ \A x \in wrote : status[x] = "SUCCEEDED"
    BY <2>2 DEF ExecutionInv
  <2>4. Planned' = Planned
    BY <2>2 DEF Planned
  <2> QED
    BY <2>1, <2>2, <2>3, <2>4 DEF PlanningInv, ExecutionInv, OutcomeInv, PlanPcs
<1>2. CASE FinishPlan
  <2>1. /\ pc = "execute" /\ stage = "idle" /\ Planned = {}
        /\ pc' = "done" /\ exit' = 0
        /\ UNCHANGED <<doc, status, wrote>>
    BY <1>2 DEF FinishPlan, Stop
  <2>2. /\ doc.yes /\ \A o \in Ops : status[o] \in {"none", "SUCCEEDED"}
        /\ \A o \in wrote : status[o] = "SUCCEEDED"
    BY <2>1 DEF ExecutionInv, Planned
  <2> QED
    BY <2>1, <2>2 DEF PlanningInv, ExecutionInv, OutcomeInv, PlanPcs
<1>3. CASE Edit
  BY <1>3
  DEF Edit, opVars, PlanningInv, ExecutionInv, OutcomeInv, Planned
<1>4. CASE Rerun
  BY <1>4 DEF Rerun, Fresh, PlanningInv, ExecutionInv, OutcomeInv, PlanPcs
<1> QED
  BY <1>1, <1>2, <1>3, <1>4

THEOREM ReportInvariant == Spec => [](TypeInv /\ ReportInv)
<1>1. Init => TypeInv /\ ReportInv
  BY InitType, InitReport
<1>2. TypeInv /\ ReportInv /\ [Next]_vars => (TypeInv /\ ReportInv)'
  <2> SUFFICES ASSUME TypeInv, ReportInv, [Next]_vars
               PROVE  TypeInv' /\ ReportInv'
    OBVIOUS
  <2>1. TypeInv'
    BY NextType
  <2>2. CASE UNCHANGED vars
    <3>1. UNCHANGED <<doc, pc, status, op, stage, exit, wrote>>
      BY <2>2 DEF vars, opVars, ghosts
    <3>2. PlanningInv' /\ ExecutionInv'
      BY <3>1 DEF ReportInv, PlanningInv, ExecutionInv, Planned
    <3>3. OutcomeInv'
      BY <3>1 DEF ReportInv, OutcomeInv
    <3> QED
      BY <2>1, <3>2, <3>3 DEF ReportInv
  <2>3. CASE Next
    BY <2>1, <2>3, PlanReport, ReadReport, WriteReport, FaultReport, OtherReport
    DEF Next, Client, Fault
  <2> QED
    BY <2>1, <2>2, <2>3
<1> QED
  BY <1>1, <1>2, PTL DEF Spec

\* The report is right in every run: with exit code 60 one operation is to
\* blame, what precedes it succeeded and what follows it was skipped; with 0
\* nothing is left over; and an operation the report calls skipped, or does
\* not list, has sent nothing.
THEOREM ReportCorrect == Spec => []ReportMatchesWork
<1>1. TypeInv /\ ReportInv => ReportMatchesWork
  <2> SUFFICES ASSUME TypeInv, ReportInv PROVE ReportMatchesWork
    OBVIOUS
  <2>1. \A o \in wrote : status[o] \notin {"none", "SKIPPED"}
    <3>1. CASE pc \in PlanPcs
      BY <3>1 DEF ReportInv, PlanningInv
    <3>2. CASE pc = "execute"
      BY <3>2 DEF ReportInv, ExecutionInv, Planned
    <3>3. CASE pc = "done"
      BY <3>3 DEF ReportInv, OutcomeInv
    <3> QED
      BY <3>1, <3>2, <3>3 DEF TypeInv, ControlInv
  <2>2. pc = "done" /\ exit = 60 =>
          \E o \in Ops :
             /\ status[o] \in {"FAILED", "UNKNOWN"}
             /\ \A p \in Ops \ {o} : status[p] # "none" =>
                   status[p] = IF Before(p, o) THEN "SUCCEEDED" ELSE "SKIPPED"
    BY DEF ReportInv, OutcomeInv
  <2>3. pc = "done" /\ exit = 0 /\ doc.yes =>
          \A o \in Ops : status[o] \in {"none", "SUCCEEDED"}
    BY DEF ReportInv, OutcomeInv
  <2> QED
    BY <2>1, <2>2, <2>3 DEF ReportMatchesWork
<1> QED
  BY <1>1, ReportInvariant, PTL

\* A run that ends before, or without, execute_apply_plan has written
\* nothing, and so has a dry run.
THEOREM EarlyExitCorrect == Spec => []EarlyExitWroteNothing
<1>1. TypeInv /\ ReportInv => EarlyExitWroteNothing
  <2> SUFFICES ASSUME TypeInv, ReportInv PROVE EarlyExitWroteNothing
    OBVIOUS
  <2>1. CASE pc \in PlanPcs
    BY <2>1 DEF ReportInv, PlanningInv, EarlyExitWroteNothing, PlanPcs
  <2>2. CASE pc = "execute"
    BY <2>2 DEF ReportInv, ExecutionInv, EarlyExitWroteNothing
  <2>3. CASE pc = "done"
    BY <2>3 DEF ReportInv, OutcomeInv, EarlyExitWroteNothing
  <2> QED
    BY <2>1, <2>2, <2>3 DEF TypeInv, ControlInv
<1> QED
  BY <1>1, ReportInvariant, PTL


----------------------------------------------------------------------------
(* The refinement.                                                         *)

serial == <<Phase, Report, wrote, Verdict>>

LEMMA InitSerial == Init => Serial!Init
  BY DEF Init, Serial!Init, Phase, Report, Verdict, PlanPcs

\* The steps of build_apply_plan are a refusal, the proposal of a plan or
\* nothing.
LEMMA PlanSerial ==
    TypeInv /\ ReportInv /\ (Plan \/ PlanFault) => Serial!Next \/ UNCHANGED serial
<1> SUFFICES ASSUME TypeInv, ReportInv, Plan \/ PlanFault
             PROVE  Serial!Next \/ UNCHANGED serial
  OBVIOUS
<1>1. pc \in PlanPcs
  BY DEF Plan, List, SkipShare, PlanNewShare, RejectVolume, ReadState, ReadAcl,
         ReadNfs, ReadDir, DirsRead, SharesRead, PreflightCreate,
         LookupPrincipals, Build, PlanFault, PlanCalls, MakesClient, PlanPcs
<1>2. Phase = "planning" /\ Verdict = "running" /\ Report = status /\ stage = "idle"
  BY <1>1 DEF Phase, Verdict, Report, PlanPcs, ReportInv, PlanningInv
<1>3. stage' = stage /\ wrote' = wrote
  BY DEF Plan, List, SkipShare, PlanNewShare, RejectVolume, ReadState, ReadAcl,
         ReadNfs, ReadDir, DirsRead, SharesRead, PreflightCreate,
         LookupPrincipals, Build, PlanFault, planVars, opVars, ghosts
<1>4. CASE Build
  <2>1. status' \in [Ops -> {"none", "PLANNED"}]
    BY <1>4 DEF Build
  <2>2. /\ Report' = status'
        /\ \/ Phase' = "executing" /\ Verdict' = "running"
           \/ Phase' = "ended" /\ Verdict' = "done"
    BY <1>2, <1>4 DEF Build, Stop, Phase, Verdict, Report, PlanPcs, Killed
  <2>3. Serial!Propose
    BY <1>2, <1>3, <2>1, <2>2 DEF Serial!Propose, Serial!End
  <2> QED
    BY <2>3 DEF Serial!Next
<1>5. CASE ~ Build
  <2>1. status' = status
    BY <1>5
    DEF Plan, List, SkipShare, PlanNewShare, RejectVolume, ReadState, ReadAcl,
        ReadNfs, ReadDir, DirsRead, SharesRead, PreflightCreate,
        LookupPrincipals, PlanFault
  <2>2. pc' \in PlanPcs \/ (pc' = "done" /\ exit' \in {10, 20, 30, 40, 41})
    BY <1>5, <1>1
    DEF Plan, List, SkipShare, PlanNewShare, RejectVolume, ReadState, ReadAcl,
        ReadNfs, ReadDir, DirsRead, SharesRead, PreflightCreate,
        LookupPrincipals, PlanFault, PlanPcs, NextShare, Stop
  <2>3. CASE pc' \in PlanPcs
    <3>1. Phase' = "planning" /\ Verdict' = "running" /\ Report' = status'
      BY <2>3 DEF Phase, Verdict, Report, PlanPcs
    <3> QED
      BY <1>2, <1>3, <2>1, <3>1 DEF serial
  <2>4. CASE pc' = "done" /\ exit' \in {10, 20, 30, 40, 41}
    <3>1. Phase' = "ended" /\ Verdict' = "refused" /\ Report' = status'
      BY <1>2, <1>3, <2>4 DEF Phase, Verdict, Report, PlanPcs, Killed
    <3> QED
      BY <1>2, <1>3, <2>1, <3>1 DEF Serial!Next, Serial!Refuse, Serial!End
  <2> QED
    BY <2>2, <2>3, <2>4
<1> QED
  BY <1>4, <1>5

\* A step of the current operation is a step of the first pending one.
LEMMA OpSerial ==
    ASSUME TypeInv, ReportInv, pc = "execute", stage # "idle",
           wrote' = wrote \/ (wrote' = wrote \cup {op} /\ stage # "scalarRead"),
           NEW next \in ReadStages \cup WriteStages,
           NEW how \in {"FAILED", "UNKNOWN"},
           \/ Goto(next) \/ Succeed \/ Fail(how)
           \/ Abort /\ stage = "scalarRead"
           \/ Stop(Killed) /\ UNCHANGED <<status, stage>>
    PROVE  Serial!Next \/ UNCHANGED serial
<1>1. op \in Ops /\ op \in Planned /\ \A p \in Planned \ {op} : Before(op, p)
  BY DEF ReportInv, ExecutionInv, Planned
<1>2. Phase = "executing" /\ Verdict = "running" /\ Report = status
  BY DEF Phase, Verdict, Report, PlanPcs
<1>3. Serial!First(op)
  BY <1>1, <1>2 DEF Serial!First, Serial!Pending, Planned
<1>4. Serial!MaySend(op)
  BY DEF Serial!MaySend
<1>5. CASE Goto(next)
  <2>1. /\ Phase' = "executing" /\ Verdict' = "running"
        /\ Report' = status' /\ status' = status
    BY <1>5 DEF Goto, Phase, Verdict, Report, PlanPcs
  <2>2. CASE wrote' = wrote
    BY <1>2, <2>1, <2>2 DEF serial
  <2>3. CASE wrote' = wrote \cup {op}
    <3>1. Serial!Send(op)
      BY <1>2, <1>3, <2>1, <2>3 DEF Serial!Send
    <3> QED
      BY <1>1, <3>1 DEF Serial!Next, Serial!Run
  <2> QED
    BY <2>2, <2>3
<1>6. CASE Succeed
  <2>1. /\ Phase' = "executing" /\ Verdict' = "running"
        /\ Report' = [status EXCEPT ![op] = "SUCCEEDED"]
    BY <1>6 DEF Succeed, Phase, Verdict, Report, PlanPcs
  <2>2. Serial!Complete(op)
    BY <1>2, <1>3, <1>4, <2>1 DEF Serial!Complete
  <2> QED
    BY <1>1, <2>2 DEF Serial!Next, Serial!Run
<1>7. CASE Fail(how)
  <2>1. /\ Phase' = "ended" /\ Verdict' = "broken"
        /\ Report' = [o \in Ops |->
              IF o = op THEN how
              ELSE IF status[o] = "PLANNED" THEN "SKIPPED" ELSE status[o]]
    BY <1>7 DEF Fail, Stop, Phase, Verdict, Report, PlanPcs, Killed
  <2>2. Serial!Break(op, how)
    BY <1>2, <1>3, <1>4, <2>1 DEF Serial!Break, Serial!End
  <2> QED
    BY <1>1, <2>2 DEF Serial!Next, Serial!Run
<1>8. CASE Abort /\ stage = "scalarRead"
  <2>1. Phase' = "ended" /\ Verdict' = "abandoned" /\ Report' = status
    BY <1>8 DEF Abort, Stop, Phase, Verdict, Report, PlanPcs, Killed
  <2>2. wrote' = wrote
    BY <1>8
  <2>3. Serial!Abandon(op)
    BY <1>2, <1>3, <2>1, <2>2 DEF Serial!Abandon, Serial!End
  <2> QED
    BY <1>1, <2>3 DEF Serial!Next, Serial!Run
<1>9. CASE Stop(Killed) /\ UNCHANGED <<status, stage>>
  <2>1. /\ Phase' = "ended" /\ Verdict' = "killed"
        /\ Report' = [o \in Ops |-> "none"]
    BY <1>9 DEF Stop, Phase, Verdict, Report, PlanPcs, Killed
  <2>2. Serial!Die
    BY <1>1, <1>2, <1>3, <1>4, <2>1 DEF Serial!Die, Serial!End
  <2> QED
    BY <2>2 DEF Serial!Next
<1> QED
  BY <1>5, <1>6, <1>7, <1>8, <1>9

\* The reads of execute_apply_plan.
LEMMA ReadSerial ==
    TypeInv /\ ReportInv /\ (Read \/ ReadFault) => Serial!Next \/ UNCHANGED serial
<1> SUFFICES ASSUME TypeInv, ReportInv, Read \/ ReadFault
             PROVE  Serial!Next \/ UNCHANGED serial
  OBVIOUS
<1>1. pc = "execute" /\ stage # "idle" /\ wrote' = wrote
  BY DEF Read, CheckCreated, ReadScalars, VerifyScalarsSet, VerifyScalars,
         ReadAclBefore, VerifyAclSet, VerifyAcl, ReadNfsBefore, VerifyNfsSaved,
         VerifyNfs, ReadNewDir, VerifyDirChild, VerifyDirPath, RecheckDir,
         VerifyDirGone, VerifyDir, ReadUnavailable, ReadFault, At, Expect,
         ExpectLast, ReadOnly, ghosts, ReadStages
<1> USE DEF ReadStages, WriteStages, At, Expect, ExpectLast
<1>2. CASE ReadNewDir
  <2>1. DirStage(OpItem, Live.dirs[OpDir]) \in ReadStages \cup WriteStages
    BY DEF DirStage
  <2> QED
    BY <1>1, <1>2, <2>1, OpSerial DEF ReadNewDir
<1>3. CASE ReadScalars \/ ReadUnavailable \/ ReadFault
  <2>1. \/ Goto("scalarSet") \/ Fail("FAILED") \/ Fail("UNKNOWN")
        \/ Abort /\ stage = "scalarRead"
    BY <1>3 DEF ReadScalars, ReadUnavailable, ReadFault, Broken, BrokenStatus
  <2> QED
    BY <1>1, <2>1, OpSerial
<1>4. CASE CheckCreated \/ VerifyScalarsSet \/ VerifyScalars \/ ReadAclBefore
  BY <1>1, <1>4, OpSerial
  DEF CheckCreated, VerifyScalarsSet, VerifyScalars, ReadAclBefore
<1>5. CASE VerifyAclSet \/ VerifyAcl \/ ReadNfsBefore \/ VerifyNfsSaved \/ VerifyNfs
  BY <1>1, <1>5, OpSerial
  DEF VerifyAclSet, VerifyAcl, ReadNfsBefore, VerifyNfsSaved, VerifyNfs
<1>6. CASE VerifyDirChild \/ VerifyDirPath \/ RecheckDir \/ VerifyDirGone \/ VerifyDir
  BY <1>1, <1>6, OpSerial
  DEF VerifyDirChild, VerifyDirPath, RecheckDir, VerifyDirGone, VerifyDir
<1> QED
  BY <1>2, <1>3, <1>4, <1>5, <1>6 DEF Read

\* The writes, answered or not.
LEMMA WriteSerial ==
    TypeInv /\ ReportInv /\ (Write \/ WriteLost \/ KillInWrite)
      => Serial!Next \/ UNCHANGED serial
<1> SUFFICES ASSUME TypeInv, ReportInv, Write \/ WriteLost \/ KillInWrite
             PROVE  Serial!Next \/ UNCHANGED serial
  OBVIOUS
<1> USE DEF ReadStages, WriteStages
<1>1. /\ pc = "execute" /\ stage # "idle" /\ stage # "scalarRead"
      /\ wrote' = wrote \cup {op}
  BY DEF Write, CreateShare, SetScalars, SetAcl, SaveNfs, CreateDir, DeleteDir,
         DeleteShare, WriteRefused, WriteLost, KillInWrite, WriteAnswered, At, Sent
<1>2. \/ Succeed \/ Fail("FAILED") \/ Fail("UNKNOWN")
      \/ Stop(Killed) /\ UNCHANGED <<status, stage>>
      \/ \E next \in ReadStages : Goto(next)
  BY DEF Write, CreateShare, SetScalars, SetAcl, SaveNfs, CreateDir, DeleteDir,
         DeleteShare, WriteRefused, WriteLost, KillInWrite, WriteAnswered,
         RefusedStatus, LostStatus, opVars
<1> QED
  BY <1>1, <1>2, OpSerial

\* A kill between two calls, the end of the plan, and what does not show.
LEMMA OtherSerial ==
    TypeInv /\ ReportInv /\ (StartOp \/ FinishPlan \/ Kill \/ Edit \/ Rerun)
      => Serial!Next \/ UNCHANGED serial
<1> SUFFICES ASSUME TypeInv, ReportInv, StartOp \/ FinishPlan \/ Kill \/ Edit \/ Rerun
             PROVE  Serial!Next \/ UNCHANGED serial
  OBVIOUS
<1>1. CASE StartOp \/ Edit
  <2>1. /\ UNCHANGED <<pc, status, exit, wrote>>
        /\ stage' = stage \/ pc = "execute"
    BY <1>1 DEF StartOp, Edit, opVars, ghosts
  <2> QED
    BY <2>1 DEF serial, Phase, Report, Verdict
<1>2. CASE FinishPlan
  <2>1. /\ pc = "execute" /\ pc' = "done" /\ exit' = 0 /\ Planned = {}
        /\ UNCHANGED <<status, wrote>>
    BY <1>2 DEF FinishPlan, Stop
  <2>2. /\ Phase = "executing" /\ Phase' = "ended" /\ Verdict' = "done"
        /\ Report = status /\ Report' = status
    BY <2>1 DEF Phase, Verdict, Report, PlanPcs, Killed
  <2>3. Serial!Finish
    BY <2>1, <2>2 DEF Serial!Finish, Serial!Pending, Serial!End, Planned
  <2> QED
    BY <2>3 DEF Serial!Next
<1>3. CASE Kill
  <2>1. /\ pc # "done" /\ pc' = "done" /\ exit' = Killed
        /\ UNCHANGED <<status, wrote>>
    BY <1>3 DEF Kill, Stop, ghosts
  <2>2. /\ Phase # "ended" /\ Phase' = "ended" /\ Verdict' = "killed"
        /\ Report' = [o \in Ops |-> "none"]
    BY <2>1 DEF TypeInv, ControlInv, Phase, Verdict, Report, PlanPcs, Killed
  <2>3. Serial!Die
    BY <2>1, <2>2 DEF Serial!Die, Serial!End
  <2> QED
    BY <2>3 DEF Serial!Next
<1>4. CASE Rerun
  <2>1. /\ pc = "done" /\ pc' = "list" /\ wrote' = {}
        /\ status' = [o \in Ops |-> "none"]
    BY <1>4 DEF Rerun, Fresh
  <2>2. /\ Phase = "ended" /\ Phase' = "planning" /\ Verdict' = "running"
        /\ Report' = [o \in Ops |-> "none"]
    BY <2>1 DEF Phase, Verdict, Report, PlanPcs
  <2>3. Serial!Again
    BY <2>1, <2>2 DEF Serial!Again
  <2> QED
    BY <2>3 DEF Serial!Next
<1> QED
  BY <1>1, <1>2, <1>3, <1>4

\* Every run of apply-config, with every interleaving of edits, failures,
\* lost answers and kills, is a run of the abstract serial plan.
THEOREM SerialRefinement == Spec => ImplementsSerialPlan
<1>1. TypeInv /\ ReportInv /\ [Next]_vars => [Serial!Next]_serial
  <2> SUFFICES ASSUME TypeInv, ReportInv, [Next]_vars
               PROVE  Serial!Next \/ UNCHANGED serial
    BY DEF serial
  <2>1. CASE UNCHANGED vars
    BY <2>1 DEF vars, opVars, ghosts, serial, Phase, Report, Verdict
  <2>2. CASE Next
    BY <2>2, PlanSerial, ReadSerial, WriteSerial, OtherSerial
    DEF Next, Client, Fault
  <2> QED
    BY <2>1, <2>2
<1> QED
  BY <1>1, InitSerial, ReportInvariant, PTL
  DEF Spec, ImplementsSerialPlan, Serial!Spec, Serial!serialVars, serial

----------------------------------------------------------------------------
(* How many steps a run can take.                                          *)

\* The steps that can still be taken: by an operation from the call it has
\* reached; while the plan is executed; from share k on, while the NAS is
\* read, where a share takes three reads, one for each child and two turns
\* of the loop; in all.
StageLeft(at) ==
    CASE at = "createCall" -> 6
      [] at \in {"createCheck", "dirRead"} -> 5
      [] at \in {"scalarRead", "aclRead", "nfsRead", "dirCreate",
                 "dirRecheck"} -> 4
      [] at \in {"scalarSet", "aclSet", "nfsSet", "dirChild", "dirDelete"} -> 3
      [] at \in {"scalarInner", "aclInner", "nfsInner", "dirInfo",
                 "dirGone"} -> 2
      [] OTHER -> 1
ExecutionLeft ==
    IF stage = "idle" THEN 7 * Cardinality(Planned) + 1
    ELSE 7 * Cardinality(Planned) + StageLeft(stage) - 6
SharesLeft(k) == (N + 1 - k) * (D + 4)
MostExecution == 7 * Cardinality(Ops) + 1
StepsLeft ==
    CASE pc = "done" -> 0
      [] pc = "execute" -> ExecutionLeft
      [] pc = "build" -> MostExecution + 1
      [] pc = "lookup" -> MostExecution + 2
      [] pc = "caps" -> MostExecution + 3
      [] pc = "share" -> MostExecution + 4 + SharesLeft(cur)
      [] pc = "list" -> MostExecution + 5 + SharesLeft(cur)
      [] pc = "acl" -> MostExecution + 4 + SharesLeft(cur + 1) + D + 3
      [] pc = "nfs" -> MostExecution + 4 + SharesLeft(cur + 1) + D + 2
      [] pc = "dirs" -> MostExecution + 4 + SharesLeft(cur + 1)
                          + Cardinality(UnreadDirs(cur)) + 1
MostSteps == MostExecution + 5 + SharesLeft(1)

LEMMA SharesLeftBound ==
    ASSUME NEW k \in 1..(N + 1)
    PROVE  /\ SharesLeft(k) \in 0..SharesLeft(1)
           /\ k # N + 1 => /\ SharesLeft(k + 1) \in Nat
                           /\ SharesLeft(k) = SharesLeft(k + 1) + D + 4
<1>1. N \in Nat /\ D \in Nat /\ k \in Nat /\ 1 <= k /\ k <= N + 1
  BY SizeAssumption
<1>2. PICK turn \in Nat : turn = D + 4
  BY <1>1
<1>3. \A a, b, c \in Nat : a <= b => a * c \in Nat /\ a * c <= b * c
  OBVIOUS
<1>4. N + 1 - k \in Nat /\ N + 1 - k <= N + 1 - 1 /\ N + 1 - 1 \in Nat
  BY <1>1
<1>5. /\ (N + 1 - k) * turn \in Nat
      /\ (N + 1 - k) * turn <= (N + 1 - 1) * turn
      /\ (N + 1 - 1) * turn \in Nat
  BY <1>2, <1>3, <1>4
<1>6. ASSUME k # N + 1
      PROVE  /\ (N + 1 - (k + 1)) * turn \in Nat
             /\ (N + 1 - k) * turn = (N + 1 - (k + 1)) * turn + turn
  <2>1. PICK rest \in Nat : rest = N + 1 - (k + 1)
    BY <1>1, <1>6
  <2>2. N + 1 - k = rest + 1
    BY <1>1, <2>1
  <2>3. \A a, c \in Nat : a * c \in Nat /\ (a + 1) * c = a * c + c
    OBVIOUS
  <2> QED
    BY <1>2, <2>1, <2>2, <2>3
<1> QED
  BY <1>1, <1>2, <1>5, <1>6 DEF SharesLeft

LEMMA OpsFinite ==
    /\ IsFiniteSet(Ops) /\ Cardinality(Ops) \in Nat
    /\ \A some \in SUBSET Ops :
          /\ IsFiniteSet(some) /\ Cardinality(some) \in Nat
          /\ Cardinality(some) <= Cardinality(Ops)
<1>1. IsFiniteSet(1..N) /\ IsFiniteSet(1..(3 + D))
  BY SizeAssumption, FS_Interval
<1>2. IsFiniteSet(Ops)
  BY <1>1, FS_Product DEF Ops, Slots
<1> QED
  BY <1>2, FS_Subset, FS_CardinalityType

LEMMA UnreadDirsBound ==
    ASSUME NEW some \in SUBSET Dirs
    PROVE  IsFiniteSet(some) /\ Cardinality(some) \in 0..D
<1>1. D \in Nat /\ 1 \in Int /\ D \in Int
  BY SizeAssumption
<1>2. IsFiniteSet(1..D) /\ Cardinality(1..D) = IF 1 > D THEN 0 ELSE D - 1 + 1
  BY <1>1, FS_Interval
<1>3. Cardinality(1..D) = D
  BY <1>1, <1>2
<1>4. /\ IsFiniteSet(some) /\ Cardinality(some) <= Cardinality(1..D)
  BY <1>2, FS_Subset
<1>5. Cardinality(some) \in Nat
  BY <1>4, FS_CardinalityType
<1> QED
  BY <1>1, <1>3, <1>4, <1>5

LEMMA ExecutionBound ==
    ASSUME TypeInv, ReportInv, pc = "execute"
    PROVE  ExecutionLeft \in 1..MostExecution
<1>1. Planned \in SUBSET Ops
  BY DEF Planned
<1>2. PICK c \in Nat : c = Cardinality(Planned) /\ c <= Cardinality(Ops)
  BY <1>1, OpsFinite
<1>3. StageLeft(stage) \in 1..6
  BY DEF StageLeft
<1>4. stage # "idle" => c >= 1
  <2>1. stage # "idle" => Planned # {}
    BY DEF ReportInv, ExecutionInv
  <2>2. IsFiniteSet(Planned)
    BY <1>1, OpsFinite
  <2>3. Planned # {} => Cardinality(Planned) # 0
    BY <2>2, FS_EmptySet
  <2> QED
    BY <1>2, <2>1, <2>3
<1>5. PICK ops \in Nat : ops = Cardinality(Ops) /\ c <= ops
  BY <1>2, OpsFinite
<1> QED
  BY <1>2, <1>3, <1>4, <1>5 DEF ExecutionLeft, MostExecution

LEMMA StepsBound ==
    TypeInv /\ ReportInv =>
        StepsLeft \in 0..MostSteps /\ (StepsLeft = 0 <=> pc = "done")
<1> SUFFICES ASSUME TypeInv, ReportInv
             PROVE  StepsLeft \in 0..MostSteps /\ (StepsLeft = 0 <=> pc = "done")
  OBVIOUS
<1>1. D \in Nat /\ N \in Nat /\ cur \in 1..(N + 1) /\ pc \in PlanPcs \cup {"execute", "done"}
  BY SizeAssumption DEF TypeInv, ControlInv, DataInv
<1>2. PICK ops \in Nat : ops = MostExecution /\ ops >= 1
  BY OpsFinite DEF MostExecution
<1>3. 1 \in 1..(N + 1)
  BY <1>1
<1>4. PICK all \in Nat : all = SharesLeft(1)
  BY <1>3, SharesLeftBound
<1>5. SharesLeft(cur) \in 0..all
  BY <1>1, <1>4, SharesLeftBound
<1>6. ASSUME pc \in {"acl", "nfs", "dirs"}
      PROVE  SharesLeft(cur + 1) \in Nat /\ SharesLeft(cur + 1) + D + 4 <= all
  <2>1. cur # N + 1
    BY <1>1, <1>6 DEF TypeInv, ControlInv
  <2>2. SharesLeft(cur + 1) \in Nat /\ SharesLeft(cur) = SharesLeft(cur + 1) + D + 4
    BY <1>1, <2>1, SharesLeftBound
  <2> QED
    BY <1>1, <1>4, <1>5, <2>2
<1>7. Cardinality(UnreadDirs(cur)) \in 0..D
  BY UnreadDirsBound DEF UnreadDirs, ManagedDirs
<1>8. MostSteps = ops + 5 + all
  BY <1>2, <1>4 DEF MostSteps
<1>9. CASE pc = "execute"
  BY <1>2, <1>4, <1>8, <1>9, ExecutionBound DEF StepsLeft
<1>10. CASE pc \in {"done", "build", "lookup", "caps"}
  <2>1. StepsLeft = IF pc = "done" THEN 0 ELSE IF pc = "build" THEN ops + 1
                    ELSE IF pc = "lookup" THEN ops + 2 ELSE ops + 3
    BY <1>2, <1>10, Zenon DEF StepsLeft
  <2> QED
    BY <1>2, <1>4, <1>8, <1>10, <2>1
<1>11. CASE pc \in {"share", "list"}
  <2>1. StepsLeft = IF pc = "share" THEN ops + 4 + SharesLeft(cur)
                    ELSE ops + 5 + SharesLeft(cur)
    BY <1>2, <1>11, Zenon DEF StepsLeft
  <2> QED
    BY <1>2, <1>4, <1>5, <1>8, <1>11, <2>1
<1>12. CASE pc \in {"acl", "nfs", "dirs"}
  <2>1. StepsLeft =
            IF pc = "acl" THEN ops + 4 + SharesLeft(cur + 1) + D + 3
            ELSE IF pc = "nfs" THEN ops + 4 + SharesLeft(cur + 1) + D + 2
            ELSE ops + 4 + SharesLeft(cur + 1) + Cardinality(UnreadDirs(cur)) + 1
    BY <1>2, <1>12, Zenon DEF StepsLeft
  <2> QED
    BY <1>1, <1>2, <1>4, <1>6, <1>7, <1>8, <1>12, <2>1
<1> QED
  BY <1>1, <1>9, <1>10, <1>11, <1>12 DEF PlanPcs

LEMMA EndShortens ==
    ASSUME TypeInv, ReportInv, pc # "done", pc' = "done"
    PROVE  StepsLeft' < StepsLeft
<1>1. StepsLeft' = 0
  BY DEF StepsLeft
<1>2. StepsLeft \in 0..MostSteps /\ StepsLeft # 0
  BY StepsBound
<1>3. SharesLeft(1) \in Nat /\ MostExecution \in Nat
  BY SizeAssumption, SharesLeftBound, OpsFinite DEF MostExecution
<1> QED
  BY <1>1, <1>2, <1>3 DEF MostSteps

\* The loop over the shares goes on to the next.
LEMMA NextShareShortens ==
    ASSUME TypeInv, cur \in Shares, pc \in {"share", "dirs"}, NextShare
    PROVE  StepsLeft' < StepsLeft
<1>1. D \in Nat /\ N \in Nat /\ cur \in 1..N /\ cur' = cur + 1 /\ pc' = "share"
  BY SizeAssumption DEF NextShare
<1>2. PICK rest \in Nat : rest = SharesLeft(cur + 1) /\ SharesLeft(cur) = rest + D + 4
  <2>1. cur \in 1..(N + 1) /\ cur # N + 1
    BY <1>1
  <2> QED
    BY <2>1, SharesLeftBound
<1>3. PICK most \in Nat : most = MostExecution
  BY OpsFinite DEF MostExecution
<1>4. SharesLeft(cur') = rest
  BY <1>1, <1>2
<1>5. StepsLeft' = most + 4 + rest
  BY <1>1, <1>3, <1>4 DEF StepsLeft
<1>6. CASE pc = "share"
  <2>1. StepsLeft = most + 4 + (rest + D + 4)
    BY <1>2, <1>3, <1>6 DEF StepsLeft
  <2> QED
    BY <1>1, <1>5, <2>1
<1>7. CASE pc = "dirs"
  <2>1. StepsLeft = most + 4 + rest + Cardinality(UnreadDirs(cur)) + 1
    BY <1>2, <1>3, <1>7, Zenon DEF StepsLeft
  <2>2. Cardinality(UnreadDirs(cur)) \in 0..D
    BY UnreadDirsBound DEF UnreadDirs, ManagedDirs
  <2> QED
    BY <1>1, <1>5, <2>1, <2>2
<1> QED
  BY <1>6, <1>7

\* The three reads of a share, one after the other.
LEMMA ReadShareShortens ==
    ASSUME TypeInv, ReportInv, ReadState \/ ReadAcl \/ ReadNfs, pc' # "done"
    PROVE  StepsLeft' < StepsLeft
<1>1. /\ D \in Nat /\ N \in Nat /\ cur \in 1..N /\ cur' = cur
      /\ \/ pc = "share" /\ pc' = "acl"
         \/ pc = "acl" /\ pc' = "nfs"
         \/ pc = "nfs" /\ pc' = "dirs"
  BY SizeAssumption DEF ReadState, ReadAcl, ReadNfs, Stop, TypeInv, ControlInv
<1>2. PICK rest \in Nat : rest = SharesLeft(cur + 1) /\ SharesLeft(cur) = rest + D + 4
  <2>1. cur \in 1..(N + 1) /\ cur # N + 1
    BY <1>1
  <2> QED
    BY <2>1, SharesLeftBound
<1>3. PICK most \in Nat : most = MostExecution
  BY OpsFinite DEF MostExecution
<1>4. SharesLeft(cur' + 1) = rest
  BY <1>1, <1>2
<1>5. CASE pc = "share"
  <2>1. StepsLeft = most + 4 + (rest + D + 4) /\ StepsLeft' = most + 4 + rest + D + 3
    BY <1>1, <1>2, <1>3, <1>4, <1>5 DEF StepsLeft
  <2> QED
    BY <1>1, <2>1
<1>6. CASE pc = "acl"
  <2>1. StepsLeft = most + 4 + rest + D + 3 /\ StepsLeft' = most + 4 + rest + D + 2
    BY <1>1, <1>2, <1>3, <1>4, <1>6 DEF StepsLeft
  <2> QED
    BY <1>1, <2>1
<1>7. CASE pc = "nfs"
  <2>1. PICK unread \in Nat : unread = Cardinality(UnreadDirs(cur)') /\ unread <= D
    <3>1. UnreadDirs(cur)' \in SUBSET Dirs
      BY DEF UnreadDirs, ManagedDirs
    <3> QED
      BY <1>1, <3>1, UnreadDirsBound
  <2>2. StepsLeft = most + 4 + rest + D + 2
    BY <1>2, <1>3, <1>7 DEF StepsLeft
  <2>3. StepsLeft' = most + 4 + rest + unread + 1
    BY <1>1, <1>3, <1>4, <1>7, <2>1 DEF StepsLeft
  <2> QED
    BY <1>1, <2>1, <2>2, <2>3
<1> QED
  BY <1>1, <1>5, <1>6, <1>7

\* A child is looked at once.
LEMMA ReadDirShortens ==
    ASSUME TypeInv, ReportInv, ReadDir, pc' # "done"
    PROVE  StepsLeft' < StepsLeft
<1>1. PICK d \in UnreadDirs(cur) :
          /\ pre' = [pre EXCEPT ![cur][d] =
                       [kind |-> nas[cur].dirs[d], volume |-> nas[cur].volume]]
          /\ pc = "dirs" /\ UNCHANGED <<doc, cur, pc>>
  BY DEF ReadDir, Stop
<1>2. /\ D \in Nat /\ N \in Nat /\ cur \in 1..N
      /\ nas \in [Shares -> LiveShare] /\ pre \in [Shares -> [Dirs -> DirPreflight]]
      /\ d \in Dirs
  BY <1>1, SizeAssumption
  DEF TypeInv, ControlInv, DataInv, UnreadDirs, ManagedDirs
<1>3. nas[cur].dirs[d] # "unread"
  BY <1>2 DEF LiveShare, DirKinds
<1>4. UnreadDirs(cur)' = UnreadDirs(cur) \ {d}
  <2>1. ManagedDirs(cur)' = ManagedDirs(cur)
    BY <1>1 DEF ManagedDirs, Want
  <2>2. /\ pre'[cur][d].kind # "unread"
        /\ \A e \in Dirs \ {d} : pre'[cur][e] = pre[cur][e]
    BY <1>1, <1>2, <1>3
  <2> QED
    BY <1>1, <2>1, <2>2 DEF UnreadDirs, ManagedDirs
<1>5. PICK unread \in Nat : unread = Cardinality(UnreadDirs(cur))
  <2>1. UnreadDirs(cur) \in SUBSET Dirs
    BY DEF UnreadDirs, ManagedDirs
  <2> QED
    BY <1>2, <2>1, UnreadDirsBound
<1>6. Cardinality(UnreadDirs(cur) \ {d}) = unread - 1
  <2>1. IsFiniteSet(UnreadDirs(cur))
    BY UnreadDirsBound DEF UnreadDirs, ManagedDirs
  <2> QED
    BY <1>1, <1>5, <2>1, FS_RemoveElement
<1>7. PICK before \in Nat : before = MostExecution + 4 + SharesLeft(cur + 1)
  <2>1. MostExecution \in Nat
    BY OpsFinite DEF MostExecution
  <2>2. SharesLeft(cur + 1) \in Nat
    <3>1. cur \in 1..(N + 1) /\ cur # N + 1
      BY <1>2
    <3> QED
      BY <3>1, SharesLeftBound
  <2> QED
    BY <2>1, <2>2
<1>8. StepsLeft = before + unread + 1
  BY <1>1, <1>5, <1>7, Zenon DEF StepsLeft
<1>9. before = MostExecution + 4 + SharesLeft(cur' + 1)
  BY <1>1, <1>7
<1>10. StepsLeft' = before + (unread - 1) + 1
  BY <1>1, <1>4, <1>6, <1>9 DEF StepsLeft
<1> QED
  BY <1>5, <1>7, <1>8, <1>10

LEMMA PlanShortens ==
    ASSUME TypeInv, ReportInv, Plan
    PROVE  StepsLeft' < StepsLeft
<1>1. pc # "done"
  BY DEF Plan, List, SkipShare, PlanNewShare, RejectVolume, ReadState, ReadAcl,
         ReadNfs, ReadDir, DirsRead, SharesRead, PreflightCreate,
         LookupPrincipals, Build
<1>2. CASE pc' = "done"
  BY <1>1, <1>2, EndShortens
<1>3. PICK most \in Nat : most = MostExecution
  BY OpsFinite DEF MostExecution
<1>4. PICK rest \in Nat : rest = SharesLeft(cur)
  BY SharesLeftBound DEF TypeInv, DataInv
<1>5. CASE List
  <2>1. pc = "list" /\ pc' = "share" /\ cur' = cur
    BY <1>5 DEF List
  <2>2. StepsLeft = most + 5 + rest /\ StepsLeft' = most + 4 + rest
    BY <1>3, <1>4, <2>1 DEF StepsLeft
  <2> QED
    BY <2>2
<1>6. CASE (SkipShare \/ PlanNewShare \/ DirsRead) /\ pc' # "done"
  <2>1. cur \in Shares /\ pc \in {"share", "dirs"} /\ NextShare
    BY <1>6 DEF SkipShare, PlanNewShare, DirsRead, Stop, TypeInv, ControlInv
  <2> QED
    BY <2>1, NextShareShortens
<1>7. CASE (ReadState \/ ReadAcl \/ ReadNfs) /\ pc' # "done"
  BY <1>7, ReadShareShortens
<1>8. CASE ReadDir /\ pc' # "done"
  BY <1>8, ReadDirShortens
<1>9. CASE SharesRead
  <2>1. pc = "share" /\ pc' \in {"caps", "lookup"}
    BY <1>9 DEF SharesRead
  <2>2. StepsLeft = most + 4 + rest /\ StepsLeft' \in {most + 3, most + 2}
    BY <1>3, <1>4, <2>1 DEF StepsLeft
  <2> QED
    BY <2>2
<1>10. CASE PreflightCreate
  <2>1. StepsLeft = most + 3 /\ StepsLeft' = most + 2
    BY <1>3, <1>10 DEF PreflightCreate, StepsLeft
  <2> QED
    BY <2>1
<1>11. CASE LookupPrincipals /\ pc' # "done"
  <2>1. pc = "lookup" /\ pc' = "build"
    BY <1>11 DEF LookupPrincipals, Stop
  <2>2. StepsLeft = most + 2 /\ StepsLeft' = most + 1
    BY <1>3, <2>1 DEF StepsLeft
  <2> QED
    BY <2>2
<1>12. CASE Build /\ pc' # "done"
  <2>1. pc = "build" /\ pc' = "execute" /\ stage' = "idle"
    BY <1>12 DEF Build, Stop, opVars, ReportInv, PlanningInv, PlanPcs
  <2>2. PICK ops \in Nat : ops = Cardinality(Ops)
    BY OpsFinite
  <2>3. PICK planned \in Nat : planned = Cardinality(Planned') /\ planned <= ops
    <3>1. Planned' \in SUBSET Ops
      BY DEF Planned
    <3> QED
      BY <2>2, <3>1, OpsFinite
  <2>4. StepsLeft' = 7 * planned + 1
    BY <2>1, <2>3 DEF StepsLeft, ExecutionLeft
  <2>5. StepsLeft = 7 * ops + 1 + 1
    BY <2>1, <2>2 DEF StepsLeft, MostExecution
  <2> QED
    BY <2>3, <2>4, <2>5
<1>13. RejectVolume => pc' = "done"
  BY DEF RejectVolume, Stop
<1> QED
  BY <1>2, <1>5, <1>6, <1>7, <1>8, <1>9, <1>10, <1>11, <1>12, <1>13
  DEF Plan

\* A step of an operation comes nearer to its last call, or is the last.
Onwards ==
    \/ \E next \in ReadStages \cup WriteStages :
          Goto(next) /\ StageLeft(next) < StageLeft(stage)
    \/ Succeed
    \/ pc' = "done"

LEMMA OpShortens ==
    ASSUME TypeInv, ReportInv, pc = "execute", stage # "idle", Onwards
    PROVE  StepsLeft' < StepsLeft
<1>1. op \in Planned /\ IsFiniteSet(Planned) /\ status \in [Ops -> Statuses]
  <2>1. Planned \in SUBSET Ops
    BY DEF Planned
  <2> QED
    BY <2>1, OpsFinite DEF ReportInv, ExecutionInv, TypeInv, ControlInv
<1>2. PICK planned \in Nat : planned = Cardinality(Planned)
  BY <1>1, FS_CardinalityType
<1>3. PICK here \in 1..6 : here = StageLeft(stage)
  BY DEF StageLeft
<1>4. StepsLeft = 7 * planned + here - 6
  BY <1>2, <1>3 DEF StepsLeft, ExecutionLeft
<1>5. ASSUME NEW next \in ReadStages \cup WriteStages, Goto(next),
             StageLeft(next) < StageLeft(stage)
      PROVE  StepsLeft' < StepsLeft
  <2>1. PICK there \in 1..6 : there = StageLeft(next)
    BY DEF StageLeft
  <2>2. /\ pc' = "execute" /\ stage' = next /\ next # "idle" /\ Planned' = Planned
    BY <1>5 DEF Goto, Planned, ReadStages, WriteStages
  <2>3. StepsLeft' = 7 * planned + there - 6
    BY <1>2, <2>1, <2>2 DEF StepsLeft, ExecutionLeft
  <2> QED
    BY <1>2, <1>3, <1>4, <1>5, <2>1, <2>3
<1>6. CASE Succeed
  <2>1. Planned' = Planned \ {op}
    BY <1>1, <1>6 DEF Succeed, Planned
  <2>2. Cardinality(Planned \ {op}) = planned - 1
    BY <1>1, <1>2, FS_RemoveElement
  <2>3. pc' = "execute" /\ stage' = "idle"
    BY <1>6 DEF Succeed
  <2>4. StepsLeft' = 7 * (planned - 1) + 1
    BY <2>1, <2>2, <2>3 DEF StepsLeft, ExecutionLeft
  <2> QED
    BY <1>2, <1>3, <1>4, <2>4
<1>7. CASE pc' = "done"
  BY <1>7, EndShortens
<1> QED
  BY <1>5, <1>6, <1>7 DEF Onwards

LEMMA ReadOnwards ==
    ASSUME Read
    PROVE  pc = "execute" /\ stage # "idle" /\ Onwards
<1> USE DEF ReadStages, WriteStages, At, Expect, ExpectLast, Fail, Stop
<1>1. pc = "execute" /\ stage # "idle"
  BY DEF Read, CheckCreated, ReadScalars, VerifyScalarsSet, VerifyScalars,
         ReadAclBefore, VerifyAclSet, VerifyAcl, ReadNfsBefore, VerifyNfsSaved,
         VerifyNfs, ReadNewDir, VerifyDirChild, VerifyDirPath, RecheckDir,
         VerifyDirGone, VerifyDir, ReadUnavailable
<1>2. CASE CheckCreated \/ ReadScalars \/ VerifyScalarsSet \/ VerifyScalars
  BY <1>2 DEF CheckCreated, ReadScalars, VerifyScalarsSet, VerifyScalars,
              Abort, Onwards, StageLeft
<1>3. CASE ReadAclBefore \/ VerifyAclSet \/ VerifyAcl
  BY <1>3 DEF ReadAclBefore, VerifyAclSet, VerifyAcl, Onwards, StageLeft
<1>4. CASE ReadNfsBefore \/ VerifyNfsSaved \/ VerifyNfs
  BY <1>4 DEF ReadNfsBefore, VerifyNfsSaved, VerifyNfs, Onwards, StageLeft
<1>5. CASE ReadNewDir
  <2>1. DirStage(OpItem, Live.dirs[OpDir]) \in {"dirCreate", "dirRecheck", "dirVerify"}
    BY DEF DirStage
  <2> QED
    BY <1>5, <2>1 DEF ReadNewDir, Onwards, StageLeft
<1>6. CASE VerifyDirChild \/ VerifyDirPath \/ VerifyDir
  BY <1>6 DEF VerifyDirChild, VerifyDirPath, VerifyDir, Onwards, StageLeft
<1>7. CASE RecheckDir \/ VerifyDirGone
  BY <1>7 DEF RecheckDir, VerifyDirGone, Onwards, StageLeft
<1>8. CASE ReadUnavailable
  BY <1>8 DEF ReadUnavailable, Broken, Abort, Onwards
<1> QED
  BY <1>1, <1>2, <1>3, <1>4, <1>5, <1>6, <1>7, <1>8 DEF Read

LEMMA WriteOnwards ==
    ASSUME Write
    PROVE  pc = "execute" /\ stage # "idle" /\ Onwards
<1> USE DEF ReadStages, WriteStages, At
<1>1. CASE WriteRefused
  BY <1>1 DEF WriteRefused, Fail, Stop, Onwards
<1>2. CASE DeleteShare
  BY <1>2 DEF DeleteShare, Onwards
<1>3. CASE ~ WriteRefused /\ ~ DeleteShare
  BY <1>3
  DEF Write, CreateShare, SetScalars, SetAcl, SaveNfs, CreateDir, DeleteDir,
      WriteAnswered, Onwards, StageLeft
<1> QED
  BY <1>1, <1>2, <1>3

\* A failed call and a kill are the end of the run.
LEMMA FaultEnds == Fault => pc # "done" /\ pc' = "done"
  BY DEF Fault, PlanFault, PlanCalls, MakesClient, ReadFault, WriteLost, Kill, KillInWrite,
         Broken, Abort, Fail, Stop

LEMMA StepShortens ==
    ASSUME TypeInv, ReportInv
    PROVE  /\ Client \/ Fault => StepsLeft' < StepsLeft
           /\ Edit => StepsLeft' = StepsLeft
<1>1. ASSUME Plan PROVE StepsLeft' < StepsLeft
  BY <1>1, PlanShortens
<1>2. ASSUME StartOp PROVE StepsLeft' < StepsLeft
  <2>1. PICK o \in Planned : stage' = FirstStage(o)
    BY <1>2 DEF StartOp
  <2>2. stage' # "idle" /\ pc = "execute" /\ stage = "idle" /\ UNCHANGED <<pc, status>>
    <3>1. o \in Ops
      BY DEF Planned
    <3>2. FirstStage(o) # "idle"
      BY <3>1, FirstStageType DEF ReadStages, WriteStages
    <3> QED
      BY <1>2, <2>1, <3>2 DEF StartOp
  <2>3. Planned' = Planned
    BY <2>2 DEF Planned
  <2>4. PICK planned \in Nat : planned = Cardinality(Planned)
    <3>1. Planned \in SUBSET Ops
      BY DEF Planned
    <3> QED
      BY <3>1, OpsFinite
  <2>5. PICK there \in 1..6 : there = StageLeft(stage')
    BY DEF StageLeft
  <2>6. StepsLeft = 7 * planned + 1
    BY <2>2, <2>4 DEF StepsLeft, ExecutionLeft
  <2>7. StepsLeft' = 7 * planned + there - 6
    BY <2>2, <2>3, <2>4, <2>5 DEF StepsLeft, ExecutionLeft
  <2> QED
    BY <2>4, <2>5, <2>6, <2>7
<1>3. ASSUME FinishPlan PROVE StepsLeft' < StepsLeft
  BY <1>3, EndShortens DEF FinishPlan, Stop
<1>4. ASSUME Read PROVE StepsLeft' < StepsLeft
  BY <1>4, ReadOnwards, OpShortens
<1>5. ASSUME Write PROVE StepsLeft' < StepsLeft
  BY <1>5, WriteOnwards, OpShortens
<1>6. ASSUME Fault PROVE StepsLeft' < StepsLeft
  BY <1>6, FaultEnds, EndShortens
<1>7. ASSUME Edit PROVE StepsLeft' = StepsLeft
  <2>1. UNCHANGED <<pc, cur, doc, pre, status, stage>>
    BY <1>7 DEF Edit, planVars, opVars
  <2>2. Planned' = Planned /\ UnreadDirs(cur)' = UnreadDirs(cur)
    BY <2>1 DEF Planned, UnreadDirs, ManagedDirs, Want
  <2> QED
    BY <2>1, <2>2 DEF StepsLeft, ExecutionLeft
<1> QED
  BY <1>1, <1>2, <1>3, <1>4, <1>5, <1>6, <1>7 DEF Client

\* Every run of apply-config is finite, whatever the NAS answers and whoever
\* edits: it takes at most seven steps for each operation there can be, and
\* for each share four and one for each child; each step of the client, and
\* each failure, leaves fewer, an edit leaves as many, and none is left only
\* at the end.  So a run that never ends is one whose client stands still.
THEOREM ApplyWorkIsBounded ==
    Spec => /\ [](StepsLeft \in 0..MostSteps /\ (StepsLeft = 0 <=> pc = "done"))
            /\ [][/\ Client \/ Fault => StepsLeft' < StepsLeft
                 /\ Edit => StepsLeft' = StepsLeft]_vars
<1> DEFINE Shorter == /\ Client \/ Fault => StepsLeft' < StepsLeft
                      /\ Edit => StepsLeft' = StepsLeft
<1>1. TypeInv /\ ReportInv => [Shorter]_vars
  BY StepShortens
<1> QED
  BY <1>1, StepsBound, ReportInvariant, PTL
=============================================================================
