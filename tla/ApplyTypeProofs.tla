-------------------------- MODULE ApplyTypeProofs --------------------------
(***************************************************************************)
(* Type correctness of ApplyConfig, for every number of shares and         *)
(* directories, every document, every state of the NAS and every budget of *)
(* edits and faults.                                                       *)
(***************************************************************************)
EXTENDS ApplyConfig, TLAPS

USE DEF Shares, Dirs

\* The record nothing has been read into is a share like another.
LEMMA VacantType == Vacant \in LiveShare
<1>1. (CHOOSE v \in Volumes : TRUE) \in Volumes
  BY VolumeAssumption
<1>2. Unavailable \in Quotas
  BY DEF Quotas
<1> QED
  BY <1>1, <1>2, DescAssumption, RulesAssumption
     DEF Vacant, LiveShare, Access, DirKinds

\* An effective description is one a share can have.
LEMMA EffectiveDescType ==
    ASSUME NEW want \in DesiredShare, NEW exists \in BOOLEAN,
           NEW d \in Descs
    PROVE  EffectiveDesc(want, exists, d) \in Descs
  BY DescAssumption DEF EffectiveDesc, DesiredShare

LEMMA QuotaRequestType ==
    ASSUME NEW want \in DesiredShare
    PROVE  QuotaRequest(want) \in Quotas
  BY DEF QuotaRequest, DesiredShare, Quotas

LEMMA AclGoalType ==
    ASSUME NEW want \in DesiredShare
    PROVE  AclGoal(want) \in [Accounts -> Access]
<1>1. want.acl \in [Principals -> Access]
  BY DEF DesiredShare
<1> QED
  BY <1>1 DEF AclGoal, Accounts, Access

\* The stages that need a directory operation.
DirStages ==
    {"dirRead", "dirCreate", "dirChild", "dirInfo", "dirRecheck",
     "dirDelete", "dirGone", "dirVerify"}

\* The inductive strengthening of TypeOK: while a share is being read it is
\* one of the shares; while an operation is under way it is one of the
\* plan's, and a directory stage belongs to a directory operation.
ControlInv ==
    /\ pc \in PlanPcs \cup {"execute", "done"}
    /\ status \in [Ops -> Statuses]
    /\ stage \in {"idle"} \cup ReadStages \cup WriteStages
    /\ exit \in ExitCodes
    /\ pc \in {"acl", "nfs", "dirs"} => cur \in Shares
    /\ stage # "idle" => op \in Ops
    /\ stage \in DirStages => OpDir \in Dirs
DataInv ==
    /\ doc \in Document
    /\ nas \in [Shares -> LiveShare]
    /\ cur \in 1..(N + 1)
    /\ inv \in [Shares -> LiveShare]
    /\ seen \in [Shares -> LiveShare]
    /\ pre \in [Shares -> [Dirs -> DirPreflight]]
    /\ op \in Ops \cup {NoOp}
    /\ snap \in LiveShare
GhostInv ==
    /\ wrote \subseteq Ops
    /\ edited \in BOOLEAN /\ clean \in BOOLEAN
    /\ edits \in 0..MaxEdits /\ faults \in 0..MaxFaults
TypeInv == ControlInv /\ DataInv /\ GhostInv

LEMMA TypeInvImpliesTypeOK == TypeInv => TypeOK
  BY DEF TypeInv, ControlInv, DataInv, GhostInv, TypeOK

LEMMA FirstStageType ==
    ASSUME NEW o \in Ops
    PROVE  /\ FirstStage(o) \in ReadStages \cup WriteStages
           /\ FirstStage(o) \in DirStages => o[2] - 3 \in Dirs
<1>1. o[1] \in 1..N /\ o[2] \in 1..(3 + D) /\ D \in Nat
  BY SizeAssumption DEF Ops, Slots
<1>2. o[2] > 3 => o[2] - 3 \in Dirs
  BY <1>1
<1>3. CASE o[2] = 2
  BY <1>3 DEF FirstStage, Family, MainSlot, AclSlot, NfsSlot, ReadStages, WriteStages, DirStages
<1>4. CASE o[2] = 3
  BY <1>4 DEF FirstStage, Family, MainSlot, AclSlot, NfsSlot, ReadStages, WriteStages, DirStages
<1>5. CASE o[2] > 3
  <2>1. Family(o) = "directory"
    BY <1>5, <1>1 DEF Family, MainSlot, AclSlot, NfsSlot, MainFamily
  <2>2. FirstStage(o) \in {"dirRead", "dirCreate", "dirRecheck", "dirVerify"}
    BY <2>1 DEF FirstStage, DirStage
  <2> QED
    BY <2>2, <1>2, <1>5 DEF ReadStages, WriteStages
<1>6. CASE o[2] = 1
  <2>1. Family(o) \in {"delete", "create", "scalars"}
    BY <1>6 DEF Family, MainSlot, AclSlot, NfsSlot, MainFamily
  <2>2. FirstStage(o) \in {"deleteCall", "createCall", "scalarRead"}
    BY <2>1 DEF FirstStage
  <2> QED
    BY <2>2 DEF ReadStages, WriteStages, DirStages
<1> QED
  BY <1>1, <1>3, <1>4, <1>5, <1>6

----------------------------------------------------------------------------
(* Type correctness.                                                       *)

LEMMA UnreadType == Unread \in DirPreflight
<1>1. (CHOOSE v \in Volumes : TRUE) \in Volumes
  BY VolumeAssumption
<1> QED
  BY <1>1 DEF Unread, DirPreflight

LEMMA InitType == Init => TypeInv
<1> SUFFICES ASSUME Init PROVE TypeInv
  OBVIOUS
<1>1. ControlInv
  BY DEF Init, ControlInv, PlanPcs, Statuses, ExitCodes, DirStages, ReadStages, WriteStages
<1>2. DataInv
  BY VacantType, UnreadType, SizeAssumption, DocumentAssumption, StartAssumption
  DEF Init, DataInv
<1>3. GhostInv
  <2>1. edits \in 0..MaxEdits /\ faults \in 0..MaxFaults
    BY BoundAssumption DEF Init
  <2>2. wrote \subseteq Ops /\ edited \in BOOLEAN /\ clean \in BOOLEAN
    BY Zenon DEF Init
  <2> QED
    BY <2>1, <2>2 DEF GhostInv
<1> QED
  BY <1>1, <1>2, <1>3 DEF TypeInv

\* What every step of an operation may do to the control state.
LEMMA ControlStep ==
    ASSUME TypeInv, stage # "idle", UNCHANGED <<op, cur>>,
           NEW next \in ReadStages \cup WriteStages,
           next \in DirStages => OpDir \in Dirs,
           \/ Goto(next) \/ Succeed \/ Fail("FAILED") \/ Fail("UNKNOWN") \/ Abort
           \/ Stop(Killed) /\ UNCHANGED <<status, stage>>
    PROVE  ControlInv'
<1>1. OpDir' = OpDir
  BY DEF OpDir
<1>2. CASE Goto(next)
  BY <1>1, <1>2 DEF TypeInv, ControlInv, Goto
<1>3. CASE Succeed
  <2>1. status' \in [Ops -> Statuses]
    BY <1>3 DEF TypeInv, ControlInv, Succeed, Statuses
  <2> QED
    BY <2>1, <1>1, <1>3 DEF TypeInv, ControlInv, Succeed, DirStages
<1>4. ASSUME NEW how \in {"FAILED", "UNKNOWN"}, Fail(how)
      PROVE  ControlInv'
  <2>1. status' \in [Ops -> Statuses]
    BY <1>4 DEF TypeInv, ControlInv, Fail, Statuses
  <2> QED
    BY <2>1, <1>1, <1>4 DEF TypeInv, ControlInv, Fail, Stop, ExitCodes, DirStages
<1>5. CASE Abort
  BY <1>1, <1>5 DEF TypeInv, ControlInv, Abort, Stop, ExitCodes
<1>6. CASE Stop(Killed) /\ UNCHANGED <<status, stage>>
  BY <1>1, <1>6 DEF TypeInv, ControlInv, Stop, ExitCodes
<1> QED
  BY <1>2, <1>3, <1>4, <1>5, <1>6

\* The steps of build_apply_plan.
LEMMA PlanType == TypeInv /\ Plan => TypeInv'
<1> SUFFICES ASSUME TypeInv, Plan PROVE TypeInv'
  OBVIOUS
<1> USE DEF TypeInv
<1>1. CASE List
  BY <1>1 DEF List, ControlInv, DataInv, GhostInv, PlanPcs, opVars, ghosts, budgets, OpDir
<1>2. CASE SkipShare
  BY <1>2, SizeAssumption
  DEF SkipShare, NextShare, ControlInv, DataInv, GhostInv, PlanPcs, opVars,
      ghosts, budgets, OpDir
<1>3. CASE PlanNewShare
  <2> DEFINE row == [d \in Dirs |->
                       IF d \in ManagedDirs(cur)
                       THEN [kind |-> "missing", volume |-> Want(cur).volume]
                       ELSE pre[cur][d]]
  <2>1. cur \in Shares /\ Want(cur).volume \in Volumes
    BY <1>3 DEF PlanNewShare, Want, DataInv, Document, DesiredShare
  <2>2. [kind |-> "missing", volume |-> Want(cur).volume] \in DirPreflight
    BY <2>1 DEF DirPreflight, DirKinds
  <2>3. row \in [Dirs -> DirPreflight]
    BY <2>1, <2>2 DEF DataInv
  <2>4. pre' = pre \/ pre' = [pre EXCEPT ![cur] = row]
    BY <1>3 DEF PlanNewShare
  <2>5. pre' \in [Shares -> [Dirs -> DirPreflight]]
    BY <2>1, <2>3, <2>4 DEF DataInv
  <2>6. ControlInv'
    BY <1>3
    DEF PlanNewShare, NextShare, Stop, ControlInv, PlanPcs, ExitCodes, opVars, OpDir
  <2> HIDE DEF row
  <2>11. cur' = cur \/ cur' = cur + 1
    BY <1>3 DEF PlanNewShare, NextShare
  <2>7. cur' \in 1..(N + 1)
    BY <2>1, <2>11, SizeAssumption
  <2>9. UNCHANGED <<doc, nas, inv, seen, op, snap>>
    BY <1>3 DEF PlanNewShare, opVars
  <2>10. DataInv'
    BY <2>5, <2>7, <2>9 DEF DataInv
  <2>8. GhostInv'
    BY <1>3 DEF PlanNewShare, GhostInv, ghosts, budgets
  <2> QED
    BY <2>6, <2>8, <2>10
<1>4. CASE RejectVolume
  BY <1>4
  DEF RejectVolume, Stop, ControlInv, DataInv, GhostInv, PlanPcs, ExitCodes,
      planVars, opVars, ghosts, budgets, OpDir
<1>5. CASE ReadState
  BY <1>5
  DEF ReadState, Stop, ControlInv, DataInv, GhostInv, PlanPcs, ExitCodes,
      opVars, ghosts, budgets, OpDir
<1>6. CASE ReadAcl
  <2> DEFINE read == [seen[cur] EXCEPT !.acl = nas[cur].acl]
  <2>1. cur \in Shares /\ nas[cur] \in LiveShare /\ seen[cur] \in LiveShare
    BY <1>6 DEF ReadAcl, ControlInv, DataInv
  <2>2. nas[cur].acl \in [Accounts -> Access]
    BY <2>1 DEF LiveShare
  <2>3. read \in LiveShare
    BY <2>1, <2>2 DEF LiveShare
  <2>4. seen' = seen \/ seen' = [seen EXCEPT ![cur] = read]
    BY <1>6 DEF ReadAcl
  <2>5. seen' \in [Shares -> LiveShare]
    BY <2>1, <2>3, <2>4 DEF DataInv
  <2> QED
    BY <2>5, <1>6
    DEF ReadAcl, Stop, ControlInv, DataInv, GhostInv, PlanPcs, ExitCodes,
        opVars, ghosts, budgets, OpDir
<1>7. CASE ReadNfs
  <2> DEFINE read == [seen[cur] EXCEPT !.nfs = nas[cur].nfs]
  <2>1. cur \in Shares /\ nas[cur] \in LiveShare /\ seen[cur] \in LiveShare
    BY <1>7 DEF ReadNfs, ControlInv, DataInv
  <2>2. nas[cur].nfs \in NfsRules \cup {BadRules}
    BY <2>1 DEF LiveShare
  <2>3. read \in LiveShare
    BY <2>1, <2>2 DEF LiveShare
  <2>4. seen' = seen \/ seen' = [seen EXCEPT ![cur] = read]
    BY <1>7 DEF ReadNfs
  <2>5. seen' \in [Shares -> LiveShare]
    BY <2>1, <2>3, <2>4 DEF DataInv
  <2> HIDE DEF read
  <2>6. ControlInv'
    BY <1>7, <2>1
    DEF ReadNfs, Stop, ControlInv, PlanPcs, ExitCodes, opVars, OpDir
  <2>7. UNCHANGED <<doc, nas, cur, inv, pre, op, snap, ghosts, budgets>>
    BY <1>7 DEF ReadNfs, opVars
  <2>8. DataInv' /\ GhostInv'
    BY <2>5, <2>7 DEF DataInv, GhostInv, ghosts, budgets
  <2> QED
    BY <2>6, <2>8
<1>8. CASE ReadDir
  <2>1. PICK d \in UnreadDirs(cur) :
          /\ \/ Stop(40) /\ UNCHANGED pre
             \/ Stop(10) /\ UNCHANGED pre
             \/ /\ pre' = [pre EXCEPT ![cur][d] =
                             [kind |-> nas[cur].dirs[d],
                              volume |-> nas[cur].volume]]
                /\ UNCHANGED <<pc, exit>>
    BY <1>8 DEF ReadDir
  <2>2. d \in Dirs
    BY DEF UnreadDirs, ManagedDirs
  <2>3. cur \in Shares /\ nas[cur] \in LiveShare
    BY <1>8 DEF ReadDir, ControlInv, DataInv
  <2>4. [kind |-> nas[cur].dirs[d], volume |-> nas[cur].volume] \in DirPreflight
    BY <2>2, <2>3 DEF LiveShare, DirPreflight
  <2> DEFINE row == [pre[cur] EXCEPT ![d] = [kind |-> nas[cur].dirs[d],
                                             volume |-> nas[cur].volume]]
  <2>6. row \in [Dirs -> DirPreflight]
    BY <2>2, <2>3, <2>4 DEF DataInv
  <2>7. pre' = pre \/ pre' = [pre EXCEPT ![cur] = row]
    BY <2>1
  <2>5. pre' \in [Shares -> [Dirs -> DirPreflight]]
    BY <2>3, <2>6, <2>7 DEF DataInv
  <2> QED
    BY <2>1, <2>5, <1>8
    DEF ReadDir, Stop, ControlInv, DataInv, GhostInv, PlanPcs, ExitCodes,
        opVars, ghosts, budgets, OpDir
<1>9. CASE DirsRead
  BY <1>9, SizeAssumption
  DEF DirsRead, NextShare, ControlInv, DataInv, GhostInv, PlanPcs, opVars,
      ghosts, budgets, OpDir
<1>10. CASE SharesRead
  BY <1>10
  DEF SharesRead, ControlInv, DataInv, GhostInv, PlanPcs, planVars, opVars,
      ghosts, budgets, OpDir
<1>11. CASE PreflightCreate
  BY <1>11
  DEF PreflightCreate, ControlInv, DataInv, GhostInv, PlanPcs, planVars, opVars,
      ghosts, budgets, OpDir
<1>12. CASE LookupPrincipals
  BY <1>12
  DEF LookupPrincipals, Stop, ControlInv, DataInv, GhostInv, PlanPcs, ExitCodes,
      planVars, opVars, ghosts, budgets, OpDir
<1>13. CASE Build
  <2>1. status' \in [Ops -> Statuses]
    BY <1>13 DEF Build, Statuses
  <2> QED
    BY <2>1, <1>13
    DEF Build, Stop, ControlInv, DataInv, GhostInv, PlanPcs, ExitCodes,
        planVars, opVars, ghosts, budgets, OpDir
<1> QED
  BY <1>1, <1>2, <1>3, <1>4, <1>5, <1>6, <1>7, <1>8, <1>9, <1>10, <1>11,
     <1>12, <1>13 DEF Plan

----------------------------------------------------------------------------
(* What a write may leave behind is a share like another.                  *)

LEMMA OpType ==
    ASSUME TypeInv, stage # "idle"
    PROVE  /\ op \in Ops /\ OpShare \in Shares
           /\ Live \in LiveShare /\ OpWant \in DesiredShare
           /\ Desc(OpShare) \in Descs
<1>1. op \in Ops /\ OpShare \in Shares
  BY DEF TypeInv, ControlInv, Ops, OpShare
<1>2. Live \in LiveShare /\ OpWant \in DesiredShare
  BY <1>1 DEF TypeInv, DataInv, Live, OpWant, OpShare, Want, Document
<1>3. seen[OpShare].desc \in Descs /\ inv[OpShare].live \in BOOLEAN
  BY <1>1 DEF TypeInv, DataInv, LiveShare
<1>4. Want(OpShare) \in DesiredShare
  BY <1>2 DEF OpWant, OpShare
<1> QED
  BY <1>1, <1>2, <1>3, <1>4, EffectiveDescType DEF Desc

LEMMA CreatedType ==
    ASSUME TypeInv, stage # "idle"
    PROVE  Created \subseteq LiveShare
<1>1. OpWant.volume \in Volumes /\ QuotaRequest(OpWant) \in Quotas
  BY OpType, QuotaRequestType DEF DesiredShare
<1>2. Desc(OpShare) \in Descs /\ NoDesc \in Descs
  BY OpType, DescAssumption
<1>3. {Unavailable, Unlimited, QuotaRequest(OpWant)} \subseteq Quotas
  BY <1>1 DEF Quotas
<1>4. ASSUME NEW d \in Descs, NEW a \in FreshAcls, NEW q \in Quotas
      PROVE  [live |-> TRUE, volume |-> OpWant.volume, desc |-> d, quota |-> q,
              hidden |-> FALSE, acl |-> a, nfs |-> NoRules,
              dirs |-> [x \in Dirs |-> "missing"]] \in LiveShare
  BY <1>1, FreshAssumption, RulesAssumption DEF LiveShare, DirKinds
<1> QED
  BY <1>2, <1>3, <1>4 DEF Created

LEMMA ScalarsSetType ==
    ASSUME TypeInv, stage # "idle"
    PROVE  ScalarsSet \subseteq LiveShare
<1>1. snap.volume \in Volumes /\ snap.hidden \in BOOLEAN /\ snap.quota \in Quotas
  BY DEF TypeInv, DataInv, LiveShare
<1>2. QuotaRequest(OpWant) \in Quotas /\ Desc(OpShare) \in Descs
  BY OpType, QuotaRequestType
<1>3. Live \in LiveShare /\ Live.quota \in Quotas
  BY OpType DEF LiveShare
<1>4. ASSUME NEW q \in Quotas
      PROVE  [Live EXCEPT !.volume = snap.volume, !.hidden = snap.hidden,
                          !.desc = Desc(OpShare), !.quota = q] \in LiveShare
  BY <1>1, <1>2, <1>3 DEF LiveShare
<1> QED
  BY <1>1, <1>2, <1>3, <1>4 DEF ScalarsSet

LEMMA AclSetType ==
    ASSUME TypeInv, stage # "idle", NEW done
    PROVE  AclSet(done) \in LiveShare
<1>1. Live \in LiveShare /\ AclGoal(OpWant) \in [Accounts -> Access]
  BY OpType, AclGoalType
<1>2. Live.acl \in [Accounts -> Access]
  BY <1>1 DEF LiveShare
<1>3. [a \in Accounts |-> IF a \in done THEN AclGoal(OpWant)[a] ELSE Live.acl[a]]
        \in [Accounts -> Access]
  BY <1>1, <1>2
<1> QED
  BY <1>1, <1>3 DEF AclSet, LiveShare

LEMMA NfsSavedType ==
    ASSUME TypeInv, stage # "idle"
    PROVE  NfsSaved \subseteq LiveShare
<1>1. Live \in LiveShare /\ OpWant.nfs \in NfsRules
  BY OpType DEF DesiredShare
<1> QED
  BY <1>1 DEF NfsSaved, LiveShare

LEMMA DirsType ==
    ASSUME TypeInv, stage # "idle", OpDir \in Dirs
    PROVE  DirCreated \subseteq LiveShare /\ DirDeleted \subseteq LiveShare
<1>1. Live \in LiveShare /\ Live.dirs \in [Dirs -> DirKinds]
  BY OpType DEF LiveShare
<1>2. ASSUME NEW kind \in DirKinds
      PROVE  [Live EXCEPT !.dirs[OpDir] = kind] \in LiveShare
  <2>1. [Live.dirs EXCEPT ![OpDir] = kind] \in [Dirs -> DirKinds]
    BY <1>1
  <2> QED
    BY <1>1, <2>1 DEF LiveShare
<1>3. DirCreated \subseteq {Live, [Live EXCEPT !.dirs[OpDir] = "empty"]}
  BY DEF DirCreated
<1>4. DirDeleted \subseteq {[Live EXCEPT !.dirs[OpDir] = "missing"]}
  BY DEF DirDeleted
<1> QED
  BY <1>1, <1>2, <1>3, <1>4 DEF DirKinds

\* Whatever a call that writes does, and whatever it may have done when its
\* answer is lost, the share it leaves is well formed.
LEMMA PossibleType ==
    ASSUME TypeInv, stage \in WriteStages
    PROVE  Effects \subseteq LiveShare /\ Possible \subseteq LiveShare
<1>1. stage # "idle"
  BY DEF WriteStages
<1>2. Live \in LiveShare
  BY <1>1, OpType
<1>3. AclReplaced \subseteq LiveShare /\ AclPartly \subseteq LiveShare
  BY <1>1, AclSetType DEF AclReplaced, AclPartly
<1>4. Deleted \subseteq LiveShare
  BY VacantType DEF Deleted
<1>5. Effects \subseteq LiveShare
  <2>1. CASE stage = "createCall"
    BY <2>1, <1>1, CreatedType DEF Effects
  <2>2. CASE stage = "scalarSet"
    BY <2>2, <1>1, ScalarsSetType DEF Effects
  <2>3. CASE stage = "aclSet"
    BY <2>3, <1>3 DEF Effects
  <2>4. CASE stage = "nfsSet"
    BY <2>4, <1>1, NfsSavedType DEF Effects
  <2>5. CASE stage = "dirCreate"
    <3>1. OpDir \in Dirs
      BY <2>5 DEF TypeInv, ControlInv, DirStages
    <3> QED
      BY <2>5, <3>1, <1>1, DirsType DEF Effects
  <2>6. CASE stage = "dirDelete"
    <3>1. OpDir \in Dirs
      BY <2>6 DEF TypeInv, ControlInv, DirStages
    <3> QED
      BY <2>6, <3>1, <1>1, DirsType DEF Effects
  <2>7. CASE stage = "deleteCall"
    BY <2>7, <1>4 DEF Effects
  <2> QED
    BY <2>1, <2>2, <2>3, <2>4, <2>5, <2>6, <2>7 DEF WriteStages
<1> QED
  BY <1>2, <1>3, <1>5 DEF Possible

----------------------------------------------------------------------------
(* The steps of execute_apply_plan.                                        *)

\* A call that reads keeps the type, whatever it decides.
LEMMA ReadStep ==
    ASSUME TypeInv, stage # "idle", ReadOnly,
           snap' = snap \/ snap' = Live,
           NEW next \in ReadStages \cup WriteStages,
           next \in DirStages => stage \in DirStages,
           Goto(next) \/ Succeed \/ Fail("FAILED") \/ Fail("UNKNOWN") \/ Abort
    PROVE  TypeInv'
<1>1. UNCHANGED <<doc, nas, cur, inv, seen, pre, op, ghosts, budgets>>
  BY DEF ReadOnly, planVars
<1>2. next \in DirStages => OpDir \in Dirs
  BY DEF TypeInv, ControlInv
<1>3. ControlInv'
  BY <1>1, <1>2, ControlStep
<1>4. snap' \in LiveShare
  BY OpType DEF TypeInv, DataInv
<1>5. DataInv' /\ GhostInv'
  BY <1>1, <1>4 DEF TypeInv, DataInv, GhostInv, ghosts, budgets
<1> QED
  BY <1>3, <1>5 DEF TypeInv

\* A call that writes keeps it too, answered or not.
LEMMA WriteStep ==
    ASSUME TypeInv, stage \in WriteStages,
           UNCHANGED <<doc, planVars, op, snap>>,
           \E share \in Possible : Put(share),
           Sent, edits' \in 0..MaxEdits, faults' \in 0..MaxFaults,
           NEW next \in ReadStages \cup WriteStages,
           next \in DirStages => stage \in DirStages,
           \/ Goto(next) \/ Succeed \/ Fail("FAILED") \/ Fail("UNKNOWN")
           \/ Stop(Killed) /\ UNCHANGED <<status, stage>>
    PROVE  TypeInv'
<1>1. stage # "idle" /\ UNCHANGED <<doc, cur, inv, seen, pre, op, snap>>
  BY DEF WriteStages, planVars
<1>2. next \in DirStages => OpDir \in Dirs
  BY DEF TypeInv, ControlInv
<1>3. ControlInv'
  BY <1>1, <1>2, ControlStep
<1>4. nas' \in [Shares -> LiveShare]
  <2>1. PICK share \in LiveShare : nas' = [nas EXCEPT ![OpShare] = share]
    BY PossibleType DEF Put
  <2> QED
    BY <2>1 DEF TypeInv, DataInv
<1>5. DataInv'
  BY <1>1, <1>4 DEF TypeInv, DataInv
<1>6. GhostInv'
  <2>1. op \in Ops /\ wrote' = wrote \cup {op} /\ UNCHANGED <<edited, clean>>
    BY <1>1, OpType DEF Sent
  <2>2. wrote' \subseteq Ops
    BY <2>1 DEF TypeInv, GhostInv
  <2> QED
    BY <2>1, <2>2 DEF TypeInv, GhostInv
<1> QED
  BY <1>3, <1>5, <1>6 DEF TypeInv

LEMMA ReadType == TypeInv /\ Read => TypeInv'
<1> SUFFICES ASSUME TypeInv, Read PROVE TypeInv'
  OBVIOUS
<1> USE DEF ReadStages, WriteStages, DirStages, At, Expect, ExpectLast
<1>1. CASE CheckCreated
  BY <1>1, ReadStep DEF CheckCreated
<1>2. CASE ReadScalars
  BY <1>2, ReadStep DEF ReadScalars
<1>3. CASE VerifyScalarsSet
  BY <1>3, ReadStep DEF VerifyScalarsSet
<1>4. CASE VerifyScalars
  BY <1>4, ReadStep DEF VerifyScalars
<1>5. CASE ReadAclBefore
  BY <1>5, ReadStep DEF ReadAclBefore
<1>6. CASE VerifyAclSet
  BY <1>6, ReadStep DEF VerifyAclSet
<1>7. CASE VerifyAcl
  BY <1>7, ReadStep DEF VerifyAcl
<1>8. CASE ReadNfsBefore
  BY <1>8, ReadStep DEF ReadNfsBefore
<1>9. CASE VerifyNfsSaved
  BY <1>9, ReadStep DEF VerifyNfsSaved
<1>10. CASE VerifyNfs
  BY <1>10, ReadStep DEF VerifyNfs
<1>11. CASE VerifyDirChild
  BY <1>11, ReadStep DEF VerifyDirChild
<1>12. CASE VerifyDirPath
  BY <1>12, ReadStep DEF VerifyDirPath
<1>13. CASE RecheckDir
  BY <1>13, ReadStep DEF RecheckDir
<1>14. CASE VerifyDirGone
  BY <1>14, ReadStep DEF VerifyDirGone
<1>15. CASE VerifyDir
  BY <1>15, ReadStep DEF VerifyDir
<1>16. CASE ReadUnavailable
  BY <1>16, ReadStep DEF ReadUnavailable, Broken, BrokenStatus, ReadOnly
<1>17. CASE ReadNewDir
  <2>1. stage = "dirRead" /\ UNCHANGED <<doc, nas, cur, inv, seen, op, snap, ghosts, budgets>>
    BY <1>17 DEF ReadNewDir
  <2>2. OpDir \in Dirs /\ OpShare \in Shares /\ Live \in LiveShare
    BY <2>1, OpType DEF TypeInv, ControlInv
  <2> DEFINE found == [kind |-> Live.dirs[OpDir], volume |-> Live.volume]
             next == DirStage(OpItem, Live.dirs[OpDir])
  <2>3. found \in DirPreflight
    BY <2>2 DEF LiveShare, DirPreflight
  <2>4. pre' = pre \/ pre' = [pre EXCEPT ![OpShare][OpDir] = found]
    BY <1>17 DEF ReadNewDir
  <2>5. [pre[OpShare] EXCEPT ![OpDir] = found] \in [Dirs -> DirPreflight]
    BY <2>2, <2>3 DEF TypeInv, DataInv
  <2>6. pre' \in [Shares -> [Dirs -> DirPreflight]]
    BY <2>2, <2>4, <2>5 DEF TypeInv, DataInv
  <2>7. next \in {"dirCreate", "dirRecheck", "dirVerify"}
    BY DEF DirStage
  <2>8. Goto(next) \/ Fail("FAILED")
    BY <1>17 DEF ReadNewDir
  <2> HIDE DEF next, found
  <2>9. ControlInv'
    BY <2>1, <2>2, <2>7, <2>8, ControlStep
  <2>10. DataInv' /\ GhostInv'
    BY <2>1, <2>6 DEF TypeInv, DataInv, GhostInv, ghosts, budgets
  <2> QED
    BY <2>9, <2>10 DEF TypeInv
<1> QED
  BY <1>1, <1>2, <1>3, <1>4, <1>5, <1>6, <1>7, <1>8, <1>9, <1>10, <1>11,
     <1>12, <1>13, <1>14, <1>15, <1>16, <1>17 DEF Read

LEMMA WriteType == TypeInv /\ Write => TypeInv'
<1> SUFFICES ASSUME TypeInv, Write PROVE TypeInv'
  OBVIOUS
<1> USE DEF ReadStages, WriteStages, DirStages, At
<1>1. Effects \subseteq Possible \/ stage = "aclSet"
  BY DEF Possible
<1>2. stage = "aclSet" => Effects \subseteq Possible
  <2> SUFFICES ASSUME stage = "aclSet" PROVE Effects \subseteq Possible
    OBVIOUS
  <2>1. Effects = AclReplaced /\ AclPartly \subseteq Possible
    BY DEF Effects, Possible
  <2>2. AclReplaced \subseteq AclPartly
    BY DEF AclReplaced, AclPartly
  <2> QED
    BY <2>1, <2>2
<1>3. edits \in 0..MaxEdits /\ faults \in 0..MaxFaults
  BY DEF TypeInv, GhostInv
<1>4. ASSUME NEW at \in WriteStages, NEW next \in ReadStages,
             next \in DirStages => at \in DirStages, WriteAnswered(at, next)
      PROVE  TypeInv'
  <2>1. /\ stage = at /\ Goto(next) /\ Sent
        /\ UNCHANGED <<doc, planVars, op, snap, budgets>>
        /\ \E share \in Effects : Put(share)
    BY <1>4 DEF WriteAnswered
  <2>2. \E share \in Possible : Put(share)
    BY <1>1, <1>2, <2>1
  <2>3. edits' \in 0..MaxEdits /\ faults' \in 0..MaxFaults
    BY <1>3, <2>1 DEF budgets
  <2> QED
    BY <1>4, <2>1, <2>2, <2>3, WriteStep
<1>5. CASE CreateShare \/ SetScalars \/ SetAcl \/ SaveNfs \/ CreateDir \/ DeleteDir
  BY <1>4, <1>5 DEF CreateShare, SetScalars, SetAcl, SaveNfs, CreateDir, DeleteDir
<1>6. CASE DeleteShare
  <2>1. /\ stage = "deleteCall" /\ Succeed /\ Sent
        /\ UNCHANGED <<doc, planVars, op, snap, budgets>>
        /\ \E share \in Effects : Put(share)
    BY <1>6 DEF DeleteShare
  <2>2. \E share \in Possible : Put(share)
    BY <1>1, <1>2, <2>1
  <2>3. edits' \in 0..MaxEdits /\ faults' \in 0..MaxFaults
    BY <1>3, <2>1 DEF budgets
  <2>4. "aclVerify" \in ReadStages \cup WriteStages /\ "aclVerify" \notin DirStages
    OBVIOUS
  <2> QED
    BY <2>1, <2>2, <2>3, <2>4, WriteStep
<1>7. CASE WriteRefused
  <2>1. /\ stage \in WriteStages /\ Sent
        /\ UNCHANGED <<doc, nas, planVars, op, snap, budgets>>
        /\ Fail("FAILED") \/ Fail("UNKNOWN")
    BY <1>7 DEF WriteRefused, RefusedStatus
  <2>2. Put(Live)
    <3>1. OpShare \in Shares
      BY <2>1, OpType
    <3> QED
      BY <2>1, <3>1 DEF Put, Live, OpShare, TypeInv, DataInv
  <2>3. Live \in Possible
    BY DEF Possible
  <2>4. edits' \in 0..MaxEdits /\ faults' \in 0..MaxFaults
    BY <1>3, <2>1 DEF budgets
  <2>5. "aclVerify" \in ReadStages \cup WriteStages /\ "aclVerify" \notin DirStages
    OBVIOUS
  <2> QED
    BY <2>1, <2>2, <2>3, <2>4, <2>5, WriteStep
<1> QED
  BY <1>5, <1>6, <1>7 DEF Write

\* The budget of faults is not exceeded.
LEMMA FaultBudget ==
    ASSUME TypeInv, faults < MaxFaults, faults' = faults + 1
    PROVE  faults' \in 0..MaxFaults
  BY BoundAssumption DEF TypeInv, GhostInv

LEMMA FaultType == TypeInv /\ Fault => TypeInv'
<1> SUFFICES ASSUME TypeInv, Fault PROVE TypeInv'
  OBVIOUS
<1>1. faults' \in 0..MaxFaults
  BY FaultBudget DEF Fault, PlanFault, ReadFault, WriteLost, Kill, KillInWrite
<1>2. edits' \in 0..MaxEdits
  BY DEF Fault, PlanFault, ReadFault, WriteLost, Kill, KillInWrite, TypeInv, GhostInv
<1>3. CASE PlanFault \/ Kill
  <2>1. UNCHANGED <<doc, nas, planVars, status, opVars, ghosts>>
    BY <1>3 DEF PlanFault, Kill
  <2>2. PICK code \in {10, 20, 30, 40, Killed} : Stop(code)
    BY <1>3 DEF PlanFault, Kill
  <2>3. ControlInv'
    BY <2>1, <2>2
    DEF Stop, TypeInv, ControlInv, PlanPcs, ExitCodes, planVars, opVars, OpDir
  <2>4. DataInv'
    BY <2>1 DEF TypeInv, DataInv, planVars, opVars
  <2>5. GhostInv'
    BY <1>1, <1>2, <2>1 DEF TypeInv, GhostInv, ghosts
  <2> QED
    BY <2>3, <2>4, <2>5 DEF TypeInv
<1>4. CASE ReadFault
  <2>1. /\ stage \in ReadStages
        /\ UNCHANGED <<doc, nas, planVars, op, snap, ghosts>>
        /\ Fail("FAILED") \/ Fail("UNKNOWN") \/ Abort
    BY <1>4 DEF ReadFault, Broken, BrokenStatus
  <2>2. stage # "idle" /\ UNCHANGED <<op, cur>>
    BY <2>1 DEF ReadStages, planVars
  <2>3. "aclVerify" \in ReadStages \cup WriteStages /\ "aclVerify" \notin DirStages
    BY DEF ReadStages, DirStages
  <2>4. ControlInv'
    BY <2>1, <2>2, <2>3, ControlStep
  <2>5. DataInv'
    BY <2>1 DEF TypeInv, DataInv, planVars
  <2>6. GhostInv'
    BY <1>1, <1>2, <2>1 DEF TypeInv, GhostInv, ghosts
  <2> QED
    BY <2>4, <2>5, <2>6 DEF TypeInv
<1>5. CASE WriteLost \/ KillInWrite
  <2>1. /\ stage \in WriteStages /\ Sent
        /\ UNCHANGED <<doc, planVars, op, snap>>
        /\ \E share \in Possible : Put(share)
    BY <1>5 DEF WriteLost, KillInWrite, opVars
  <2>2. \/ Fail("FAILED") \/ Fail("UNKNOWN")
        \/ Stop(Killed) /\ UNCHANGED <<status, stage>>
    BY <1>5 DEF WriteLost, LostStatus, KillInWrite, opVars
  <2>3. "aclVerify" \in ReadStages \cup WriteStages /\ "aclVerify" \notin DirStages
    BY DEF ReadStages, DirStages
  <2> QED
    BY <1>1, <1>2, <2>1, <2>2, <2>3, WriteStep
<1> QED
  BY <1>3, <1>4, <1>5 DEF Fault

\* Between the operations, the edits of others, and the next run.
LEMMA OtherType == TypeInv /\ (StartOp \/ FinishPlan \/ Edit \/ Rerun) => TypeInv'
<1> SUFFICES ASSUME TypeInv, StartOp \/ FinishPlan \/ Edit \/ Rerun PROVE TypeInv'
  OBVIOUS
<1>1. CASE StartOp
  <2>1. PICK o \in Ops : op' = o /\ stage' = FirstStage(o)
    BY <1>1 DEF StartOp, Planned
  <2>2. UNCHANGED <<doc, nas, pc, planVars, status, snap, exit, ghosts, budgets>>
    BY <1>1 DEF StartOp
  <2>3. /\ stage' \in ReadStages \cup WriteStages
        /\ stage' \in DirStages => o[2] - 3 \in Dirs
    BY <2>1, FirstStageType
  <2>4. ControlInv'
    BY <2>1, <2>2, <2>3 DEF TypeInv, ControlInv, OpDir, planVars
  <2>5. DataInv' /\ GhostInv'
    BY <2>1, <2>2 DEF TypeInv, DataInv, GhostInv, planVars, ghosts, budgets
  <2> QED
    BY <2>4, <2>5 DEF TypeInv
<1>2. CASE FinishPlan
  <2>1. /\ UNCHANGED <<doc, nas, planVars, status, opVars, wrote, edited, budgets>>
        /\ Stop(0)
    BY <1>2 DEF FinishPlan
  <2>2. clean' \in BOOLEAN
    BY <1>2, Zenon DEF FinishPlan
  <2>3. ControlInv'
    BY <2>1
    DEF Stop, TypeInv, ControlInv, PlanPcs, ExitCodes, planVars, opVars, OpDir
  <2>4. DataInv' /\ GhostInv'
    BY <2>1, <2>2 DEF TypeInv, DataInv, GhostInv, planVars, opVars, budgets
  <2> QED
    BY <2>3, <2>4 DEF TypeInv
<1>3. CASE Edit
  <2>1. PICK s \in Shares, share \in Edits \cup {Vacant} :
          nas' = [nas EXCEPT ![s] = share]
    BY <1>3 DEF Edit
  <2>2. share \in LiveShare
    BY VacantType, EditAssumption
  <2>3. nas' \in [Shares -> LiveShare]
    BY <2>1, <2>2 DEF TypeInv, DataInv
  <2>4. UNCHANGED <<doc, pc, planVars, status, opVars, exit, wrote, faults>>
    BY <1>3 DEF Edit
  <2>5. ControlInv' /\ DataInv'
    BY <2>3, <2>4 DEF TypeInv, ControlInv, DataInv, planVars, opVars, OpDir
  <2>6. edits' \in 0..MaxEdits
    BY <1>3, BoundAssumption DEF Edit, TypeInv, GhostInv
  <2>7. edited' \in BOOLEAN /\ clean' \in BOOLEAN
    BY <1>3, Zenon DEF Edit
  <2>8. wrote' \subseteq Ops /\ faults' \in 0..MaxFaults
    BY <2>4 DEF TypeInv, GhostInv
  <2> QED
    BY <2>5, <2>6, <2>7, <2>8 DEF TypeInv, GhostInv
<1>4. CASE Rerun
  <2>1. Fresh /\ UNCHANGED <<doc, nas, clean, budgets>>
    BY <1>4 DEF Rerun
  <2>2. ControlInv'
    BY <2>1
    DEF Fresh, ControlInv, PlanPcs, Statuses, ExitCodes, DirStages, ReadStages,
        WriteStages
  <2>3. DataInv'
    BY <2>1, VacantType, UnreadType, SizeAssumption DEF Fresh, TypeInv, DataInv
  <2>4. edited' \in BOOLEAN /\ wrote' \subseteq Ops
    BY <2>1, Zenon DEF Fresh
  <2>5. clean' \in BOOLEAN /\ edits' \in 0..MaxEdits /\ faults' \in 0..MaxFaults
    BY <2>1 DEF TypeInv, GhostInv, budgets
  <2> QED
    BY <2>2, <2>3, <2>4, <2>5 DEF TypeInv, GhostInv
<1> QED
  BY <1>1, <1>2, <1>3, <1>4

LEMMA NextType == TypeInv /\ [Next]_vars => TypeInv'
<1> SUFFICES ASSUME TypeInv, [Next]_vars PROVE TypeInv'
  OBVIOUS
<1>1. CASE Client
  BY <1>1, PlanType, WriteType, ReadType, OtherType DEF Client
<1>2. CASE Fault
  BY <1>2, FaultType
<1>3. CASE Edit \/ Rerun
  BY <1>3, OtherType
<1>4. CASE UNCHANGED vars
  BY <1>4
  DEF vars, planVars, opVars, ghosts, budgets, TypeInv, ControlInv, DataInv,
      GhostInv, OpDir
<1> QED
  BY <1>1, <1>2, <1>3, <1>4 DEF Next

\* The strengthened type invariant, for the proofs that build on it.
THEOREM TypeInvariant == Spec => []TypeInv
  BY InitType, NextType, PTL DEF Spec

\* Whatever the document, the NAS, the edits of others and the faults, every
\* variable of apply-config keeps its type: no read, decision or write of
\* the client goes outside the shares, directories and values of the model.
THEOREM TypeCorrect == Spec => []TypeOK
  BY TypeInvariant, TypeInvImpliesTypeOK, PTL
=============================================================================
