------------------------- MODULE ApplyEffectProofs -------------------------
(***************************************************************************)
(* What apply-config does to the NAS: a step of the client changes one     *)
(* share, and of it only what the operation under way is about.            *)
(***************************************************************************)
EXTENDS ApplyReportProofs

\* What every operation of a plan is for, whatever the plan was built from.
Needed(o) ==
    /\ Want(o[1]).state # "unmanaged"
    /\ Want(o[1]).state = "absent" => o[2] = MainSlot
    /\ o[2] > NfsSlot => o[2] - 3 \in ManagedDirs(o[1])

\* Only what the document asks for has a status, and shares are deleted
\* because it says so.
NeedInv ==
    /\ \A o \in Ops : status[o] # "none" => Needed(o)
    /\ stage = "deleteCall" => Want(op[1]).state = "absent"

----------------------------------------------------------------------------
(* The steps that write.                                                   *)

\* The NAS after a call whose answer is lost includes the NAS after one
\* that is answered.
LEMMA EffectsPossible == Effects \subseteq Possible
<1>1. CASE stage = "aclSet"
  <2>1. Effects = AclReplaced
    BY <1>1 DEF Effects
  <2>2. AclReplaced \subseteq AclPartly
    BY DEF AclReplaced, AclPartly
  <2> QED
    BY <1>1, <2>1, <2>2 DEF Possible
<1> QED
  BY <1>1 DEF Possible

\* A step that is not somebody else's edit leaves the NAS alone, or puts
\* something possible in the place of the share of the current operation.
LEMMA ClientWrites ==
    ASSUME TypeInv, [Next]_vars, edits' = edits
    PROVE  \/ nas' = nas
           \/ /\ pc = "execute" /\ stage \in WriteStages /\ op \in Ops
              /\ \E share \in Possible : Put(share)
<1>1. CASE Plan \/ StartOp \/ FinishPlan \/ Read \/ PlanFault \/ ReadFault \/ Kill \/ Rerun
  BY <1>1
  DEF Plan, List, SkipShare, PlanNewShare, RejectVolume, ReadState, ReadAcl,
      ReadNfs, ReadDir, DirsRead, SharesRead, PreflightCreate,
      LookupPrincipals, Build, StartOp, FinishPlan,
      Read, CheckCreated, ReadScalars, VerifyScalarsSet, VerifyScalars,
      ReadAclBefore, VerifyAclSet, VerifyAcl, ReadNfsBefore, VerifyNfsSaved,
      VerifyNfs, ReadNewDir, VerifyDirChild, VerifyDirPath, RecheckDir,
      VerifyDirGone, VerifyDir, ReadUnavailable, Expect, ExpectLast, ReadOnly,
      PlanFault, ReadFault, Kill, Rerun
<1>2. CASE WriteRefused
  BY <1>2 DEF WriteRefused
<1>3. CASE CreateShare \/ SetScalars \/ SetAcl \/ SaveNfs \/ CreateDir
           \/ DeleteDir \/ DeleteShare \/ WriteLost \/ KillInWrite
  <2>1. pc = "execute" /\ stage \in WriteStages
    BY <1>3 DEF CreateShare, SetScalars, SetAcl, SaveNfs, CreateDir, DeleteDir,
                DeleteShare, WriteLost, KillInWrite, WriteAnswered, At, WriteStages
  <2>2. \E share \in Possible : Put(share)
    BY <1>3, EffectsPossible
    DEF CreateShare, SetScalars, SetAcl, SaveNfs, CreateDir, DeleteDir,
        DeleteShare, WriteLost, KillInWrite, WriteAnswered
  <2>3. op \in Ops
    BY <2>1 DEF TypeInv, ControlInv, WriteStages
  <2> QED
    BY <2>1, <2>2, <2>3
<1>4. CASE Edit
  BY <1>4 DEF Edit, TypeInv, GhostInv
<1>5. CASE UNCHANGED vars
  BY <1>5 DEF vars
<1> QED
  BY <1>1, <1>2, <1>3, <1>4, <1>5 DEF Next, Client, Fault, Write

\* What a call puts in place of a share, call by call.
LEMMA PossibleIs ==
    ASSUME TypeInv, stage \in WriteStages, NEW share \in Possible
    PROVE  \/ share = Live
           \/ stage = "createCall" /\ ~ Live.live /\ share \in Created
           \/ stage = "scalarSet" /\ Live.live /\ share \in ScalarsSet
           \/ stage = "aclSet" /\ Live.live
              /\ \E done \in SUBSET AclDelta : share = AclSet(done)
           \/ stage = "nfsSet" /\ Live.live
              /\ share = [Live EXCEPT !.nfs = OpWant.nfs]
           \/ stage = "dirCreate" /\ Live.live /\ Live.dirs[OpDir] = "missing"
              /\ share = [Live EXCEPT !.dirs[OpDir] = "empty"]
           \/ stage = "dirDelete" /\ Live.live /\ Live.dirs[OpDir] = "empty"
              /\ share = [Live EXCEPT !.dirs[OpDir] = "missing"]
           \/ stage = "deleteCall" /\ Live.live /\ share = Vacant
<1>1. CASE stage = "createCall"
  BY <1>1 DEF Possible, Effects, Created
<1>2. CASE stage = "scalarSet"
  BY <1>2 DEF Possible, Effects, ScalarsSet
<1>3. CASE stage = "aclSet"
  BY <1>3 DEF Possible, AclPartly
<1>4. CASE stage = "nfsSet"
  BY <1>4 DEF Possible, Effects, NfsSaved
<1>5. CASE stage = "dirCreate"
  BY <1>5 DEF Possible, Effects, DirCreated
<1>6. CASE stage = "dirDelete"
  BY <1>6 DEF Possible, Effects, DirDeleted
<1>7. CASE stage = "deleteCall"
  BY <1>7 DEF Possible, Effects, Deleted
<1> QED
  BY <1>1, <1>2, <1>3, <1>4, <1>5, <1>6, <1>7 DEF WriteStages

\* A call on a live share keeps it live unless it is the deletion, touches
\* one child at most and only one without content, and leaves the
\* administrators what they have.
LEMMA WriteFrame ==
    ASSUME TypeInv, stage \in WriteStages, op \in Ops,
           NEW share \in Possible, Live.live
    PROVE  /\ ~ share.live => stage = "deleteCall"
           /\ share.live => \A d \in Dirs :
                 \/ share.dirs[d] = Live.dirs[d]
                 \/ /\ d = OpDir /\ op[2] > NfsSlot
                    /\ Live.dirs[d] \in {"missing", "empty"}
           /\ share.live /\ Live.acl[Administrators] = "rw"
                 => share.acl[Administrators] = "rw"
<1>1. Live \in LiveShare
  BY DEF TypeInv, DataInv, Live, Ops
<1>2. CASE share = Live
  BY <1>1, <1>2
<1>3. CASE stage = "scalarSet" /\ share \in ScalarsSet
  <2>1. share.live = Live.live /\ share.acl = Live.acl /\ share.dirs = Live.dirs
    BY <1>1, <1>3 DEF ScalarsSet, LiveShare
  <2> QED
    BY <2>1
<1>4. CASE stage = "aclSet" /\ \E done \in SUBSET AclDelta : share = AclSet(done)
  <2>1. PICK done \in SUBSET AclDelta : share = AclSet(done)
    BY <1>4
  <2>2. share.live = Live.live /\ share.dirs = Live.dirs
    BY <1>1, <2>1 DEF AclSet, LiveShare
  <2>3. share.acl[Administrators] =
          IF Administrators \in done THEN "rw" ELSE Live.acl[Administrators]
    BY <1>1, <2>1 DEF AclSet, LiveShare, AclGoal, Accounts
  <2> QED
    BY <2>2, <2>3
<1>5. CASE stage = "nfsSet" /\ share = [Live EXCEPT !.nfs = OpWant.nfs]
  <2>1. share.live = Live.live /\ share.acl = Live.acl /\ share.dirs = Live.dirs
    BY <1>1, <1>5 DEF LiveShare
  <2> QED
    BY <2>1
<1>6. ASSUME stage \in {"dirCreate", "dirDelete"},
             Live.dirs[OpDir] \in {"missing", "empty"},
             NEW kind, share = [Live EXCEPT !.dirs[OpDir] = kind]
      PROVE  /\ share.live
             /\ share.acl = Live.acl
             /\ \A d \in Dirs :
                  share.dirs[d] = Live.dirs[d] \/ (d = OpDir /\ op[2] > NfsSlot)
  <2>1. OpDir \in Dirs
    BY <1>6 DEF TypeInv, ControlInv, DirStages
  <2>2. op[2] \in Int
    BY SizeAssumption DEF Ops, Slots
  <2>3. op[2] > NfsSlot
    BY <2>1, <2>2, SizeAssumption DEF OpDir, NfsSlot, Dirs
  <2> QED
    BY <1>1, <1>6, <2>3 DEF LiveShare
<1>7. CASE stage = "deleteCall" /\ share = Vacant
  BY <1>7 DEF Vacant
<1> QED
  <2>1. CASE stage \in {"dirCreate", "dirDelete"} /\ share # Live
    BY <1>6, <2>1, PossibleIs
  <2> QED
    BY <1>2, <1>3, <1>4, <1>5, <1>7, <2>1, PossibleIs DEF WriteStages

----------------------------------------------------------------------------
(* Only what the document asks for has a status.                           *)

LEMMA InPlanNeeded ==
    ASSUME TypeInv, NEW o \in Ops, InPlan(o)
    PROVE  Needed(o)
<1>1. o[1] \in Shares /\ o[2] \in Slots
  BY DEF Ops
<1>2. Want(o[1]) \in DesiredShare
  BY <1>1 DEF TypeInv, DataInv, Document, Want
<1>3. CASE Present(o[1])
  <2>1. o[2] \in {MainSlot, AclSlot, NfsSlot} \cup DirectoryOperations(o[1])
    BY <1>3 DEF InPlan, CreateOperations, ExistingOperations, IsNew, IsExisting
  <2>2. ASSUME o[2] > NfsSlot PROVE o[2] - 3 \in ManagedDirs(o[1])
    <3>1. o[2] \in DirectoryOperations(o[1])
      BY <2>1, <2>2 DEF MainSlot, AclSlot, NfsSlot
    <3>2. PICK d \in Dirs : /\ o[2] = 3 + d
                            /\ DirOperation(Want(o[1]).dirs[d], pre[o[1]][d].kind)
      BY <3>1 DEF DirectoryOperations, DirSlot
    <3>3. d \in ManagedDirs(o[1])
      BY <3>2 DEF ManagedDirs, DirOperation
    <3> QED
      BY <3>2, <3>3, SizeAssumption DEF Dirs
  <2> QED
    BY <1>3, <2>2 DEF Needed, Present
<1>4. CASE ~ Present(o[1])
  <2>1. Want(o[1]).state = "absent" /\ o[2] = MainSlot
    BY <1>4 DEF InPlan, IsNew, IsExisting
  <2> QED
    BY <2>1 DEF Needed, MainSlot, NfsSlot
<1> QED
  BY <1>3, <1>4

LEMMA InitNeed == Init => NeedInv
  BY DEF Init, NeedInv

\* A step of an operation gives no new operation a status, and starts no
\* deletion.
LEMMA OpNeed ==
    ASSUME TypeInv, NeedInv, UNCHANGED <<op, doc>>, op \in Ops,
           status[op] # "none",
           NEW next \in (ReadStages \cup WriteStages) \ {"deleteCall"},
           NEW how \in {"FAILED", "UNKNOWN"},
           \/ Goto(next) \/ Succeed \/ Fail(how) \/ Abort
           \/ UNCHANGED <<status, stage>>
    PROVE  NeedInv'
<1>1. \A o \in Ops : status'[o] # "none" => status[o] # "none"
  <2>1. status \in [Ops -> Statuses]
    BY DEF TypeInv, ControlInv
  <2> QED
    BY <2>1 DEF Goto, Succeed, Fail, Abort
<1>2. stage' = "deleteCall" => stage = "deleteCall"
  BY DEF Goto, Succeed, Fail, Abort
<1> QED
  BY <1>1, <1>2 DEF NeedInv, Needed, Want, ManagedDirs

LEMMA NextNeed == TypeInv /\ ReportInv /\ NeedInv /\ [Next]_vars => NeedInv'
<1> SUFFICES ASSUME TypeInv, ReportInv, NeedInv, [Next]_vars PROVE NeedInv'
  OBVIOUS
<1>1. ASSUME UNCHANGED <<status, stage, op, doc>> PROVE NeedInv'
  BY <1>1 DEF NeedInv, Needed, Want, ManagedDirs
<1>2. CASE List \/ SkipShare \/ PlanNewShare \/ RejectVolume \/ ReadState
           \/ ReadAcl \/ ReadNfs \/ ReadDir \/ DirsRead \/ SharesRead
           \/ PreflightCreate \/ LookupPrincipals \/ PlanFault \/ Kill
           \/ FinishPlan \/ Edit \/ KillInWrite \/ UNCHANGED vars
  BY <1>1, <1>2
  DEF List, SkipShare, PlanNewShare, RejectVolume, ReadState, ReadAcl, ReadNfs,
      ReadDir, DirsRead, SharesRead, PreflightCreate, LookupPrincipals,
      PlanFault, Kill, FinishPlan, Edit, KillInWrite, vars, opVars
<1>3. CASE Build
  <2>1. stage = "idle" /\ UNCHANGED <<stage, op, doc>>
    BY <1>3 DEF Build, ReportInv, PlanningInv, PlanPcs, opVars
  <2>2. \A o \in Ops : status'[o] # "none" => InPlan(o)
    BY <1>3 DEF Build
  <2> QED
    BY <2>1, <2>2, InPlanNeeded DEF NeedInv, Needed, Want, ManagedDirs
<1>4. CASE StartOp
  <2>1. PICK o \in Planned : op' = o /\ stage' = FirstStage(o)
    BY <1>4 DEF StartOp
  <2>2. UNCHANGED <<doc, status>>
    BY <1>4 DEF StartOp
  <2>3. ASSUME stage' = "deleteCall" PROVE Want(op[1])'.state = "absent"
    <3>1. Family(o) = "delete"
      BY <2>1, <2>3 DEF FirstStage, DirStage, Family, MainFamily, Planned, Ops,
         Slots, MainSlot, AclSlot, NfsSlot
    <3>2. o[2] = MainSlot /\ Want(o[1]).state = "absent"
      BY <3>1 DEF Family, MainFamily, Planned, Ops, Slots, MainSlot, AclSlot, NfsSlot
    <3> QED
      BY <2>1, <2>2, <3>2 DEF Want
  <2> QED
    BY <2>2, <2>3 DEF NeedInv, Needed, Want, ManagedDirs
<1>5. CASE Rerun
  BY <1>5 DEF Rerun, Fresh, NeedInv
<1>6. CASE Read \/ ReadFault \/ Write \/ WriteLost
  <2>1. /\ pc = "execute" /\ stage # "idle" /\ UNCHANGED <<op, doc>>
    BY <1>6
    DEF Read, CheckCreated, ReadScalars, VerifyScalarsSet, VerifyScalars,
        ReadAclBefore, VerifyAclSet, VerifyAcl, ReadNfsBefore, VerifyNfsSaved,
        VerifyNfs, ReadNewDir, VerifyDirChild, VerifyDirPath, RecheckDir,
        VerifyDirGone, VerifyDir, ReadUnavailable, ReadFault, At, Expect,
        ExpectLast, ReadOnly, ReadStages, WriteStages,
        Write, CreateShare, SetScalars, SetAcl, SaveNfs, CreateDir, DeleteDir,
        DeleteShare, WriteRefused, WriteLost, WriteAnswered
  <2>2. op \in Ops /\ status[op] # "none"
    BY <2>1 DEF ReportInv, ExecutionInv, Planned
  <2>3. \/ \E next \in (ReadStages \cup WriteStages) \ {"deleteCall"} : Goto(next)
        \/ Succeed \/ Fail("FAILED") \/ Fail("UNKNOWN") \/ Abort
    <3> USE DEF ReadStages, WriteStages, Expect, ExpectLast
    <3>1. CASE ReadNewDir
      BY <3>1 DEF ReadNewDir, DirStage
    <3>2. CASE CheckCreated \/ ReadScalars \/ VerifyScalarsSet \/ VerifyScalars
               \/ ReadAclBefore \/ VerifyAclSet \/ VerifyAcl
      BY <3>2 DEF CheckCreated, ReadScalars, VerifyScalarsSet, VerifyScalars,
                  ReadAclBefore, VerifyAclSet, VerifyAcl
    <3>3. CASE ReadNfsBefore \/ VerifyNfsSaved \/ VerifyNfs \/ VerifyDirChild
               \/ VerifyDirPath \/ RecheckDir \/ VerifyDirGone \/ VerifyDir
      BY <3>3 DEF ReadNfsBefore, VerifyNfsSaved, VerifyNfs, VerifyDirChild,
                  VerifyDirPath, RecheckDir, VerifyDirGone, VerifyDir
    <3>4. CASE ReadUnavailable \/ ReadFault
      BY <3>4 DEF ReadUnavailable, ReadFault, Broken, BrokenStatus
    <3>5. CASE Write \/ WriteLost
      BY <3>5 DEF Write, CreateShare, SetScalars, SetAcl, SaveNfs, CreateDir,
                  DeleteDir, DeleteShare, WriteRefused, WriteLost,
                  WriteAnswered, RefusedStatus, LostStatus
    <3> QED
      BY <1>6, <3>1, <3>2, <3>3, <3>4, <3>5 DEF Read
  <2>4. "aclRead" \in (ReadStages \cup WriteStages) \ {"deleteCall"}
    BY DEF ReadStages
  <2> QED
    BY <2>1, <2>2, <2>3, <2>4, OpNeed
<1> QED
  BY <1>2, <1>3, <1>4, <1>5, <1>6 DEF Next, Client, Fault, Plan


----------------------------------------------------------------------------
(* The action properties.                                                  *)

THEOREM NeedInvariant == Spec => [](TypeInv /\ ReportInv /\ NeedInv)
<1>1. Init => NeedInv
  BY InitNeed
<1>2. TypeInv /\ ReportInv /\ NeedInv /\ [Next]_vars => NeedInv'
  BY NextNeed
<1> QED
  BY <1>1, <1>2, ReportInvariant, PTL DEF Spec

\* What a step of the client does to a share, whichever it is.
LEMMA StepFrame ==
    ASSUME TypeInv, ReportInv, NeedInv, [Next]_vars, edits' = edits,
           NEW s \in Shares, nas[s].live
    PROVE  /\ nas'[s] # nas[s] => Want(s).state # "unmanaged"
           /\ Present(s) => nas'[s].live
           /\ nas'[s].live => \A d \in Dirs :
                 \/ nas'[s].dirs[d] = nas[s].dirs[d]
                 \/ /\ nas[s].dirs[d] \in {"missing", "empty"}
                    /\ d \in ManagedDirs(s)
           /\ nas'[s].live /\ nas[s].acl[Administrators] = "rw"
                 => nas'[s].acl[Administrators] = "rw"
<1>1. CASE nas'[s] = nas[s]
  BY <1>1
<1>2. CASE nas'[s] # nas[s]
  <2>1. /\ pc = "execute" /\ stage \in WriteStages /\ op \in Ops
        /\ \E share \in Possible : Put(share)
    BY <1>2, ClientWrites
  <2>2. PICK share \in Possible : Put(share)
    BY <2>1
  <2>3. s = op[1] /\ nas'[s] = share /\ Live = nas[s]
    <3>1. nas \in [Shares -> LiveShare]
      BY DEF TypeInv, DataInv
    <3> QED
      BY <1>2, <2>2, <3>1 DEF Put, OpShare, Live
  <2>4. status[op] # "none"
    BY <2>1 DEF ReportInv, ExecutionInv, Planned, WriteStages
  <2>5. Needed(op)
    BY <2>1, <2>4 DEF NeedInv
  <2>6. Present(s) => share.live
    BY <2>1, <2>3, WriteFrame DEF NeedInv, Present
  <2>7. OpDir = op[2] - 3
    BY DEF OpDir
  <2> QED
    BY <2>1, <2>3, <2>5, <2>6, <2>7, WriteFrame DEF Needed
<1> QED
  BY <1>1, <1>2

\* In every run, whatever others do and whatever fails: shares the document
\* does not name, and children it does not list, stay as they are, and a
\* share it wants stays.
THEOREM UntouchedOutsideCorrect == Spec => UntouchedOutside
<1>1. TypeInv /\ ReportInv /\ NeedInv /\ [Next]_vars =>
        [edits' = edits =>
          \A s \in Shares :
            /\ Want(s).state = "unmanaged" => nas'[s] = nas[s]
            /\ Present(s) /\ nas[s].live =>
                 /\ nas'[s].live
                 /\ \A d \in Dirs \ ManagedDirs(s) :
                       nas'[s].dirs[d] = nas[s].dirs[d]]_vars
  <2> SUFFICES ASSUME TypeInv, ReportInv, NeedInv, [Next]_vars,
                      edits' = edits, NEW s \in Shares
               PROVE  /\ Want(s).state = "unmanaged" => nas'[s] = nas[s]
                      /\ Present(s) /\ nas[s].live =>
                           /\ nas'[s].live
                           /\ \A d \in Dirs \ ManagedDirs(s) :
                                 nas'[s].dirs[d] = nas[s].dirs[d]
    OBVIOUS
  <2>1. Want(s).state = "unmanaged" => nas'[s] = nas[s]
    <3>1. CASE nas' = nas
      BY <3>1
    <3>2. CASE nas' # nas
      <4>1. /\ pc = "execute" /\ stage # "idle" /\ op \in Ops
            /\ \E share \in Possible : Put(share)
        BY <3>2, ClientWrites DEF WriteStages
      <4>2. Needed(op)
        BY <4>1 DEF NeedInv, ReportInv, ExecutionInv, Planned
      <4> QED
        BY <4>1, <4>2 DEF Needed, Put, OpShare, TypeInv, DataInv
    <3> QED
      BY <3>1, <3>2
  <2> QED
    BY <2>1, StepFrame
<1> QED
  BY <1>1, NeedInvariant, PTL DEF Spec, UntouchedOutside

\* No step of the client takes away a file or a directory with children.
THEOREM NoChildrenLostCorrect == Spec => NoChildrenLost
<1>1. TypeInv /\ ReportInv /\ NeedInv /\ [Next]_vars =>
        [edits' = edits =>
          \A s \in Shares, d \in Dirs :
            nas[s].live /\ nas'[s].live /\ nas[s].dirs[d] \in {"file", "full"}
              => nas'[s].dirs[d] = nas[s].dirs[d]]_vars
  BY StepFrame
<1> QED
  BY <1>1, NeedInvariant, PTL DEF Spec, NoChildrenLost

\* No step of the client takes the grant of the administrators away.
THEOREM AdministratorsKeptCorrect == Spec => AdministratorsKept
<1>1. TypeInv /\ ReportInv /\ NeedInv /\ [Next]_vars =>
        [edits' = edits =>
          \A s \in Shares :
            nas[s].live /\ nas'[s].live /\ nas[s].acl[Administrators] = "rw"
              => nas'[s].acl[Administrators] = "rw"]_vars
  BY StepFrame
<1> QED
  BY <1>1, NeedInvariant, PTL DEF Spec, AdministratorsKept


----------------------------------------------------------------------------
(* What is known whoever interferes: the stage is one of the operation's   *)
(* family, the shares behind the planner's cursor were accepted, and only  *)
(* canonical volumes have quotas.                                          *)

ScalarStages == {"scalarRead", "scalarSet", "scalarInner", "scalarVerify"}
AclStages == {"aclRead", "aclSet", "aclInner", "aclVerify"}
NfsStages == {"nfsRead", "nfsSet", "nfsInner", "nfsVerify"}

StageInv ==
    /\ stage \in {"createCall", "createCheck"} => Family(op) = "create"
    /\ stage \in ScalarStages => Family(op) \in {"create", "scalars"}
    /\ stage \in AclStages => op[2] = AclSlot
    /\ stage \in NfsStages => op[2] = NfsSlot
    /\ stage \in DirStages => op[2] > NfsSlot
    /\ stage = "deleteCall" => Family(op) = "delete"

CursorInv ==
    /\ pc = "list" => cur = 1 /\ \A s \in Shares, d \in Dirs : pre[s][d] = Unread
    /\ pc \in {"caps", "lookup", "build", "execute"} => cur = N + 1
    /\ pc \in {"acl", "nfs", "dirs"} => IsExisting(cur)
    /\ pc \in {"acl", "nfs", "dirs"} => inv[cur].volume = Want(cur).volume
    /\ \A s \in Shares : s < cur /\ Present(s) =>
          /\ inv[s].live => inv[s].volume = Want(s).volume
          /\ ~ inv[s].live => QuotaSupported(Want(s), FALSE, Unavailable)

\* A volume that is not one of the internal ones reports no quotas.
Metered(share) == share.quota # Unavailable => share.volume \in Canonical
NoExternalQuotas ==
    /\ \A start \in StartStates, s \in Shares : Metered(start[s])
    /\ \A share \in Edits : Metered(share)

MeterInv ==
    /\ \A s \in Shares : Metered(nas[s])
    /\ stage = "scalarSet" =>
          /\ Metered(snap)
          /\ QuotaRequest(OpWant) # Unavailable => snap.quota # Unavailable

\* Every step of an operation stays in its family, or ends it.
LEMMA OpStages ==
    ASSUME Read \/ Write \/ ReadFault \/ WriteLost \/ KillInWrite
    PROVE  /\ pc = "execute" /\ stage # "idle"
           /\ UNCHANGED <<doc, op, cur, inv, seen>>
           /\ \/ stage' \in {"idle", stage}
              \/ stage = "createCall" /\ stage' = "createCheck"
              \/ stage = "createCheck" /\ stage' = "scalarRead"
              \/ stage \in ScalarStages /\ stage' \in ScalarStages
              \/ stage \in AclStages /\ stage' \in AclStages
              \/ stage \in NfsStages /\ stage' \in NfsStages
              \/ stage \in DirStages /\ stage' \in DirStages
<1> USE DEF ReadStages, WriteStages, ScalarStages, AclStages, NfsStages, DirStages,
            Expect, ExpectLast, At, Goto, Succeed, Fail, Abort, ReadOnly, planVars
<1>1. CASE CheckCreated \/ ReadScalars \/ VerifyScalarsSet \/ VerifyScalars
  BY <1>1 DEF CheckCreated, ReadScalars, VerifyScalarsSet, VerifyScalars
<1>2. CASE ReadAclBefore \/ VerifyAclSet \/ VerifyAcl \/ ReadNfsBefore
           \/ VerifyNfsSaved \/ VerifyNfs
  BY <1>2 DEF ReadAclBefore, VerifyAclSet, VerifyAcl, ReadNfsBefore,
              VerifyNfsSaved, VerifyNfs
<1>3. CASE ReadNewDir
  BY <1>3 DEF ReadNewDir, DirStage
<1>4. CASE VerifyDirChild \/ VerifyDirPath \/ RecheckDir \/ VerifyDirGone \/ VerifyDir
  BY <1>4 DEF VerifyDirChild, VerifyDirPath, RecheckDir, VerifyDirGone, VerifyDir
<1>5. CASE ReadUnavailable \/ ReadFault
  BY <1>5 DEF ReadUnavailable, ReadFault, Broken
<1>6. CASE Write \/ WriteLost \/ KillInWrite
  BY <1>6 DEF Write, CreateShare, SetScalars, SetAcl, SaveNfs, CreateDir,
              DeleteDir, DeleteShare, WriteRefused, WriteLost, KillInWrite,
              WriteAnswered, opVars
<1> QED
  BY <1>1, <1>2, <1>3, <1>4, <1>5, <1>6 DEF Read

LEMMA FirstStageFits ==
    ASSUME NEW o \in Ops
    PROVE  LET first == FirstStage(o) IN
           /\ first \in {"createCall", "createCheck"} => Family(o) = "create"
           /\ first \in ScalarStages => Family(o) \in {"create", "scalars"}
           /\ first \in AclStages => o[2] = AclSlot
           /\ first \in NfsStages => o[2] = NfsSlot
           /\ first \in DirStages => o[2] > NfsSlot
           /\ first = "deleteCall" => Family(o) = "delete"
<1> USE DEF ScalarStages, AclStages, NfsStages, DirStages
<1>1. o[2] \in Int /\ o[2] >= 1
  BY SizeAssumption DEF Ops, Slots
<1>2. CASE o[2] = MainSlot
  <2>1. Family(o) \in {"delete", "create", "scalars"}
    BY <1>2 DEF Family, MainFamily, MainSlot, AclSlot, NfsSlot
  <2> QED
    BY <2>1 DEF FirstStage
<1>3. CASE o[2] = AclSlot
  <2>1. Family(o) = "acl"
    BY <1>3 DEF Family, MainSlot, AclSlot, NfsSlot
  <2> QED
    BY <1>3, <2>1 DEF FirstStage
<1>4. CASE o[2] = NfsSlot
  <2>1. Family(o) = "nfs"
    BY <1>4 DEF Family, MainSlot, AclSlot, NfsSlot
  <2> QED
    BY <1>4, <2>1 DEF FirstStage
<1>5. CASE o[2] > NfsSlot
  <2>1. Family(o) = "directory"
    BY <1>1, <1>5 DEF Family, MainSlot, AclSlot, NfsSlot
  <2>2. FirstStage(o) \in DirStages
    BY <2>1 DEF FirstStage, DirStage
  <2> QED
    BY <1>5, <2>2
<1> QED
  BY <1>1, <1>2, <1>3, <1>4, <1>5 DEF MainSlot, AclSlot, NfsSlot

LEMMA NextStageInv ==
    TypeInv /\ ReportInv /\ StageInv /\ [Next]_vars => StageInv'
<1> SUFFICES ASSUME TypeInv, ReportInv, StageInv, [Next]_vars PROVE StageInv'
  OBVIOUS
<1> DEFINE FamilySame ==
        Family(op)' = Family(op)
<1>1. ASSUME UNCHANGED <<doc, inv, op>> PROVE FamilySame
  BY <1>1 DEF Family, MainFamily, IsNew, Present, Want
<1>2. CASE Read \/ Write \/ ReadFault \/ WriteLost \/ KillInWrite
  <2>1. FamilySame /\ op' = op
    BY <1>1, <1>2, OpStages
  <2> QED
    BY <1>2, <2>1, OpStages
    DEF StageInv, ScalarStages, AclStages, NfsStages, DirStages
<1>3. CASE StartOp
  <2>1. PICK o \in Planned : op' = o /\ stage' = FirstStage(o)
    BY <1>3 DEF StartOp
  <2>2. Family(op)' = Family(o)
    BY <1>3, <2>1 DEF StartOp, planVars, Family, MainFamily, IsNew, Present, Want
  <2>3. o \in Ops
    BY DEF Planned
  <2> QED
    BY <2>1, <2>2, <2>3, FirstStageFits DEF StageInv
<1>4. CASE Rerun \/ Plan \/ PlanFault
  <2>1. stage' = "idle"
    BY <1>4 DEF Rerun, Fresh, PlanFault, PlanCalls, MakesClient, opVars,
       Plan, List, SkipShare, PlanNewShare, RejectVolume, ReadState, ReadAcl,
       ReadNfs, ReadDir, DirsRead, SharesRead, PreflightCreate,
       LookupPrincipals, Build, ReportInv, PlanningInv, PlanPcs
  <2> QED
    BY <2>1 DEF StageInv, ScalarStages, AclStages, NfsStages, DirStages
<1>5. CASE FinishPlan \/ Kill \/ Edit \/ UNCHANGED vars
  <2>1. UNCHANGED <<doc, inv, op, stage>>
    BY <1>5 DEF FinishPlan, Kill, Edit, planVars, opVars, vars
  <2> QED
    BY <1>1, <2>1 DEF StageInv
<1> QED
  BY <1>2, <1>3, <1>4, <1>5 DEF Next, Client, Fault


LEMMA NextCursorInv ==
    TypeInv /\ ReportInv /\ CursorInv /\ [Next]_vars => CursorInv'
<1> SUFFICES ASSUME TypeInv, ReportInv, CursorInv, [Next]_vars PROVE CursorInv'
  OBVIOUS
<1> USE DEF QuotaSupported, Unavailable
<1>1. /\ cur \in 1..(N + 1) /\ N \in Nat
      /\ \A s \in Shares : s \in Int /\ 1 <= s /\ s <= N
  BY SizeAssumption DEF TypeInv, DataInv, Shares
<1>2. ASSUME UNCHANGED <<doc, inv, cur, pre>>,
             pc' = pc \/ pc' = "done" \/ (pc' = "execute" /\ pc = "build")
      PROVE  CursorInv'
  BY <1>2 DEF CursorInv, IsExisting, Present, Want
<1>3. CASE Read \/ Write \/ ReadFault \/ WriteLost \/ KillInWrite
  <2>1. UNCHANGED <<doc, inv, cur>> /\ pc = "execute"
    BY <1>3, OpStages
  <2>2. pc' \in {"execute", "done"}
    BY <1>3, <2>1
    DEF Read, CheckCreated, ReadScalars, VerifyScalarsSet, VerifyScalars,
        ReadAclBefore, VerifyAclSet, VerifyAcl, ReadNfsBefore, VerifyNfsSaved,
        VerifyNfs, ReadNewDir, VerifyDirChild, VerifyDirPath, RecheckDir,
        VerifyDirGone, VerifyDir, ReadUnavailable, ReadFault, Broken, Expect,
        ExpectLast, Goto, Succeed, Fail, Abort, Stop,
        Write, CreateShare, SetScalars, SetAcl, SaveNfs, CreateDir, DeleteDir,
        DeleteShare, WriteRefused, WriteLost, KillInWrite, WriteAnswered
  <2> QED
    BY <2>1, <2>2 DEF CursorInv, IsExisting, Present, Want
<1>4. CASE List
  BY <1>1, <1>4 DEF List, CursorInv, IsExisting, Present, Want
<1>5. CASE SkipShare
  BY <1>1, <1>5 DEF SkipShare, NextShare, CursorInv, IsExisting, Present, Want
<1>6. CASE PlanNewShare
  BY <1>1, <1>6
  DEF PlanNewShare, NextShare, Stop, CursorInv, IsNew, IsExisting, Present, Want
<1>7. CASE ReadState \/ ReadAcl \/ ReadNfs \/ ReadDir
  BY <1>1, <1>7
  DEF ReadState, ReadAcl, ReadNfs, ReadDir, Stop, CursorInv, IsExisting, Present, Want
<1>8. CASE DirsRead
  <2>1. /\ IsExisting(cur) /\ inv[cur].volume = Want(cur).volume
        /\ pc' = "share" /\ cur' = cur + 1 /\ UNCHANGED <<doc, inv>>
    BY <1>8 DEF DirsRead, NextShare, CursorInv
  <2> QED
    BY <1>1, <2>1 DEF CursorInv, IsExisting, Present, Want
<1>9. CASE SharesRead \/ PreflightCreate \/ LookupPrincipals
  BY <1>1, <1>9
  DEF SharesRead, PreflightCreate, LookupPrincipals, Stop, planVars, CursorInv,
      IsExisting, Present, Want, Shares
<1>10. CASE RejectVolume \/ Build \/ StartOp \/ FinishPlan \/ PlanFault \/ Kill
            \/ Edit \/ UNCHANGED vars
  BY <1>2, <1>10
  DEF RejectVolume, Build, StartOp, FinishPlan, PlanFault, Kill, Edit, Stop,
      planVars, vars
<1>11. CASE Rerun
  BY <1>11, <1>1 DEF Rerun, Fresh, CursorInv, Shares
<1> QED
  BY <1>3, <1>4, <1>5, <1>6, <1>7, <1>8, <1>9, <1>10, <1>11
  DEF Next, Client, Fault, Plan

\* A call that writes leaves the share with a quota only where quotas are.
LEMMA PutMetered ==
    ASSUME TypeInv, ReportInv, StageInv, CursorInv, MeterInv, pc = "execute",
           stage \in WriteStages, op \in Ops, NEW share \in Possible
    PROVE  Metered(share)
<1>1. Live \in LiveShare /\ Metered(Live) /\ op[1] \in Shares
  BY DEF TypeInv, DataInv, Live, Ops, MeterInv
<1>2. snap \in LiveShare
  BY DEF TypeInv, DataInv
<1>3. OpWant \in DesiredShare
  BY <1>1 DEF TypeInv, DataInv, Document, OpWant, Want
<1>4. CASE stage = "createCall" /\ share \in Created
  <2>1. Family(op) = "create"
    BY <1>4 DEF StageInv
  <2>2. Present(op[1]) /\ ~ inv[op[1]].live
    <3>1. op[2] = MainSlot /\ MainFamily(op[1]) = "create"
      BY <2>1 DEF Family, Ops, Slots, MainSlot, AclSlot, NfsSlot
    <3> QED
      BY <3>1 DEF MainFamily, IsNew
  <2>3. OpWant.quota # Unavailable => OpWant.volume \in Canonical
    BY <1>1, <2>2, SizeAssumption
    DEF CursorInv, QuotaSupported, OpWant, Shares
  <2>4. share.volume = OpWant.volume
    BY <1>4 DEF Created
  <2>5. QuotaRequest(OpWant) = Unavailable => share.quota = Unavailable
    BY <1>4 DEF Created
  <2> QED
    BY <2>3, <2>4, <2>5 DEF Metered, QuotaRequest
<1>5. CASE stage = "scalarSet" /\ Live.live /\ share \in ScalarsSet
  <2>1. share.volume = snap.volume
    BY <1>1, <1>5 DEF ScalarsSet, LiveShare
  <2>2. share.quota = IF QuotaRequest(OpWant) # Unavailable
                      THEN QuotaRequest(OpWant)
                      ELSE IF Live.volume = snap.volume THEN Live.quota
                      ELSE snap.quota
    BY <1>1, <1>5 DEF ScalarsSet, LiveShare
  <2> QED
    BY <1>1, <1>5, <2>1, <2>2 DEF Metered, MeterInv
<1>6. CASE share.volume = Live.volume /\ share.quota = Live.quota
  BY <1>1, <1>6 DEF Metered
<1>7. CASE share = Vacant
  BY <1>7 DEF Vacant, Metered
<1>8. CASE stage = "aclSet" /\ \E done \in SUBSET AclDelta : share = AclSet(done)
  BY <1>1, <1>6, <1>8 DEF AclSet, LiveShare
<1>9. CASE \/ share = Live \/ share = [Live EXCEPT !.nfs = OpWant.nfs]
           \/ share = [Live EXCEPT !.dirs[OpDir] = "empty"]
           \/ share = [Live EXCEPT !.dirs[OpDir] = "missing"]
  BY <1>1, <1>6, <1>9 DEF LiveShare
<1> QED
  BY <1>4, <1>5, <1>7, <1>8, <1>9, PossibleIs

LEMMA NextMeterInv ==
    ASSUME NoExternalQuotas, TypeInv, ReportInv, StageInv, CursorInv, MeterInv,
           [Next]_vars
    PROVE  MeterInv'
<1>1. \A s \in Shares : Metered(nas'[s])
  <2>1. CASE edits' = edits
    BY <2>1, ClientWrites, PutMetered
    DEF MeterInv, TypeInv, DataInv, Put, OpShare, Ops, WriteStages
  <2>2. CASE Edit
    <3>1. PICK s \in Shares, share \in Edits \cup {Vacant} :
              nas' = [nas EXCEPT ![s] = share]
      BY <2>2 DEF Edit
    <3>2. Metered(share)
      BY DEF NoExternalQuotas, Vacant, Metered
    <3> QED
      BY <3>1, <3>2 DEF MeterInv, TypeInv, DataInv
  <2>3. ~ Edit => edits' = edits
    BY DEF Next, Client, Fault, Plan, Write, Read, vars, budgets,
       List, SkipShare, PlanNewShare, RejectVolume, ReadState, ReadAcl,
       ReadNfs, ReadDir, DirsRead, SharesRead, PreflightCreate,
       LookupPrincipals, Build, StartOp, FinishPlan,
       CheckCreated, ReadScalars, VerifyScalarsSet, VerifyScalars,
       ReadAclBefore, VerifyAclSet, VerifyAcl, ReadNfsBefore, VerifyNfsSaved,
       VerifyNfs, ReadNewDir, VerifyDirChild, VerifyDirPath, RecheckDir,
       VerifyDirGone, VerifyDir, ReadUnavailable, Expect, ExpectLast, ReadOnly,
       PlanFault, ReadFault, Kill, Rerun, CreateShare, SetScalars, SetAcl,
       SaveNfs, CreateDir, DeleteDir, DeleteShare, WriteRefused, WriteLost,
       KillInWrite, WriteAnswered
  <2> QED
    BY <2>1, <2>2, <2>3
<1>2. ASSUME stage' = "scalarSet"
      PROVE  /\ Metered(snap')
             /\ QuotaRequest(OpWant)' # Unavailable => snap'.quota # Unavailable
  <2>1. CASE ReadScalars
    <3>1. /\ snap' = Live /\ UNCHANGED <<doc, op>> /\ stage = "scalarRead"
          /\ QuotaRequest(OpWant) # Unavailable => Live.quota # Unavailable
      BY <1>2, <2>1 DEF ReadScalars, Abort, At, ReadOnly
    <3>2. op[1] \in Shares
      BY <3>1 DEF TypeInv, ControlInv, Ops
    <3>3. Metered(Live)
      BY <3>2 DEF Live, MeterInv
    <3> QED
      BY <3>1, <3>3 DEF OpWant, Want
  <2>2. CASE ~ ReadScalars
    <3>1. stage = "scalarSet" /\ UNCHANGED <<doc, op, snap>>
      <4>1. CASE Read \/ Write \/ ReadFault \/ WriteLost \/ KillInWrite
        BY <1>2, <2>2, <4>1
        DEF At, Goto, Succeed, Fail, Abort, Expect, ExpectLast, Read, CheckCreated,
            VerifyScalarsSet, VerifyScalars, ReadAclBefore, VerifyAclSet,
            VerifyAcl, ReadNfsBefore, VerifyNfsSaved, VerifyNfs, ReadNewDir,
            DirStage, VerifyDirChild, VerifyDirPath, RecheckDir, VerifyDirGone,
            VerifyDir, ReadUnavailable, ReadFault, Broken, ReadOnly,
            Write, CreateShare, SetScalars, SetAcl, SaveNfs, CreateDir,
            DeleteDir, DeleteShare, WriteRefused, WriteLost, KillInWrite,
            WriteAnswered, opVars
      <4>2. CASE StartOp
        <5>1. PICK o \in Planned : stage' = FirstStage(o)
          BY <4>2 DEF StartOp
        <5>2. FirstStage(o) # "scalarSet"
          BY DEF FirstStage, DirStage, Family, MainFamily, MainSlot, AclSlot,
                 NfsSlot, Planned, Ops, Slots
        <5> QED
          BY <1>2, <5>1, <5>2
      <4>3. CASE Plan \/ PlanFault \/ Kill \/ FinishPlan \/ Edit \/ UNCHANGED vars
        BY <1>2, <4>3
        DEF Plan, List, SkipShare, PlanNewShare, RejectVolume, ReadState,
            ReadAcl, ReadNfs, ReadDir, DirsRead, SharesRead, PreflightCreate,
            LookupPrincipals, Build, PlanFault, Kill, FinishPlan, Edit, opVars,
            vars
      <4>4. CASE Rerun
        BY <1>2, <4>4 DEF Rerun, Fresh
      <4> QED
        BY <4>1, <4>2, <4>3, <4>4 DEF Next, Client, Fault
    <3> QED
      BY <3>1 DEF MeterInv, OpWant, Want
  <2> QED
    BY <2>1, <2>2
<1> QED
  BY <1>1, <1>2 DEF MeterInv


----------------------------------------------------------------------------
(* What is known in a run nobody else writes into.                         *)

\* The plan is built from what the NAS holds.
CalmPlanInv ==
    ~ edited /\ pc \in PlanPcs \ {"list"} =>
        /\ inv = nas
        /\ \A s \in Shares :
              (s < cur \/ (s = cur /\ pc \in {"acl", "nfs", "dirs"}))
              /\ IsExisting(s) => seen[s] = nas[s]
        /\ \A s \in Shares, d \in Dirs :
              /\ pre[s][d].kind \in
                   {"unread", IF inv[s].live THEN nas[s].dirs[d] ELSE "missing"}
              /\ DirAcceptable(Want(s).dirs[d], pre[s][d].kind)
        /\ \A s \in Shares : s < cur /\ Present(s) => UnreadDirs(s) = {}

LEMMA InitCalmPlan == Init => CalmPlanInv
  BY DEF Init, CalmPlanInv

\* Reading a field again that has not changed.
LEMMA AclBack == \A share \in LiveShare : [share EXCEPT !.acl = share.acl] = share
  BY DEF LiveShare
LEMMA NfsBack == \A share \in LiveShare : [share EXCEPT !.nfs = share.nfs] = share
  BY DEF LiveShare

LEMMA NextCalmPlan ==
    TypeInv /\ ReportInv /\ CursorInv /\ CalmPlanInv /\ [Next]_vars => CalmPlanInv'
<1> SUFFICES ASSUME TypeInv, ReportInv, CursorInv, CalmPlanInv, [Next]_vars,
                    ~ edited', pc' \in PlanPcs \ {"list"}
             PROVE  CalmPlanInv'
  BY DEF CalmPlanInv
<1>1. /\ cur \in 1..(N + 1) /\ N \in Nat
      /\ \A s \in Shares : s \in Int /\ 1 <= s /\ s <= N
      /\ cur # N + 1 => cur \in Shares
  BY SizeAssumption DEF TypeInv, DataInv, Shares
<1>2. /\ nas \in [Shares -> LiveShare] /\ inv \in [Shares -> LiveShare]
      /\ seen \in [Shares -> LiveShare]
      /\ pre \in [Shares -> [Dirs -> DirPreflight]]
  BY DEF TypeInv, DataInv
<1>3. Plan \/ UNCHANGED vars
  <2>1. ~ Edit /\ ~ Rerun
    BY DEF Edit, Rerun, Fresh
  <2>2. ~ (FinishPlan \/ PlanFault \/ Kill \/ KillInWrite)
    BY DEF FinishPlan, PlanFault, Kill, KillInWrite, Stop, PlanPcs
  <2>3. ~ (Read \/ Write \/ ReadFault \/ WriteLost \/ StartOp)
    <3>1. ASSUME Read \/ Write \/ ReadFault \/ WriteLost \/ StartOp
          PROVE  pc' \in {"execute", "done"}
      BY <3>1, OpStages
      DEF StartOp, Read, CheckCreated, ReadScalars, VerifyScalarsSet, VerifyScalars,
          ReadAclBefore, VerifyAclSet, VerifyAcl, ReadNfsBefore, VerifyNfsSaved,
          VerifyNfs, ReadNewDir, VerifyDirChild, VerifyDirPath, RecheckDir,
          VerifyDirGone, VerifyDir, ReadUnavailable, ReadFault, Broken, Expect,
          ExpectLast, Goto, Succeed, Fail, Abort, Stop,
          Write, CreateShare, SetScalars, SetAcl, SaveNfs, CreateDir, DeleteDir,
          DeleteShare, WriteRefused, WriteLost, WriteAnswered
    <3> QED
      BY <3>1 DEF PlanPcs
  <2> QED
    BY <2>1, <2>2, <2>3 DEF Next, Client, Fault
<1>4. /\ pc \in PlanPcs /\ UNCHANGED <<doc, nas, edited>>
      /\ ~ edited
  <2>1. CASE UNCHANGED vars
    BY <2>1 DEF vars, ghosts
  <2>2. Plan => pc \in PlanPcs /\ UNCHANGED <<doc, nas, edited>>
    BY DEF ghosts, Plan, List, SkipShare, PlanNewShare, RejectVolume,
       ReadState, ReadAcl, ReadNfs, ReadDir, DirsRead, SharesRead,
       PreflightCreate, LookupPrincipals, Build, PlanPcs
  <2> QED
    BY <1>3, <2>1, <2>2
<1> USE DEF CalmPlanInv, IsExisting, Present, Want, UnreadDirs, ManagedDirs,
            DirAcceptable
<1>5. CASE List
  <2>1. /\ cur' = 1 /\ inv' = nas' /\ pc' = "share" /\ pre' = pre
        /\ \A s \in Shares, d \in Dirs : pre[s][d] = Unread
    BY <1>4, <1>5 DEF List, CursorInv
  <2>2. Unread.kind = "unread"
    BY DEF Unread
  <2>3. \A s \in Shares, d \in Dirs : pre'[s][d].kind = "unread"
    BY <2>1, <2>2
  <2> QED
    BY <1>1, <2>1, <2>3
<1>6. CASE SkipShare
  <2>1. /\ pc = "share" /\ ~ IsExisting(cur) /\ ~ Present(cur) /\ cur' = cur + 1
        /\ pc' = "share" /\ UNCHANGED <<inv, seen, pre>> /\ cur \in Shares
    BY <1>6 DEF SkipShare, NextShare
  <2> QED
    BY <1>1, <1>4, <2>1 DEF PlanPcs
<1>7. CASE PlanNewShare
  <2>1. /\ cur \in Shares /\ ~ inv[cur].live /\ pc = "share"
        /\ cur' = cur + 1 /\ pc' = "share" /\ UNCHANGED <<inv, seen>>
        /\ pre' = [pre EXCEPT ![cur] =
                  [d \in Dirs |->
                     IF d \in ManagedDirs(cur)
                     THEN [kind |-> "missing", volume |-> Want(cur).volume]
                     ELSE @[d]]]
    BY <1>7, <1>4 DEF PlanNewShare, NextShare, IsNew, Stop, PlanPcs
  <2>2. \A s \in Shares, d \in Dirs :
          pre'[s][d].kind = IF s = cur /\ d \in ManagedDirs(cur) THEN "missing"
                            ELSE pre[s][d].kind
    BY <1>2, <2>1
  <2>3. \A s \in Shares, d \in Dirs :
          /\ pre'[s][d].kind \in
               {"unread", IF inv'[s].live THEN nas'[s].dirs[d] ELSE "missing"}
          /\ DirAcceptable(Want(s).dirs[d], pre'[s][d].kind)
    BY <1>4, <2>1, <2>2 DEF PlanPcs
  <2>4. \A s \in Shares : s < cur' /\ Present(s)' => UnreadDirs(s)' = {}
    BY <1>1, <1>4, <2>1, <2>2 DEF PlanPcs
  <2>5. \A s \in Shares : s < cur' /\ IsExisting(s)' => seen'[s] = nas'[s]
    BY <1>1, <1>4, <2>1 DEF PlanPcs
  <2> QED
    BY <1>4, <2>1, <2>3, <2>4, <2>5 DEF PlanPcs
<1>8. CASE RejectVolume \/ Build
  BY <1>8, <1>4 DEF RejectVolume, Build, Stop, PlanPcs
<1>9. CASE ReadState \/ ReadAcl \/ ReadNfs
  <2>1. /\ cur \in Shares /\ pc \in {"share", "acl", "nfs"}
        /\ pc' \in {"acl", "nfs", "dirs"} /\ UNCHANGED <<inv, cur, pre>>
    BY <1>9, <1>4 DEF ReadState, ReadAcl, ReadNfs, Stop, PlanPcs, TypeInv, ControlInv
  <2>2. \A s \in Shares : seen'[s] = seen[s] \/ (s = cur /\ seen'[s] = nas[s])
    <3>1. CASE ReadState
      BY <1>2, <3>1 DEF ReadState
    <3>2. CASE ReadAcl
      <4>1. seen[cur] = nas[cur]
        BY <1>4, <2>1, <3>2 DEF ReadAcl, CursorInv, PlanPcs
      <4>2. \/ seen' = seen
            \/ seen' = [seen EXCEPT ![cur].acl = nas[cur].acl]
        BY <3>2 DEF ReadAcl
      <4> QED
        BY <1>2, <1>9, <2>1, <4>1, <4>2, AclBack
    <3>3. CASE ReadNfs
      <4>1. seen[cur] = nas[cur]
        BY <1>4, <2>1, <3>3 DEF ReadNfs, CursorInv, PlanPcs
      <4>2. \/ seen' = seen
            \/ seen' = [seen EXCEPT ![cur].nfs = nas[cur].nfs]
        BY <3>3 DEF ReadNfs
      <4> QED
        BY <1>2, <1>9, <2>1, <4>1, <4>2, NfsBack
    <3> QED
      BY <1>9, <3>1, <3>2, <3>3
  <2>3. seen'[cur] = nas[cur]
    <3>1. CASE ReadState
      BY <1>2, <1>4, <3>1 DEF ReadState, Stop, PlanPcs
    <3>2. CASE ReadAcl \/ ReadNfs
      BY <1>4, <2>1, <2>2, <3>2 DEF ReadAcl, ReadNfs, CursorInv, PlanPcs
    <3> QED
      BY <1>9, <3>1, <3>2
  <2> QED
    BY <1>1, <1>4, <2>1, <2>2, <2>3 DEF PlanPcs
<1>10. CASE ReadDir
  <2>1. PICK d \in UnreadDirs(cur) :
           /\ pre' = [pre EXCEPT ![cur][d] =
                        [kind |-> nas[cur].dirs[d], volume |-> nas[cur].volume]]
           /\ DirAcceptable(Want(cur).dirs[d], nas[cur].dirs[d])
    BY <1>4, <1>10 DEF ReadDir, Stop, PlanPcs
  <2>2. /\ cur \in Shares /\ pc = "dirs" /\ pc' = "dirs" /\ inv[cur].live
        /\ UNCHANGED <<inv, cur, seen>>
    BY <1>4, <1>10 DEF ReadDir, Stop, PlanPcs, CursorInv, TypeInv, ControlInv
  <2>3. \A s \in Shares, e \in Dirs :
          pre'[s][e].kind = IF s = cur /\ e = d THEN nas[cur].dirs[d]
                            ELSE pre[s][e].kind
    BY <1>2, <2>1, <2>2
  <2>4. \A s \in Shares : s < cur => pre'[s] = pre[s]
    BY <1>1, <1>2, <2>1, <2>2
  <2>5. \A s \in Shares, e \in Dirs : DirAcceptable(Want(s).dirs[e], pre'[s][e].kind)
    BY <1>4, <2>1, <2>2, <2>3 DEF PlanPcs
  <2>6. \A s \in Shares, e \in Dirs :
          pre'[s][e].kind \in
            {"unread", IF inv'[s].live THEN nas'[s].dirs[e] ELSE "missing"}
    BY <1>4, <2>2, <2>3 DEF PlanPcs
  <2>7. \A s \in Shares : s < cur' /\ Present(s)' => UnreadDirs(s)' = {}
    BY <1>1, <1>4, <2>2, <2>4 DEF PlanPcs
  <2>8. inv' = nas' /\ doc' = doc
    BY <1>4, <2>2 DEF PlanPcs
  <2>9. \A s \in Shares : s < cur' \/ s = cur' =>
          (IsExisting(s)' => seen'[s] = nas'[s])
    BY <1>1, <1>4, <2>2 DEF PlanPcs
  <2> QED
    BY <2>2, <2>5, <2>6, <2>7, <2>8, <2>9
<1>11. CASE DirsRead
  <2>1. /\ pc = "dirs" /\ UnreadDirs(cur) = {} /\ cur' = cur + 1
        /\ pc' = "share" /\ UNCHANGED <<inv, seen, pre>> /\ cur \in Shares
    BY <1>11 DEF DirsRead, NextShare, TypeInv, ControlInv
  <2> QED
    BY <1>1, <1>4, <2>1 DEF PlanPcs
<1>12. CASE SharesRead \/ PreflightCreate \/ LookupPrincipals
  BY <1>1, <1>4, <1>12
  DEF SharesRead, PreflightCreate, LookupPrincipals, Stop, planVars, PlanPcs
<1>13. CASE UNCHANGED vars
  BY <1>4, <1>13 DEF vars, planVars
<1> QED
  BY <1>3, <1>5, <1>6, <1>7, <1>8, <1>9, <1>10, <1>11, <1>12, <1>13 DEF Plan


\* The fields a call may change are those of its operation.
LEMMA WriteFields ==
    ASSUME TypeInv, StageInv, stage \in WriteStages, op \in Ops,
           NEW share \in Possible
    PROVE  /\ op[2] # MainSlot =>
                /\ share.live = Live.live /\ share.volume = Live.volume
                /\ share.desc = Live.desc /\ share.quota = Live.quota
                /\ share.hidden = Live.hidden
           /\ op[2] \notin {MainSlot, AclSlot} \/ stage = "scalarSet"
                => share.acl = Live.acl
           /\ op[2] \notin {MainSlot, NfsSlot} \/ stage = "scalarSet"
                => share.nfs = Live.nfs
           /\ \A d \in Dirs :
                op[2] \notin {MainSlot, DirSlot(d)} \/ stage = "scalarSet"
                  => share.dirs[d] = Live.dirs[d]
<1>1. Live \in LiveShare /\ op[2] \in Int
  BY SizeAssumption DEF TypeInv, DataInv, Live, Ops, Slots
<1>2. CASE share = Live
  BY <1>1, <1>2
<1>3. CASE stage \in {"createCall", "deleteCall"}
  <2>1. op[2] = MainSlot
    BY <1>3 DEF StageInv, Family, MainSlot, AclSlot, NfsSlot, Ops, Slots
  <2> QED
    BY <1>3, <2>1 DEF MainSlot, AclSlot, NfsSlot, DirSlot
<1>4. CASE stage = "scalarSet" /\ share \in ScalarsSet
  <2>1. op[2] = MainSlot
    BY <1>4 DEF StageInv, ScalarStages, Family, MainSlot, AclSlot, NfsSlot, Ops, Slots
  <2>2. share.acl = Live.acl /\ share.nfs = Live.nfs /\ share.dirs = Live.dirs
    BY <1>1, <1>4 DEF ScalarsSet, LiveShare
  <2> QED
    BY <2>1, <2>2
<1>5. CASE stage = "aclSet" /\ \E done \in SUBSET AclDelta : share = AclSet(done)
  <2>1. op[2] = AclSlot
    BY <1>5 DEF StageInv, AclStages
  <2> QED
    BY <1>1, <1>5, <2>1 DEF AclSet, LiveShare, MainSlot, AclSlot, NfsSlot
<1>6. CASE stage = "nfsSet" /\ share = [Live EXCEPT !.nfs = OpWant.nfs]
  <2>1. op[2] = NfsSlot
    BY <1>6 DEF StageInv, NfsStages
  <2> QED
    BY <1>1, <1>6, <2>1 DEF LiveShare, MainSlot, AclSlot, NfsSlot
<1>7. ASSUME stage \in {"dirCreate", "dirDelete"},
             NEW kind, share = [Live EXCEPT !.dirs[OpDir] = kind]
      PROVE  /\ share.live = Live.live /\ share.volume = Live.volume
             /\ share.desc = Live.desc /\ share.quota = Live.quota
             /\ share.hidden = Live.hidden
             /\ share.acl = Live.acl /\ share.nfs = Live.nfs
             /\ \A d \in Dirs : op[2] # DirSlot(d) => share.dirs[d] = Live.dirs[d]
             /\ stage # "scalarSet" /\ op[2] > NfsSlot
  <2>1. op[2] > NfsSlot
    BY <1>7 DEF StageInv, DirStages
  <2>2. \A d \in Dirs : op[2] # DirSlot(d) => d # OpDir
    BY <1>1, SizeAssumption DEF Dirs, DirSlot, OpDir
  <2> QED
    BY <1>1, <1>7, <2>1, <2>2 DEF LiveShare
<1> QED
  <2>1. CASE stage \in {"dirCreate", "dirDelete"} /\ share # Live
    BY <1>1, <1>7, <2>1, PossibleIs DEF MainSlot, AclSlot, NfsSlot
  <2> QED
    BY <1>2, <1>3, <1>4, <1>5, <1>6, <2>1, PossibleIs DEF WriteStages


\* What the document says of a share that the slot of an operation is for,
\* whether or not the plan has that operation.
Concerns(o) ==
    Present(o[1]) \/ (Want(o[1]).state = "absent" /\ o[2] = MainSlot)
Settled(o) ==
    LET live == nas[o[1]]
        want == Want(o[1])
    IN  /\ o[2] = MainSlot =>
              IF want.state = "absent" THEN ~ live.live
              ELSE /\ live.live /\ live.volume = want.volume
                   /\ want.desc # Omitted => live.desc = want.desc
                   /\ QuotaPlanned(want, live.quota) = live.quota
        /\ o[2] = AclSlot => AclMatches(want, live.acl)
        /\ o[2] = NfsSlot => live.nfs = want.nfs
        /\ \A d \in Dirs : o[2] = DirSlot(d) /\ live.live =>
              /\ want.dirs[d] = "present" => live.dirs[d] \in {"empty", "full"}
              /\ want.dirs[d] = "absent" => live.dirs[d] = "missing"

\* While a plan is executed, what it has done holds and so does what it had
\* no reason to do.  A share to create gets its main operations, and one
\* for every directory it shall have, since nothing can hold for it yet.
HoldsInv ==
    ~ edited =>
      /\ \A o \in Ops : status[o] = "SUCCEEDED" => OpHolds(o)
      /\ pc = "execute" =>
          /\ \A o \in Ops : status[o] = "none" /\ Concerns(o) => Settled(o)
          /\ \A o \in Ops : IsNew(o[1]) /\ status[o] = "none" =>
                /\ o[2] > NfsSlot
                /\ \A d \in Dirs :
                      o[2] = DirSlot(d) => Want(o[1]).dirs[d] # "present"
          /\ stage = "scalarSet" => snap = Live
          /\ stage = "scalarVerify" /\ QuotaRequest(OpWant) # Unavailable
                => Live.quota = QuotaRequest(OpWant)

\* What the plan leaves out is as the document says.
LEMMA LeftOutSettled ==
    ASSUME TypeInv, CursorInv, CalmPlanInv, pc = "build", ~ edited,
           NEW o \in Ops, ~ InPlan(o)
    PROVE  /\ Concerns(o) => Settled(o)
           /\ IsNew(o[1]) => o[2] > NfsSlot
           /\ IsNew(o[1]) => \A d \in Dirs :
                 o[2] = DirSlot(d) => Want(o[1]).dirs[d] # "present"
<1>1. /\ o[1] \in Shares /\ o[1] < cur
      /\ o[2] \in 1..(3 + D) /\ D \in Nat
  BY SizeAssumption DEF Ops, Slots, Shares, CursorInv
<1>2. /\ inv = nas
      /\ IsExisting(o[1]) => seen[o[1]] = nas[o[1]]
      /\ Present(o[1]) => UnreadDirs(o[1]) = {}
      /\ \A d \in Dirs :
            /\ pre[o[1]][d].kind \in
                 {"unread", IF inv[o[1]].live THEN nas[o[1]].dirs[d] ELSE "missing"}
            /\ DirAcceptable(Want(o[1]).dirs[d], pre[o[1]][d].kind)
  BY <1>1 DEF CalmPlanInv, PlanPcs
<1>3. nas[o[1]] \in LiveShare /\ Want(o[1]) \in DesiredShare
  BY <1>1 DEF TypeInv, DataInv, Document, Want
<1>4. ASSUME NEW d \in Dirs, o[2] = DirSlot(d), Present(o[1])
      PROVE  /\ IsNew(o[1]) => Want(o[1]).dirs[d] # "present"
             /\ nas[o[1]].live /\ Want(o[1]).dirs[d] = "present"
                  => nas[o[1]].dirs[d] \in {"empty", "full"}
             /\ nas[o[1]].live /\ Want(o[1]).dirs[d] = "absent"
                  => nas[o[1]].dirs[d] = "missing"
  <2>1. o[2] \notin DirectoryOperations(o[1])
    BY <1>4 DEF InPlan, IsNew, IsExisting
  <2>2. ~ DirOperation(Want(o[1]).dirs[d], pre[o[1]][d].kind)
    BY <1>4, <2>1 DEF DirectoryOperations
  <2>3. Want(o[1]).dirs[d] # "unmanaged" => pre[o[1]][d].kind # "unread"
    BY <1>2, <1>4 DEF UnreadDirs, ManagedDirs
  <2>4. nas[o[1]].dirs[d] \in DirKinds
    BY <1>3 DEF LiveShare
  <2> QED
    BY <1>2, <2>2, <2>3, <2>4 DEF IsNew, DirOperation, DirAcceptable, DirKinds
<1>5. IsNew(o[1]) => o[2] > NfsSlot
  BY <1>1 DEF InPlan, CreateOperations, MainSlot, AclSlot, NfsSlot
<1>6. IsNew(o[1]) => \A d \in Dirs :
          o[2] = DirSlot(d) => Want(o[1]).dirs[d] # "present"
  BY <1>4 DEF IsNew
<1>7. ASSUME Concerns(o) PROVE Settled(o)
  <2>1. CASE o[2] = MainSlot
    <3>1. CASE Want(o[1]).state = "absent"
      <4>1. ~ nas[o[1]].live
        BY <1>2, <2>1, <3>1 DEF InPlan, IsNew, IsExisting, Present
      <4> QED
        BY <2>1, <3>1, <4>1 DEF Settled, MainSlot, AclSlot, NfsSlot, DirSlot
    <3>2. CASE Present(o[1])
      <4>1. IsExisting(o[1]) /\ nas[o[1]].live
        BY <1>2, <1>5, <2>1, <3>2 DEF IsNew, IsExisting, MainSlot, NfsSlot
      <4>2. ~ ScalarsDiffer(Want(o[1]), nas[o[1]])
        BY <1>2, <2>1, <4>1 DEF InPlan, ExistingOperations, IsNew, IsExisting
      <4>3. nas[o[1]].volume = Want(o[1]).volume
        BY <1>1, <1>2, <3>2, <4>1 DEF CursorInv
      <4>4. /\ Want(o[1]).desc # Omitted => nas[o[1]].desc = Want(o[1]).desc
            /\ QuotaPlanned(Want(o[1]), nas[o[1]].quota) = nas[o[1]].quota
        BY <4>2 DEF ScalarsDiffer, EffectiveDesc, QuotaPlanned, Unavailable, Unlimited
      <4> QED
        BY <2>1, <3>2, <4>1, <4>3, <4>4, SizeAssumption
        DEF Settled, Present, Dirs, MainSlot, AclSlot, NfsSlot, DirSlot
    <3> QED
      BY <1>7, <3>1, <3>2 DEF Concerns
  <2>2. CASE o[2] # MainSlot
    <3>1. Present(o[1])
      BY <1>7, <2>2 DEF Concerns
    <3>2. o[2] \in {AclSlot, NfsSlot} => IsExisting(o[1])
      BY <1>5, <3>1 DEF IsNew, IsExisting, AclSlot, NfsSlot
    <3>3. ASSUME o[2] \in {AclSlot, NfsSlot}
          PROVE  /\ seen[o[1]] = nas[o[1]]
                 /\ o[2] \notin ExistingOperations(o[1])
      BY <1>2, <3>2, <3>3 DEF InPlan, IsNew, IsExisting
    <3>4. o[2] = AclSlot => AclMatches(Want(o[1]), nas[o[1]].acl)
      BY <3>3 DEF ExistingOperations
    <3>5. o[2] = NfsSlot => nas[o[1]].nfs = Want(o[1]).nfs
      BY <3>3 DEF ExistingOperations
    <3> QED
      BY <1>4, <2>2, <3>1, <3>4, <3>5 DEF Settled
  <2> QED
    BY <2>1, <2>2
<1> QED
  BY <1>5, <1>6, <1>7


\* A step that leaves the NAS and the plan's readings alone.
LEMMA SameHolds ==
    ASSUME UNCHANGED <<doc, nas, inv, seen>>, NEW o \in Ops
    PROVE  /\ OpHolds(o)' <=> OpHolds(o)
           /\ Settled(o)' <=> Settled(o)
           /\ Concerns(o)' <=> Concerns(o)
           /\ IsNew(o[1])' <=> IsNew(o[1])
           /\ Want(o[1])' = Want(o[1])
<1>1. /\ Want(o[1])' = Want(o[1]) /\ nas'[o[1]] = nas[o[1]]
      /\ IsNew(o[1])' <=> IsNew(o[1])
      /\ Concerns(o)' <=> Concerns(o)
  BY DEF Want, IsNew, Present, Concerns
<1>2. Family(o)' = Family(o) /\ Desc(o[1])' = Desc(o[1])
  BY DEF Want, IsNew, Present, Family, MainFamily, Desc
<1>3. OpHolds(o)' <=> OpHolds(o)
  BY <1>1, <1>2 DEF OpHolds
<1>4. Settled(o)' <=> Settled(o)
  BY <1>1 DEF Settled
<1> QED
  BY <1>1, <1>3, <1>4

\* The main operation of a present share holds when its fields are read so.
LEMMA MainHolds ==
    ASSUME TypeInv, MeterInv, op \in Ops, Family(op) \in {"create", "scalars"},
           Live.live, Live.volume = OpWant.volume, Live.desc = Desc(OpShare),
           QuotaRequest(OpWant) # Unavailable => Live.quota = QuotaRequest(OpWant)
    PROVE  OpHolds(op)
<1>1. op[1] \in Shares
  BY DEF Ops
<1>2. Metered(Live)
  BY <1>1 DEF Live, MeterInv
<1>3. QuotaPlanned(OpWant, Live.quota) = Live.quota
  <2>1. CASE OpWant.quota # Unavailable
    BY <2>1 DEF QuotaRequest, QuotaPlanned
  <2>2. CASE OpWant.quota = Unavailable /\ OpWant.volume \in Canonical
    BY <2>2 DEF QuotaRequest, QuotaPlanned, Unavailable, Unlimited
  <2>3. CASE OpWant.quota = Unavailable /\ OpWant.volume \notin Canonical
    BY <1>2, <2>3 DEF Metered, QuotaPlanned
  <2> QED
    BY <2>1, <2>2, <2>3
<1>4. OpWant = Want(op[1]) /\ Live = nas[op[1]] /\ OpShare = op[1]
  BY DEF OpWant, Live, OpShare
<1> QED
  BY <1>3, <1>4 DEF OpHolds

\* What a read-back accepts holds.
LEMMA VerifiedHolds ==
    ASSUME TypeInv, ReportInv, StageInv, MeterInv, HoldsInv, ~ edited,
           Read \/ ReadFault, status'[op] = "SUCCEEDED"
    PROVE  OpHolds(op)
<1>1. /\ pc = "execute" /\ stage # "idle"
      /\ op \in Ops /\ status[op] = "PLANNED"
  BY OpStages DEF ReportInv, ExecutionInv, Planned
<1>2. status \in [Ops -> Statuses]
  BY DEF TypeInv, ControlInv
<1>3. Live \in LiveShare /\ OpWant \in DesiredShare
  BY <1>1 DEF TypeInv, DataInv, Live, Ops, OpWant, Want, Document
<1>4. OpWant = Want(op[1]) /\ Live = nas[op[1]] /\ OpShare = op[1]
  BY DEF OpWant, Live, OpShare
<1> USE DEF At, Goto, Fail, Abort, Expect, ExpectLast
<1>5. CASE CheckCreated
  <2>1. /\ Live.volume = OpWant.volume /\ Live.live /\ Live.desc = Desc(OpShare)
        /\ QuotaAsRequested(Live.quota) /\ Family(op) = "create"
    BY <1>1, <1>2, <1>5 DEF CheckCreated, Readable, StageInv
  <2> QED
    BY <1>1, <2>1, MainHolds DEF QuotaAsRequested
<1>6. CASE VerifyScalars
  <2>1. /\ Live.volume = OpWant.volume /\ Live.live /\ Live.desc = Desc(OpShare)
        /\ stage = "scalarVerify"
    BY <1>1, <1>2, <1>6 DEF VerifyScalars, Readable
  <2>2. Family(op) \in {"create", "scalars"}
    BY <2>1 DEF StageInv, ScalarStages
  <2> QED
    BY <1>1, <2>1, <2>2, MainHolds DEF HoldsInv
<1>7. CASE VerifyAcl
  <2>1. /\ Live.acl[Administrators] = "rw" /\ AclMatches(OpWant, Live.acl)
        /\ op[2] = AclSlot
    BY <1>1, <1>2, <1>7 DEF VerifyAcl, StageInv, AclStages
  <2>2. Live.acl = AclGoal(OpWant)
    BY <1>3, <2>1 DEF AclMatches, AclGoal, LiveShare, Accounts
  <2>3. Family(op) = "acl"
    BY <2>1 DEF Family, MainSlot, AclSlot, NfsSlot
  <2> QED
    BY <1>4, <2>2, <2>3 DEF OpHolds
<1>8. CASE VerifyNfs
  <2>1. Live.nfs = OpWant.nfs /\ op[2] = NfsSlot
    BY <1>1, <1>2, <1>8 DEF VerifyNfs, StageInv, NfsStages
  <2>2. Family(op) = "nfs"
    BY <2>1 DEF Family, MainSlot, AclSlot, NfsSlot
  <2> QED
    BY <1>4, <2>1, <2>2 DEF OpHolds
<1>9. CASE VerifyDir
  <2>1. /\ Live.dirs[OpDir] \in IF OpItem = "present" THEN {"empty", "full"}
                                ELSE {"missing"}
        /\ op[2] > NfsSlot
    BY <1>1, <1>2, <1>9 DEF VerifyDir, StageInv, DirStages
  <2>2. op[2] \in Int
    BY <1>1, SizeAssumption DEF Ops, Slots
  <2>3. Family(op) = "directory"
    BY <2>1, <2>2 DEF Family, MainSlot, AclSlot, NfsSlot
  <2>4. OpItem = Want(op[1]).dirs[op[2] - 3] /\ OpDir = op[2] - 3
    BY DEF OpItem, OpDir, OpWant
  <2> QED
    BY <1>4, <2>1, <2>3, <2>4 DEF OpHolds
<1>10. ASSUME ~ (CheckCreated \/ VerifyScalars \/ VerifyAcl \/ VerifyNfs \/ VerifyDir)
       PROVE  FALSE
  BY <1>1, <1>2, <1>10
  DEF Read, ReadScalars, VerifyScalarsSet, ReadAclBefore, VerifyAclSet,
      ReadNfsBefore, VerifyNfsSaved, ReadNewDir, VerifyDirChild, VerifyDirPath,
      RecheckDir, VerifyDirGone, ReadUnavailable, ReadFault, Broken, BrokenStatus
<1> QED
  BY <1>5, <1>6, <1>7, <1>8, <1>9, <1>10


\* A step that leaves alone what the slot of an operation is about.
LEMMA SlotKept ==
    ASSUME UNCHANGED <<doc, inv, seen>>, NEW o \in Ops,
           nas'[o[1]].live = nas[o[1]].live,
           o[2] = MainSlot =>
              /\ nas'[o[1]].volume = nas[o[1]].volume
              /\ nas'[o[1]].desc = nas[o[1]].desc
              /\ nas'[o[1]].quota = nas[o[1]].quota,
           o[2] = AclSlot => nas'[o[1]].acl = nas[o[1]].acl,
           o[2] = NfsSlot => nas'[o[1]].nfs = nas[o[1]].nfs,
           \A d \in Dirs : o[2] = DirSlot(d) =>
              nas'[o[1]].dirs[d] = nas[o[1]].dirs[d]
    PROVE  /\ OpHolds(o) <=> OpHolds(o)'
           /\ Settled(o) => Settled(o)'
<1>1. o[2] \in 1..(3 + D) /\ D \in Nat
  BY SizeAssumption DEF Ops, Slots
<1>2. /\ Want(o[1])' = Want(o[1]) /\ Family(o)' = Family(o)
      /\ Desc(o[1])' = Desc(o[1])
  BY DEF Want, IsNew, Present, Family, MainFamily, Desc
<1>3. Settled(o) => Settled(o)'
  BY <1>2 DEF Settled
<1>4. OpHolds(o) <=> OpHolds(o)'
  <2>1. CASE o[2] = MainSlot
    <3>1. Family(o) \in {"delete", "create", "scalars"}
      BY <2>1 DEF Family, MainFamily, MainSlot, AclSlot, NfsSlot
    <3> QED
      BY <1>2, <2>1, <3>1 DEF OpHolds
  <2>2. CASE o[2] = AclSlot
    <3>1. Family(o) = "acl"
      BY <2>2 DEF Family, MainSlot, AclSlot, NfsSlot
    <3> QED
      BY <1>2, <2>2, <3>1 DEF OpHolds
  <2>3. CASE o[2] = NfsSlot
    <3>1. Family(o) = "nfs"
      BY <2>3 DEF Family, MainSlot, AclSlot, NfsSlot
    <3> QED
      BY <1>2, <2>3, <3>1 DEF OpHolds
  <2>4. CASE o[2] > NfsSlot
    <3>1. Family(o) = "directory"
      BY <1>1, <2>4 DEF Family, MainSlot, AclSlot, NfsSlot
    <3>2. o[2] - 3 \in Dirs /\ o[2] = DirSlot(o[2] - 3)
      BY <1>1, <2>4 DEF Dirs, DirSlot, NfsSlot
    <3> QED
      BY <1>2, <3>1, <3>2 DEF OpHolds
  <2> QED
    BY <1>1, <2>1, <2>2, <2>3, <2>4 DEF MainSlot, AclSlot, NfsSlot
<1> QED
  BY <1>3, <1>4

LEMMA ReadHolds ==
    ASSUME TypeInv, ReportInv, StageInv, MeterInv, HoldsInv, Read \/ ReadFault
    PROVE  HoldsInv'
<1> SUFFICES ASSUME ~ edited' PROVE HoldsInv'
  BY DEF HoldsInv
<1>1. /\ pc = "execute" /\ stage # "idle" /\ op \in Ops /\ status[op] = "PLANNED"
      /\ UNCHANGED <<doc, op, cur, inv, seen>>
  BY OpStages DEF ReportInv, ExecutionInv, Planned
<1>2. UNCHANGED <<nas, edited>>
  BY DEF ghosts, Read, CheckCreated, ReadScalars, VerifyScalarsSet,
     VerifyScalars, ReadAclBefore, VerifyAclSet, VerifyAcl, ReadNfsBefore,
     VerifyNfsSaved, VerifyNfs, ReadNewDir, VerifyDirChild, VerifyDirPath,
     RecheckDir, VerifyDirGone, VerifyDir, ReadUnavailable, Expect, ExpectLast,
     ReadOnly, ReadFault
<1>3. ~ edited
  BY <1>2
<1>4. status \in [Ops -> Statuses]
  BY DEF TypeInv, ControlInv
<1>5. \A o \in Ops :
        /\ status'[o] = "SUCCEEDED" => status[o] = "SUCCEEDED" \/ o = op
        /\ status'[o] = "none" => status[o] = "none"
  <2>1. \/ \E next \in ReadStages \cup WriteStages : Goto(next)
        \/ Succeed \/ Fail("FAILED") \/ Fail("UNKNOWN") \/ Abort
    <3> USE DEF ReadStages, WriteStages, Expect, ExpectLast
    <3>1. CASE ReadNewDir
      BY <3>1 DEF ReadNewDir, DirStage
    <3>2. CASE CheckCreated \/ ReadScalars \/ VerifyScalarsSet \/ VerifyScalars
               \/ ReadAclBefore \/ VerifyAclSet \/ VerifyAcl
      BY <3>2 DEF CheckCreated, ReadScalars, VerifyScalarsSet, VerifyScalars,
                  ReadAclBefore, VerifyAclSet, VerifyAcl
    <3>3. CASE ReadNfsBefore \/ VerifyNfsSaved \/ VerifyNfs \/ VerifyDirChild
               \/ VerifyDirPath \/ RecheckDir \/ VerifyDirGone \/ VerifyDir
      BY <3>3 DEF ReadNfsBefore, VerifyNfsSaved, VerifyNfs, VerifyDirChild,
                  VerifyDirPath, RecheckDir, VerifyDirGone, VerifyDir
    <3>4. CASE ReadUnavailable \/ ReadFault
      BY <3>4 DEF ReadUnavailable, ReadFault, Broken, BrokenStatus
    <3> QED
      BY <3>1, <3>2, <3>3, <3>4 DEF Read
  <2> QED
    BY <1>1, <1>4, <2>1 DEF Goto, Succeed, Fail, Abort
<1>6. \A o \in Ops : status'[o] = "SUCCEEDED" => OpHolds(o)
  BY <1>3, <1>5, VerifiedHolds DEF HoldsInv
<1>7. pc' = "execute" /\ stage' = "scalarSet" => snap' = Live
  BY DEF At, Goto, Succeed, Fail, Abort, Stop, Expect, ExpectLast, Read, CheckCreated,
     ReadScalars, VerifyScalarsSet, VerifyScalars, ReadAclBefore, VerifyAclSet,
     VerifyAcl, ReadNfsBefore, VerifyNfsSaved, VerifyNfs, ReadNewDir, DirStage,
     VerifyDirChild, VerifyDirPath, RecheckDir, VerifyDirGone, VerifyDir,
     ReadUnavailable, ReadFault, Broken
<1>8. pc' = "execute" /\ stage' = "scalarVerify" => VerifyScalarsSet
  BY DEF At, Goto, Succeed, Fail, Abort, Stop, Expect, ExpectLast, Read, CheckCreated,
     ReadScalars, VerifyScalarsSet, VerifyScalars, ReadAclBefore, VerifyAclSet,
     VerifyAcl, ReadNfsBefore, VerifyNfsSaved, VerifyNfs, ReadNewDir, DirStage,
     VerifyDirChild, VerifyDirPath, RecheckDir, VerifyDirGone, VerifyDir,
     ReadUnavailable, ReadFault, Broken
<1>9. pc' = "execute" /\ stage' = "scalarVerify"
        => (QuotaRequest(OpWant) # Unavailable => Live.quota = QuotaRequest(OpWant))
  BY <1>8 DEF VerifyScalarsSet, Expect, Goto, Fail, Stop
<1>10. /\ Live' = Live /\ OpWant' = OpWant
       /\ QuotaRequest(OpWant)' = QuotaRequest(OpWant)
  BY <1>1, <1>2 DEF Live, OpWant, Want
<1>11. \A o \in Ops : status'[o] = "SUCCEEDED" => OpHolds(o)'
  BY <1>1, <1>2, <1>6, SameHolds
<1>12. \A o \in Ops : status'[o] = "none" /\ Concerns(o)' => Settled(o)'
  BY <1>1, <1>2, <1>3, <1>5, SameHolds DEF HoldsInv
<1>13. \A o \in Ops : IsNew(o[1])' /\ status'[o] = "none" =>
          /\ o[2] > NfsSlot
          /\ \A d \in Dirs : o[2] = DirSlot(d) => Want(o[1])'.dirs[d] # "present"
  BY <1>1, <1>2, <1>3, <1>5, SameHolds DEF HoldsInv
<1> QED
  BY <1>7, <1>9, <1>10, <1>11, <1>12, <1>13 DEF HoldsInv


\* A write takes back nothing that holds: what has run on the same share
\* is of another slot, and nothing of a share has run before its main one.
LEMMA WriteHolds ==
    ASSUME TypeInv, ReportInv, NeedInv, StageInv, HoldsInv,
           Write \/ WriteLost \/ KillInWrite
    PROVE  HoldsInv'
<1> SUFFICES ASSUME ~ edited' PROVE HoldsInv'
  BY DEF HoldsInv
<1>1. /\ pc = "execute" /\ stage \in WriteStages
      /\ UNCHANGED <<doc, op, inv, seen>> /\ edited' = edited
      /\ \E share \in Possible \cup {Live} : Put(share)
  <2>1. pc = "execute" /\ UNCHANGED <<doc, op, inv, seen>>
    BY OpStages
  <2>2. stage \in WriteStages /\ edited' = edited
    BY DEF Write, CreateShare, SetScalars, SetAcl, SaveNfs, CreateDir, DeleteDir,
       DeleteShare, WriteRefused, WriteLost, KillInWrite, WriteAnswered, At,
       WriteStages, Sent
  <2>3. \E share \in Possible \cup {Live} : Put(share)
    <3>1. CASE WriteRefused
      <4>1. nas' = nas
        BY <3>1 DEF WriteRefused
      <4>2. op \in Ops /\ nas \in [Shares -> LiveShare]
        BY <2>1, <2>2 DEF TypeInv, DataInv, ControlInv, WriteStages
      <4> QED
        BY <4>1, <4>2 DEF Put, Live, OpShare
    <3>2. CASE ~ WriteRefused
      BY <3>2, EffectsPossible
      DEF Write, CreateShare, SetScalars, SetAcl, SaveNfs, CreateDir, DeleteDir,
          DeleteShare, WriteLost, KillInWrite, WriteAnswered
    <3> QED
      BY <3>1, <3>2
  <2> QED
    BY <2>1, <2>2, <2>3
<1>2. /\ op \in Ops /\ status[op] = "PLANNED" /\ ~ edited
      /\ \A o \in Ops : status[o] = "SUCCEEDED" => Before(o, op)
  BY <1>1 DEF ReportInv, ExecutionInv, Planned, WriteStages
<1>3. PICK share \in Possible : Put(share)
  <2>1. Live \in Possible
    BY DEF Possible
  <2> QED
    BY <1>1, <2>1
<1>4. /\ nas \in [Shares -> LiveShare] /\ op[1] \in Shares /\ Live = nas[op[1]]
      /\ status \in [Ops -> Statuses]
  BY <1>2 DEF TypeInv, DataInv, ControlInv, Ops, Live
<1>5. /\ nas'[op[1]] = share
      /\ \A o \in Ops : o[1] # op[1] => nas'[o[1]] = nas[o[1]]
  BY <1>3, <1>4 DEF Put, OpShare, Ops
<1>6. \A o \in Ops : o[2] \in 1..(3 + D) /\ o = <<o[1], o[2]>>
  BY DEF Ops, Slots
<1>7. D \in Nat
  BY SizeAssumption
<1>8. /\ \A o \in Ops : status'[o] = "none" => status[o] = "none"
      /\ \A o \in Ops : status'[o] = "SUCCEEDED" =>
            status[o] = "SUCCEEDED" \/ (o = op /\ DeleteShare)
      /\ pc' = "execute" => stage' \notin {"scalarSet", "scalarVerify"}
  BY <1>2, <1>4
  DEF Write, CreateShare, SetScalars, SetAcl, SaveNfs, CreateDir, DeleteDir,
      DeleteShare, WriteRefused, WriteLost, KillInWrite, WriteAnswered, At,
      RefusedStatus, LostStatus, Goto, Succeed, Fail, Stop
<1>9. ASSUME NEW o \in Ops, op[2] # MainSlot, o # op
      PROVE  /\ OpHolds(o) => OpHolds(o)'
             /\ Settled(o) => Settled(o)'
  <2>1. CASE o[1] # op[1]
    BY <1>1, <1>5, <2>1, SlotKept
  <2>2. CASE o[1] = op[1]
    <3>1. o[2] # op[2]
      BY <1>2, <1>6, <1>9, <2>2
    <3>2. /\ share.live = Live.live /\ share.volume = Live.volume
          /\ share.desc = Live.desc /\ share.quota = Live.quota
          /\ o[2] = AclSlot => share.acl = Live.acl
          /\ o[2] = NfsSlot => share.nfs = Live.nfs
          /\ \A d \in Dirs : o[2] = DirSlot(d) => share.dirs[d] = Live.dirs[d]
      BY <1>1, <1>2, <1>3, <1>9, <3>1, WriteFields
    <3> QED
      BY <1>1, <1>4, <1>5, <2>2, <3>2, SlotKept
  <2> QED
    BY <2>1, <2>2
<1>10. ASSUME NEW o \in Ops, op[2] = MainSlot, status[o] = "SUCCEEDED"
       PROVE  o[1] # op[1]
  <2>1. Before(o, op)
    BY <1>2, <1>10
  <2> QED
    BY <1>6, <1>7, <1>10, <2>1, <1>4, SizeAssumption DEF Before, MainSlot, Shares
<1>11. ASSUME NEW o \in Ops, status'[o] = "SUCCEEDED" PROVE OpHolds(o)'
  <2>1. CASE o = op /\ DeleteShare
    <3>1. stage = "deleteCall" /\ \E gone \in Effects : Put(gone)
      BY <2>1 DEF DeleteShare, At
    <3>2. nas'[op[1]] = Vacant
      BY <1>4, <3>1 DEF Effects, Deleted, Put, OpShare
    <3>3. Family(op) = "delete"
      BY <3>1 DEF StageInv
    <3>4. Family(op)' = Family(op)
      BY <1>1 DEF Want, IsNew, Present, Family, MainFamily
    <3> QED
      BY <1>1, <2>1, <3>2, <3>3, <3>4 DEF OpHolds, Vacant
  <2>2. CASE status[o] = "SUCCEEDED"
    <3>1. OpHolds(o) /\ o # op
      BY <1>2, <2>2 DEF HoldsInv
    <3>2. CASE op[2] # MainSlot
      BY <1>9, <3>1, <3>2
    <3>3. CASE op[2] = MainSlot
      BY <1>1, <1>5, <1>10, <2>2, <3>1, <3>3, SlotKept
    <3> QED
      BY <3>2, <3>3
  <2> QED
    BY <1>8, <1>11, <2>1, <2>2
<1>12. ASSUME NEW o \in Ops
       PROVE  /\ Concerns(o)' <=> Concerns(o)
              /\ IsNew(o[1])' <=> IsNew(o[1])
              /\ Want(o[1])' = Want(o[1])
  BY <1>1 DEF Concerns, IsNew, Present, Want
<1>13. ASSUME NEW o \in Ops, status[o] = "none", Concerns(o) PROVE Settled(o)'
  <2>1. Settled(o) /\ o # op
    BY <1>1, <1>2, <1>13 DEF HoldsInv
  <2>2. CASE op[2] # MainSlot
    BY <1>9, <2>1, <2>2
  <2>3. CASE o[1] # op[1]
    BY <1>1, <1>5, <2>1, <2>3, SlotKept
  <2>4. CASE op[2] = MainSlot /\ o[1] = op[1]
    <3>1. o[2] # MainSlot
      BY <1>2, <1>6, <2>1, <2>4
    <3>2. Present(op[1])
      BY <1>13, <2>4, <3>1 DEF Concerns
    <3>3. stage # "deleteCall"
      BY <3>2 DEF NeedInv, Present
    <3>4. CASE share = Live
      BY <1>1, <1>4, <1>5, <2>1, <2>4, <3>4, SlotKept
    <3>5. CASE stage = "createCall" /\ share \in Created
      <4>1. IsNew(op[1])
        BY <2>4, <3>5
        DEF StageInv, Family, MainFamily, MainSlot, AclSlot, NfsSlot
      <4>2. /\ o[2] > NfsSlot
            /\ \A d \in Dirs : o[2] = DirSlot(d) => Want(o[1]).dirs[d] # "present"
        BY <1>1, <1>2, <1>13, <2>4, <4>1 DEF HoldsInv
      <4>3. \A d \in Dirs : nas'[o[1]].dirs[d] = "missing"
        BY <1>5, <2>4, <3>5 DEF Created
      <4>4. \A d \in Dirs : o[2] = DirSlot(d) /\ nas'[o[1]].live =>
              /\ Want(o[1])'.dirs[d] # "present"
              /\ nas'[o[1]].dirs[d] = "missing"
        BY <1>12, <4>2, <4>3
      <4>5. o[2] \notin {MainSlot, AclSlot, NfsSlot}
        BY <1>6, <4>2 DEF MainSlot, AclSlot, NfsSlot
      <4> QED
        BY <4>4, <4>5 DEF Settled
    <3>6. CASE stage = "scalarSet"
      <4>1. /\ share.acl = Live.acl /\ share.nfs = Live.nfs
            /\ \A d \in Dirs : share.dirs[d] = Live.dirs[d]
        BY <1>1, <1>2, <3>6, WriteFields
      <4>2. share.live = Live.live
        <5>1. share = Live \/ (Live.live /\ share \in ScalarsSet)
          BY <1>1, <3>6, PossibleIs
        <5>2. Live \in LiveShare
          BY <1>4
        <5> QED
          BY <5>1, <5>2 DEF ScalarsSet, LiveShare
      <4> QED
        BY <1>1, <1>4, <1>5, <2>1, <2>4, <3>1, <4>1, <4>2, SlotKept
    <3>7. stage \notin {"aclSet", "nfsSet", "dirCreate", "dirDelete"}
      BY <2>4 DEF StageInv, AclStages, NfsStages, DirStages, MainSlot, AclSlot, NfsSlot
    <3> QED
      BY <1>1, <3>3, <3>4, <3>5, <3>6, <3>7, PossibleIs DEF WriteStages
  <2> QED
    BY <2>2, <2>3, <2>4
<1> QED
  <2>1. \A o \in Ops : status'[o] = "none" /\ Concerns(o)' => Settled(o)'
    BY <1>8, <1>12, <1>13
  <2>2. \A o \in Ops : IsNew(o[1])' /\ status'[o] = "none" =>
            /\ o[2] > NfsSlot
            /\ \A d \in Dirs : o[2] = DirSlot(d) => Want(o[1])'.dirs[d] # "present"
    BY <1>1, <1>2, <1>8, <1>12 DEF HoldsInv
  <2> QED
    BY <1>8, <1>11, <2>1, <2>2 DEF HoldsInv


LEMMA NextHolds ==
    ASSUME TypeInv, ReportInv, NeedInv, StageInv, CursorInv, MeterInv,
           CalmPlanInv, HoldsInv, [Next]_vars
    PROVE  HoldsInv'
<1>1. CASE Read \/ ReadFault
  BY <1>1, ReadHolds
<1>2. CASE Write \/ WriteLost \/ KillInWrite
  BY <1>2, WriteHolds
<1>3. CASE Build
  <2>1. /\ pc = "build" /\ stage' = "idle"
        /\ UNCHANGED <<doc, nas, inv, seen, edited>>
        /\ \A o \in Ops : status'[o] = IF InPlan(o) THEN "PLANNED" ELSE "none"
    BY <1>3
    DEF Build, planVars, opVars, ghosts, ReportInv, PlanningInv, PlanPcs
  <2> SUFFICES ASSUME ~ edited' PROVE HoldsInv'
    BY DEF HoldsInv
  <2>2. ~ edited
    BY <2>1
  <2>3. \A o \in Ops : status'[o] = "none" /\ Concerns(o)' => Settled(o)'
    BY <2>1, <2>2, LeftOutSettled, SameHolds
  <2>4. \A o \in Ops : IsNew(o[1])' /\ status'[o] = "none" =>
           /\ o[2] > NfsSlot
           /\ \A d \in Dirs : o[2] = DirSlot(d) => Want(o[1])'.dirs[d] # "present"
    BY <2>1, <2>2, LeftOutSettled, SameHolds
  <2> QED
    BY <2>1, <2>3, <2>4 DEF HoldsInv
<1>4. CASE (Plan /\ ~ Build) \/ PlanFault
  <2>1. /\ pc' # "execute" /\ status' = status /\ pc \in PlanPcs
    BY <1>4
    DEF Plan, List, SkipShare, PlanNewShare, RejectVolume, ReadState, ReadAcl,
        ReadNfs, ReadDir, DirsRead, SharesRead, PreflightCreate,
        LookupPrincipals, PlanFault, PlanCalls, MakesClient, PlanPcs, NextShare, Stop
  <2>2. \A o \in Ops : status[o] = "none"
    BY <2>1 DEF ReportInv, PlanningInv
  <2> QED
    BY <2>1, <2>2 DEF HoldsInv
<1>5. CASE StartOp \/ FinishPlan \/ Kill \/ UNCHANGED vars
  <2>1. UNCHANGED <<doc, nas, inv, seen, status, snap, edited>>
    BY <1>5 DEF StartOp, FinishPlan, Kill, vars, planVars, opVars, ghosts
  <2>2. pc' = "execute" =>
          /\ pc = "execute"
          /\ \/ UNCHANGED <<op, stage>>
             \/ stage' \notin {"scalarSet", "scalarVerify"}
    <3>1. CASE StartOp
      <4>1. PICK o \in Planned : stage' = FirstStage(o)
        BY <3>1 DEF StartOp
      <4>2. FirstStage(o) \notin {"scalarSet", "scalarVerify"}
        BY DEF FirstStage, DirStage, Family, MainFamily, MainSlot, AclSlot,
               NfsSlot, Planned, Ops, Slots
      <4> QED
        BY <3>1, <4>1, <4>2 DEF StartOp
    <3>2. CASE FinishPlan \/ Kill \/ UNCHANGED vars
      BY <3>2 DEF FinishPlan, Kill, Stop, vars, opVars
    <3> QED
      BY <1>5, <3>1, <3>2
  <2> SUFFICES ASSUME ~ edited' PROVE HoldsInv'
    BY DEF HoldsInv
  <2>3. ~ edited
    BY <2>1
  <2>4. \A o \in Ops : status'[o] = "SUCCEEDED" => OpHolds(o)'
    BY <2>1, <2>3, SameHolds DEF HoldsInv
  <2>5. ASSUME pc' = "execute"
        PROVE  /\ \A o \in Ops : status'[o] = "none" /\ Concerns(o)' => Settled(o)'
               /\ \A o \in Ops : IsNew(o[1])' /\ status'[o] = "none" =>
                    /\ o[2] > NfsSlot
                    /\ \A d \in Dirs :
                          o[2] = DirSlot(d) => Want(o[1])'.dirs[d] # "present"
    BY <2>1, <2>2, <2>3, <2>5, SameHolds DEF HoldsInv
  <2>6. UNCHANGED op => /\ Live' = Live /\ OpWant' = OpWant
                        /\ QuotaRequest(OpWant)' = QuotaRequest(OpWant)
    BY <2>1 DEF Live, OpWant, Want
  <2>7. ASSUME pc' = "execute"
        PROVE  /\ stage' = "scalarSet" => snap' = Live'
               /\ stage' = "scalarVerify" /\ QuotaRequest(OpWant)' # Unavailable
                     => Live'.quota = QuotaRequest(OpWant)'
    BY <2>1, <2>2, <2>3, <2>6, <2>7 DEF HoldsInv
  <2> QED
    BY <2>4, <2>5, <2>7 DEF HoldsInv, Unavailable
<1>6. CASE Edit
  BY <1>6 DEF Edit, HoldsInv
<1>7. CASE Rerun
  <2>1. pc' = "list" /\ \A o \in Ops : status'[o] = "none"
    BY <1>7 DEF Rerun, Fresh
  <2> QED
    BY <2>1 DEF HoldsInv
<1> QED
  BY <1>1, <1>2, <1>3, <1>4, <1>5, <1>6, <1>7 DEF Next, Client, Fault

\* All that is known of a run.
RunInv ==
    /\ TypeInv /\ ReportInv /\ NeedInv /\ StageInv
    /\ CursorInv /\ MeterInv /\ CalmPlanInv /\ HoldsInv

LEMMA InitRun == ASSUME NoExternalQuotas, Init PROVE RunInv
<1>1. TypeInv /\ ReportInv /\ NeedInv /\ CalmPlanInv
  BY InitType, InitReport, InitNeed, InitCalmPlan
<1>2. StageInv
  BY DEF Init, StageInv, ScalarStages, AclStages, NfsStages, DirStages
<1>3. CursorInv
  <2>1. /\ pc = "list" /\ cur = 1
        /\ \A s \in Shares : s \in Int /\ 1 <= s
        /\ \A s \in Shares, d \in Dirs : pre[s][d] = Unread
    BY SizeAssumption DEF Init, Shares
  <2>2. \A s \in Shares : ~ (s < cur)
    BY <2>1
  <2> QED
    BY <2>1, <2>2 DEF CursorInv
<1>4. MeterInv
  BY DEF Init, MeterInv, NoExternalQuotas
<1>5. HoldsInv
  BY DEF Init, HoldsInv
<1> QED
  BY <1>1, <1>2, <1>3, <1>4, <1>5 DEF RunInv

THEOREM RunInvariant == ASSUME NoExternalQuotas PROVE Spec => []RunInv
<1>1. Init => RunInv
  BY InitRun
<1>2. RunInv /\ [Next]_vars => RunInv'
  <2> SUFFICES ASSUME RunInv, [Next]_vars PROVE RunInv'
    OBVIOUS
  <2>1. ReportInv'
    <3>1. CASE UNCHANGED vars
      BY <3>1
      DEF vars, opVars, ghosts, RunInv, ReportInv, PlanningInv, ExecutionInv,
          OutcomeInv, Planned
    <3>2. CASE Next
      BY <3>2, PlanReport, ReadReport, WriteReport, FaultReport, OtherReport
      DEF Next, Client, Fault, RunInv
    <3> QED
      BY <3>1, <3>2
  <2> QED
    BY <2>1, NextType, NextNeed, NextStageInv, NextCursorInv, NextMeterInv,
       NextCalmPlan, NextHolds
    DEF RunInv
<1> QED
  BY <1>1, <1>2, PTL DEF Spec

\* Where no volume but the internal ones reports quotas: an operation that
\* succeeded still holds as long as nobody else writes.
THEOREM SucceededHoldsCorrect == ASSUME NoExternalQuotas PROVE Spec => []SucceededHolds
<1>1. RunInv => SucceededHolds
  BY DEF RunInv, HoldsInv, SucceededHolds
<1> QED
  BY <1>1, RunInvariant, PTL


\* An omitted description is what the NAS has, or none on a share this run
\* has created.
DescInv ==
    ~ edited /\ pc = "execute" =>
        \A s \in Shares :
            Present(s) /\ nas[s].live /\ Want(s).desc = Omitted
              => nas[s].desc = Desc(s)

LEMMA NextDesc == RunInv /\ DescInv /\ [Next]_vars => DescInv'
<1> SUFFICES ASSUME RunInv, DescInv, [Next]_vars, ~ edited', pc' = "execute",
                    NEW s \in Shares, Present(s)', nas'[s].live,
                    Want(s)'.desc = Omitted
             PROVE  nas'[s].desc = Desc(s)'
  BY DEF DescInv
<1>1. TypeInv /\ ReportInv /\ NeedInv /\ StageInv /\ CursorInv /\ CalmPlanInv
  BY DEF RunInv
<1>2. ASSUME UNCHANGED <<doc, inv, seen>>
      PROVE  Desc(s)' = Desc(s) /\ Present(s) /\ Want(s).desc = Omitted
             /\ Want(s)' = Want(s)
  BY <1>2 DEF Desc, Want, Present
<1>3. CASE Read \/ ReadFault \/ StartOp \/ UNCHANGED vars
  <2>1. pc = "execute" /\ UNCHANGED <<doc, inv, seen>>
    BY <1>3, OpStages DEF StartOp, planVars, vars
  <2>2. UNCHANGED <<nas, edited>>
    BY <1>3 DEF ghosts, Read, CheckCreated, ReadScalars, VerifyScalarsSet,
       VerifyScalars, ReadAclBefore, VerifyAclSet, VerifyAcl, ReadNfsBefore,
       VerifyNfsSaved, VerifyNfs, ReadNewDir, VerifyDirChild, VerifyDirPath,
       RecheckDir, VerifyDirGone, VerifyDir, ReadUnavailable, Expect, ExpectLast,
       ReadOnly, ReadFault, StartOp, vars
  <2>3. ~ edited
    BY <2>2
  <2> QED
    BY <1>2, <2>1, <2>2, <2>3 DEF DescInv
<1>4. CASE Build
  <2>1. /\ pc = "build" /\ UNCHANGED <<doc, nas, inv, seen, edited>>
    BY <1>4 DEF Build, planVars, ghosts
  <2>2. ~ edited
    BY <2>1
  <2>3. inv = nas /\ (s < cur /\ IsExisting(s) => seen[s] = nas[s])
    BY <1>1, <2>1, <2>2 DEF CalmPlanInv, PlanPcs
  <2>4. s < cur
    BY <1>1, <2>1, SizeAssumption DEF CursorInv, Shares
  <2>5. Desc(s) = seen[s].desc
    BY <1>2, <2>1, <2>3 DEF Desc, EffectiveDesc
  <2> QED
    BY <1>2, <2>1, <2>3, <2>4, <2>5 DEF IsExisting
<1>5. CASE Write \/ WriteLost \/ KillInWrite
  <2>1. /\ pc = "execute" /\ UNCHANGED <<doc, op, inv, seen>>
    BY <1>5, OpStages
  <2>2. edited' = edited /\ edits' = edits
    BY <1>5 DEF Write, CreateShare, SetScalars, SetAcl, SaveNfs, CreateDir,
       DeleteDir, DeleteShare, WriteRefused, WriteLost, KillInWrite,
       WriteAnswered, Sent, budgets, Stop
  <2>3. ~ edited
    BY <2>2
  <2>4. CASE nas'[s] = nas[s]
    BY <1>2, <2>1, <2>3, <2>4 DEF DescInv
  <2>5. CASE nas'[s] # nas[s]
    <3>1. /\ stage \in WriteStages /\ op \in Ops
          /\ \E share \in Possible : Put(share)
      BY <1>1, <2>2, <2>5, ClientWrites
    <3>2. PICK share \in Possible : Put(share)
      BY <3>1
    <3>3. /\ s = op[1] /\ nas'[s] = share /\ Live = nas[s] /\ Live \in LiveShare
          /\ OpShare = s
      BY <1>1, <2>5, <3>2 DEF TypeInv, DataInv, Put, OpShare, Live
    <3>4. CASE op[2] # MainSlot
      <4>1. share.live = Live.live /\ share.desc = Live.desc
        BY <1>1, <3>1, <3>4, WriteFields
      <4> QED
        BY <1>2, <2>1, <2>3, <3>3, <4>1 DEF DescInv
    <3>5. CASE op[2] = MainSlot
      <4>1. \/ stage = "createCall" /\ share \in Created
            \/ stage = "scalarSet" /\ Live.live /\ share \in ScalarsSet
            \/ stage = "deleteCall" /\ share = Vacant
        <5>1. stage \notin {"aclSet", "nfsSet", "dirCreate", "dirDelete"}
          BY <1>1, <3>5 DEF StageInv, AclStages, NfsStages, DirStages, MainSlot,
                            AclSlot, NfsSlot
        <5> QED
          BY <1>1, <2>5, <3>1, <3>3, <5>1, PossibleIs
      <4>2. CASE stage = "createCall" /\ share \in Created
        <5>1. IsNew(s)
          BY <1>1, <3>3, <3>5, <4>2
          DEF StageInv, Family, MainFamily, MainSlot, AclSlot, NfsSlot
        <5>2. Desc(s) = NoDesc
          BY <1>1, <1>2, <2>1, <5>1 DEF Desc, EffectiveDesc, IsNew
        <5>3. share.desc \in {Desc(s), NoDesc}
          BY <3>3, <4>2 DEF Created
        <5> QED
          BY <1>2, <2>1, <3>3, <5>2, <5>3
      <4>3. CASE stage = "scalarSet" /\ Live.live /\ share \in ScalarsSet
        <5>1. share.desc = Desc(s)
          BY <3>3, <4>3 DEF ScalarsSet, LiveShare
        <5> QED
          BY <1>2, <2>1, <3>3, <5>1
      <4>4. CASE share = Vacant
        BY <3>3, <4>4 DEF Vacant
      <4> QED
        BY <4>1, <4>2, <4>3, <4>4
    <3> QED
      BY <3>4, <3>5
  <2> QED
    BY <2>4, <2>5
<1>6. CASE Edit \/ Rerun \/ FinishPlan \/ Kill \/ PlanFault \/ (Plan /\ ~ Build)
  BY <1>6
  DEF Edit, Rerun, Fresh, FinishPlan, Kill, PlanFault, Plan, List, SkipShare,
      PlanNewShare, RejectVolume, ReadState, ReadAcl, ReadNfs, ReadDir, DirsRead,
      SharesRead, PreflightCreate, LookupPrincipals, NextShare, Stop
<1> QED
  BY <1>3, <1>4, <1>5, <1>6 DEF Next, Client, Fault

THEOREM DescInvariant == ASSUME NoExternalQuotas PROVE Spec => []DescInv
<1>1. Init => DescInv
  BY DEF Init, DescInv
<1> QED
  BY <1>1, NextDesc, RunInvariant, PTL DEF Spec

\* As long as nobody else writes, no call of a run changes the placement or
\* the visibility of a share that is to be there, or a description the
\* document leaves out, although the whole share is sent back.
THEOREM QuietRunKeepsFieldsCorrect ==
    ASSUME NoExternalQuotas PROVE Spec => QuietRunKeepsFields
<1>1. RunInv /\ DescInv /\ [Next]_vars =>
        [edits' = edits /\ ~ edited => \A s \in Shares : FieldsKept(s)]_vars
  <2> SUFFICES ASSUME RunInv, DescInv, [Next]_vars, edits' = edits, ~ edited,
                      NEW s \in Shares, Present(s), nas[s].live
               PROVE  /\ nas'[s].volume = nas[s].volume
                      /\ nas'[s].hidden = nas[s].hidden
                      /\ Want(s).desc = Omitted => nas'[s].desc = nas[s].desc
    BY DEF FieldsKept
  <2>1. TypeInv /\ ReportInv /\ NeedInv /\ StageInv /\ HoldsInv
    BY DEF RunInv
  <2>2. CASE nas'[s] # nas[s]
    <3>1. /\ pc = "execute" /\ stage \in WriteStages /\ op \in Ops
          /\ \E share \in Possible : Put(share)
      BY <2>1, <2>2, ClientWrites
    <3>2. PICK share \in Possible : Put(share)
      BY <3>1
    <3>3. /\ s = op[1] /\ nas'[s] = share /\ Live = nas[s] /\ Live \in LiveShare
          /\ OpShare = s
      BY <2>1, <2>2, <3>2 DEF TypeInv, DataInv, Put, OpShare, Live
    <3>4. CASE op[2] # MainSlot
      BY <2>1, <3>1, <3>3, <3>4, WriteFields
    <3>5. CASE op[2] = MainSlot
      <4>1. stage = "scalarSet" /\ share \in ScalarsSet
        <5>1. stage \notin {"aclSet", "nfsSet", "dirCreate", "dirDelete"}
          BY <2>1, <3>5 DEF StageInv, AclStages, NfsStages, DirStages, MainSlot,
                            AclSlot, NfsSlot
        <5>2. stage # "deleteCall"
          BY <2>1, <3>3 DEF NeedInv, Present
        <5> QED
          BY <2>1, <2>2, <3>1, <3>3, <5>1, <5>2, PossibleIs
      <4>2. snap = Live
        BY <2>1, <3>1, <4>1 DEF HoldsInv
      <4>3. /\ share.volume = snap.volume /\ share.hidden = snap.hidden
            /\ share.desc = Desc(s)
        BY <3>3, <4>1 DEF ScalarsSet, LiveShare
      <4>4. Want(s).desc = Omitted => nas[s].desc = Desc(s)
        BY <3>1 DEF DescInv
      <4> QED
        BY <3>3, <4>2, <4>3, <4>4
    <3> QED
      BY <3>4, <3>5
  <2> QED
    BY <2>2
<1> QED
  BY <1>1, RunInvariant, DescInvariant, PTL DEF Spec, QuietRunKeepsFields


----------------------------------------------------------------------------
(* Convergence.                                                            *)

\* At the end of a plan nobody interfered with, what was done and what was
\* left out make up all that the document says.
LEMMA EndAgrees ==
    ASSUME RunInv, pc = "execute", ~ edited, Planned = {}, NEW s \in Shares
    PROVE  Agrees(Want(s), nas[s])
<1>1. /\ TypeInv /\ HoldsInv
      /\ \A o \in Ops : status[o] \in {"none", "SUCCEEDED"}
  BY DEF RunInv, ReportInv, ExecutionInv, Planned
<1>2. Want(s) \in DesiredShare /\ nas[s] \in LiveShare
  BY <1>1 DEF TypeInv, DataInv, Document, Want
<1>3. D \in Nat
  BY SizeAssumption
<1>4. ASSUME NEW k \in Slots
      PROVE  /\ <<s, k>> \in Ops
             /\ Concerns(<<s, k>>) => Settled(<<s, k>>) \/ OpHolds(<<s, k>>)
  <2>1. <<s, k>> \in Ops
    BY DEF Ops
  <2> QED
    BY <1>1, <2>1 DEF HoldsInv
<1>5. MainSlot \in Slots /\ AclSlot \in Slots /\ NfsSlot \in Slots
  BY <1>3 DEF Slots, MainSlot, AclSlot, NfsSlot
<1>6. CASE Want(s).state = "absent"
  <2>1. Settled(<<s, MainSlot>>) \/ OpHolds(<<s, MainSlot>>)
    BY <1>4, <1>5, <1>6 DEF Concerns
  <2>2. Family(<<s, MainSlot>>) = "delete"
    BY <1>6 DEF Family, MainFamily, MainSlot, AclSlot, NfsSlot
  <2>3. ~ nas[s].live
    BY <1>6, <2>1, <2>2 DEF Settled, OpHolds
  <2> QED
    BY <1>6, <2>3 DEF Agrees
<1>7. CASE Want(s).state = "present"
  <2>1. \A k \in Slots : Settled(<<s, k>>) \/ OpHolds(<<s, k>>)
    BY <1>4, <1>7 DEF Concerns, Present
  <2>2. /\ nas[s].live /\ nas[s].volume = Want(s).volume
        /\ Want(s).desc # Omitted => nas[s].desc = Want(s).desc
        /\ QuotaPlanned(Want(s), nas[s].quota) = nas[s].quota
    <3>1. Family(<<s, MainSlot>>) \in {"create", "scalars"}
      BY <1>7 DEF Family, MainFamily, MainSlot, AclSlot, NfsSlot
    <3>2. Settled(<<s, MainSlot>>) \/ OpHolds(<<s, MainSlot>>)
      BY <1>5, <2>1
    <3>3. CASE Settled(<<s, MainSlot>>)
      BY <1>7, <3>3 DEF Settled
    <3>4. CASE OpHolds(<<s, MainSlot>>)
      BY <3>1, <3>4 DEF OpHolds, Desc, EffectiveDesc
    <3> QED
      BY <3>2, <3>3, <3>4
  <2>3. Want(s).quota # Unavailable => nas[s].quota = Want(s).quota
    BY <2>2 DEF QuotaPlanned
  <2>4. AclMatches(Want(s), nas[s].acl)
    <3>1. CASE Settled(<<s, AclSlot>>)
      BY <3>1 DEF Settled
    <3>2. CASE OpHolds(<<s, AclSlot>>)
      <4>1. nas[s].acl = AclGoal(Want(s))
        BY <3>2 DEF OpHolds, Family, MainSlot, AclSlot, NfsSlot
      <4> QED
        BY <4>1, PrincipalAssumption DEF AclGoal, AclMatches, Accounts
    <3> QED
      BY <1>5, <2>1, <3>1, <3>2
  <2>5. nas[s].nfs = Want(s).nfs
    <3>1. CASE Settled(<<s, NfsSlot>>)
      BY <3>1 DEF Settled
    <3>2. CASE OpHolds(<<s, NfsSlot>>)
      BY <3>2 DEF OpHolds, Family, MainSlot, AclSlot, NfsSlot
    <3> QED
      BY <1>5, <2>1, <3>1, <3>2
  <2>6. ASSUME NEW d \in Dirs
        PROVE  /\ Want(s).dirs[d] = "present" => nas[s].dirs[d] \in {"empty", "full"}
               /\ Want(s).dirs[d] = "absent" => nas[s].dirs[d] = "missing"
    <3>1. /\ DirSlot(d) \in Slots /\ DirSlot(d) > NfsSlot /\ DirSlot(d) - 3 = d
          /\ DirSlot(d) \notin {MainSlot, AclSlot, NfsSlot}
      BY <1>3 DEF DirSlot, Slots, Dirs, MainSlot, AclSlot, NfsSlot
    <3>2. CASE Settled(<<s, DirSlot(d)>>)
      BY <2>2, <3>2 DEF Settled
    <3>3. CASE OpHolds(<<s, DirSlot(d)>>)
      <4>1. Family(<<s, DirSlot(d)>>) = "directory"
        BY <3>1 DEF Family
      <4> QED
        BY <3>1, <3>3, <4>1 DEF OpHolds
    <3> QED
      BY <2>1, <3>1, <3>2, <3>3
  <2> QED
    BY <1>7, <2>2, <2>3, <2>4, <2>5, <2>6 DEF Agrees
<1>8. CASE Want(s).state = "unmanaged"
  BY <1>8 DEF Agrees
<1> QED
  BY <1>2, <1>6, <1>7, <1>8 DEF DesiredShare

\* A share that is as the document says gets no operation.
LEMMA AgreesNotPlanned ==
    ASSUME TypeInv, CursorInv, CalmPlanInv, pc = "build", ~ edited,
           NEW o \in Ops, Agrees(Want(o[1]), nas[o[1]])
    PROVE  ~ InPlan(o)
<1>1. o[1] \in Shares /\ o[1] < cur
  BY SizeAssumption DEF Ops, Shares, CursorInv
<1>2. /\ inv = nas
      /\ IsExisting(o[1]) => seen[o[1]] = nas[o[1]]
      /\ \A d \in Dirs :
            pre[o[1]][d].kind \in
              {"unread", IF inv[o[1]].live THEN nas[o[1]].dirs[d] ELSE "missing"}
  BY <1>1 DEF CalmPlanInv, PlanPcs
<1>3. nas[o[1]] \in LiveShare /\ Want(o[1]) \in DesiredShare
  BY <1>1 DEF TypeInv, DataInv, Document, Want
<1>4. CASE Want(o[1]).state = "absent"
  <2>1. ~ nas[o[1]].live
    BY <1>4 DEF Agrees
  <2> QED
    BY <1>2, <1>4, <2>1 DEF InPlan, IsNew, IsExisting, Present
<1>5. CASE Want(o[1]).state = "unmanaged"
  BY <1>5 DEF InPlan, IsNew, IsExisting, Present
<1>6. CASE Want(o[1]).state = "present"
  <2>1. /\ nas[o[1]].live
        /\ Want(o[1]).desc # Omitted => nas[o[1]].desc = Want(o[1]).desc
        /\ QuotaPlanned(Want(o[1]), nas[o[1]].quota) = nas[o[1]].quota
        /\ AclMatches(Want(o[1]), nas[o[1]].acl)
        /\ nas[o[1]].nfs = Want(o[1]).nfs
        /\ \A d \in Dirs :
              /\ Want(o[1]).dirs[d] = "present"
                   => nas[o[1]].dirs[d] \in {"empty", "full"}
              /\ Want(o[1]).dirs[d] = "absent" => nas[o[1]].dirs[d] = "missing"
    BY <1>6 DEF Agrees
  <2>2. IsExisting(o[1]) /\ ~ IsNew(o[1]) /\ seen[o[1]] = nas[o[1]]
    BY <1>2, <1>6, <2>1 DEF IsExisting, IsNew, Present
  <2>3. ~ ScalarsDiffer(Want(o[1]), nas[o[1]])
    BY <2>1 DEF ScalarsDiffer, EffectiveDesc
  <2>4. ExistingOperations(o[1]) = {}
    BY <2>1, <2>2, <2>3 DEF ExistingOperations
  <2>5. DirectoryOperations(o[1]) = {}
    <3>1. \A d \in Dirs : ~ DirOperation(Want(o[1]).dirs[d], pre[o[1]][d].kind)
      BY <1>2, <2>1, <2>2 DEF DirOperation, IsExisting
    <3> QED
      BY <3>1 DEF DirectoryOperations
  <2> QED
    BY <2>2, <2>4, <2>5 DEF InPlan
<1> QED
  BY <1>3, <1>4, <1>5, <1>6 DEF DesiredShare

\* After an undisturbed success the NAS is as the document says, and stays
\* so: the next run plans nothing and so writes nothing.
CleanInv ==
    clean => /\ ~ edited
             /\ \A s \in Shares : Agrees(Want(s), nas[s])
             /\ pc = "execute" => Planned = {}

LEMMA NextClean == RunInv /\ CleanInv /\ [Next]_vars => CleanInv'
<1> SUFFICES ASSUME RunInv, CleanInv, [Next]_vars, clean' PROVE CleanInv'
  BY DEF CleanInv
<1>1. TypeInv /\ ReportInv /\ CursorInv /\ CalmPlanInv
  BY DEF RunInv
<1>2. ASSUME UNCHANGED <<doc, nas>>, \A s \in Shares : Agrees(Want(s), nas[s])
      PROVE  \A s \in Shares : Agrees(Want(s), nas[s])'
  <2>1. \A s \in Shares : Want(s)' = Want(s) /\ nas'[s] = nas[s]
    BY <1>2 DEF Want
  <2> QED
    BY <1>2, <2>1
<1>3. CASE Read \/ Write \/ ReadFault \/ WriteLost \/ KillInWrite
  <2>1. op \in Planned
    BY <1>1, <1>3, OpStages DEF ReportInv, ExecutionInv
  <2>2. clean' = clean
    BY <1>3 DEF Read, CheckCreated, ReadScalars, VerifyScalarsSet, VerifyScalars,
       ReadAclBefore, VerifyAclSet, VerifyAcl, ReadNfsBefore, VerifyNfsSaved,
       VerifyNfs, ReadNewDir, VerifyDirChild, VerifyDirPath, RecheckDir,
       VerifyDirGone, VerifyDir, ReadUnavailable, Expect, ExpectLast, ReadOnly,
       ReadFault, Write, CreateShare, SetScalars, SetAcl, SaveNfs, CreateDir,
       DeleteDir, DeleteShare, WriteRefused, WriteLost, KillInWrite,
       WriteAnswered, Sent, ghosts
  <2>3. clean /\ pc = "execute"
    BY <1>3, <2>2, OpStages
  <2> QED
    BY <2>1, <2>3 DEF CleanInv
<1>4. CASE FinishPlan
  <2>1. /\ pc = "execute" /\ Planned = {} /\ pc' = "done"
        /\ UNCHANGED <<doc, nas, edited>> /\ clean' = ~ edited
    BY <1>4 DEF FinishPlan, Stop
  <2>2. ~ edited
    BY <2>1
  <2>3. \A s \in Shares : Agrees(Want(s), nas[s])
    BY <2>1, <2>2, EndAgrees
  <2>4. ~ edited'
    BY <2>1, <2>2
  <2> QED
    BY <1>2, <2>1, <2>3, <2>4 DEF CleanInv
<1>5. CASE Build
  <2>1. /\ pc = "build" /\ UNCHANGED <<doc, nas, edited, clean>>
        /\ \A o \in Ops : status'[o] = IF InPlan(o) THEN "PLANNED" ELSE "none"
    BY <1>5 DEF Build, planVars, ghosts
  <2>2. ~ edited /\ clean /\ \A s \in Shares : Agrees(Want(s), nas[s])
    BY <2>1 DEF CleanInv
  <2>3. \A o \in Ops : ~ InPlan(o)
    BY <1>1, <2>1, <2>2, AgreesNotPlanned DEF Ops
  <2>4. Planned' = {}
    BY <2>1, <2>3 DEF Planned
  <2>5. ~ edited'
    BY <2>1, <2>2
  <2> QED
    BY <1>2, <2>1, <2>2, <2>4, <2>5 DEF CleanInv
<1>6. CASE (Plan /\ ~ Build) \/ PlanFault \/ Kill
  <2>1. UNCHANGED <<doc, nas, edited, clean>> /\ pc' # "execute"
    BY <1>6
    DEF Plan, List, SkipShare, PlanNewShare, RejectVolume, ReadState, ReadAcl,
        ReadNfs, ReadDir, DirsRead, SharesRead, PreflightCreate,
        LookupPrincipals, PlanFault, PlanCalls, MakesClient, Kill, NextShare, Stop, ghosts
  <2>2. clean /\ ~ edited
    BY <2>1 DEF CleanInv
  <2>3. ~ edited'
    BY <2>1, <2>2
  <2> QED
    BY <1>2, <2>1, <2>2, <2>3 DEF CleanInv
<1>7. CASE Rerun
  <2>1. UNCHANGED <<doc, nas, clean>> /\ edited' = FALSE /\ pc' = "list"
    BY <1>7 DEF Rerun, Fresh
  <2> QED
    BY <1>2, <2>1 DEF CleanInv
<1>8. CASE Edit
  BY <1>8 DEF Edit
<1>9. CASE StartOp
  <2>1. Planned # {} /\ pc = "execute" /\ clean' = clean
    BY <1>9 DEF StartOp, ghosts
  <2> QED
    BY <2>1 DEF CleanInv
<1>10. CASE UNCHANGED vars
  <2>1. UNCHANGED <<doc, nas, pc, status, edited, clean>>
    BY <1>10 DEF vars, ghosts
  <2>2. Planned' = Planned
    BY <2>1 DEF Planned
  <2>3. clean /\ ~ edited
    BY <2>1 DEF CleanInv
  <2>4. ~ edited'
    BY <2>1, <2>3
  <2> QED
    BY <1>2, <2>1, <2>2, <2>3, <2>4 DEF CleanInv
<1> QED
  BY <1>3, <1>4, <1>5, <1>6, <1>7, <1>8, <1>9, <1>10 DEF Next, Client, Fault

THEOREM CleanInvariant == ASSUME NoExternalQuotas PROVE Spec => []CleanInv
<1>1. Init => CleanInv
  BY DEF Init, CleanInv
<1> QED
  BY <1>1, NextClean, RunInvariant, PTL DEF Spec

\* Where no volume but the internal ones reports quotas: exit code 0 of a
\* run nobody interfered with means that the NAS is as the document says,
\* whatever went wrong in the runs before it.
THEOREM CleanMeansConvergedCorrect ==
    ASSUME NoExternalQuotas PROVE Spec => []CleanMeansConverged
<1>1. CleanInv => CleanMeansConverged
  BY DEF CleanInv, CleanMeansConverged
<1> QED
  BY <1>1, CleanInvariant, PTL

\* And then running the command again plans nothing.
THEOREM RerunIsNoOpCorrect == ASSUME NoExternalQuotas PROVE Spec => []RerunIsNoOp
<1>1. CleanInv => RerunIsNoOp
  BY DEF CleanInv, RerunIsNoOp
<1> QED
  BY <1>1, CleanInvariant, PTL

----------------------------------------------------------------------------
(* What a plan has, it has for a reason.                                   *)

\* An operation of a calm plan is for something that does not hold.
LEMMA PlannedIsNeeded ==
    ASSUME TypeInv, CalmPlanInv, CursorInv, pc = "build", ~ edited,
           NEW o \in Ops, InPlan(o)
    PROVE  ~ OpHolds(o) \/ (IsNew(o[1]) /\ o[2] # MainSlot)
<1>1. /\ o[1] \in Shares /\ o[1] < cur
      /\ o[2] \in 1..(3 + D) /\ D \in Nat
  BY SizeAssumption DEF Ops, Slots, Shares, CursorInv
<1>2. /\ inv = nas
      /\ IsExisting(o[1]) => seen[o[1]] = nas[o[1]]
      /\ \A d \in Dirs :
            pre[o[1]][d].kind \in
              {"unread", IF inv[o[1]].live THEN nas[o[1]].dirs[d] ELSE "missing"}
  BY <1>1 DEF CalmPlanInv, PlanPcs
<1>3. CASE IsNew(o[1]) /\ o[2] = MainSlot
  <2>1. Family(o) = "create" /\ ~ nas[o[1]].live
    BY <1>2, <1>3
    DEF Family, MainFamily, IsNew, Present, MainSlot, AclSlot, NfsSlot
  <2> QED
    BY <2>1 DEF OpHolds
<1>4. CASE ~ IsNew(o[1]) /\ ~ IsExisting(o[1])
  <2>1. Want(o[1]).state = "absent" /\ nas[o[1]].live /\ o[2] = MainSlot
    BY <1>2, <1>4 DEF InPlan
  <2>2. Family(o) = "delete"
    BY <2>1 DEF Family, MainFamily, MainSlot, AclSlot, NfsSlot
  <2> QED
    BY <2>1, <2>2 DEF OpHolds
<1>5. CASE IsExisting(o[1])
  <2> DEFINE live == nas[o[1]]
             want == Want(o[1])
  <2>1. /\ seen[o[1]] = live /\ live.live /\ inv[o[1]] = live
        /\ ~ IsNew(o[1]) /\ want.state = "present"
        /\ o[2] \in ExistingOperations(o[1]) \cup DirectoryOperations(o[1])
    BY <1>2, <1>5 DEF InPlan, IsExisting, IsNew, Present
  <2>2. CASE o[2] = MainSlot
    <3>1. Family(o) = "scalars"
      BY <2>1, <2>2 DEF Family, MainFamily, MainSlot, AclSlot, NfsSlot
    <3>2. o[2] \notin DirectoryOperations(o[1])
      BY <1>1, <2>2 DEF DirectoryOperations, DirSlot, MainSlot, Dirs
    <3>3. ScalarsDiffer(want, live)
      BY <2>1, <2>2, <3>2 DEF ExistingOperations, MainSlot, AclSlot, NfsSlot
    <3>4. Desc(o[1]) = EffectiveDesc(want, TRUE, live.desc)
      BY <2>1 DEF Desc
    <3> HIDE DEF live, want
    <3>5. ~ (/\ live.desc = Desc(o[1])
             /\ QuotaPlanned(want, live.quota) = live.quota)
      BY <3>3, <3>4 DEF ScalarsDiffer
    <3> QED
      BY <3>1, <3>5 DEF OpHolds, live, want
  <2>3. CASE o[2] = AclSlot
    <3>1. Family(o) = "acl"
      BY <2>3 DEF Family, MainSlot, AclSlot, NfsSlot
    <3>2. o[2] \notin DirectoryOperations(o[1])
      BY <1>1, <2>3 DEF DirectoryOperations, DirSlot, AclSlot, Dirs
    <3>3. ~ AclMatches(want, live.acl)
      BY <2>1, <2>3, <3>2 DEF ExistingOperations, MainSlot, AclSlot, NfsSlot
    <3>4. live.acl # AclGoal(want)
      BY <3>3, PrincipalAssumption DEF AclGoal, AclMatches, Accounts
    <3> QED
      BY <3>1, <3>4 DEF OpHolds
  <2>4. CASE o[2] = NfsSlot
    <3>1. Family(o) = "nfs"
      BY <2>4 DEF Family, MainSlot, AclSlot, NfsSlot
    <3>2. o[2] \notin DirectoryOperations(o[1])
      BY <1>1, <2>4 DEF DirectoryOperations, DirSlot, NfsSlot, Dirs
    <3>3. live.nfs # want.nfs
      BY <2>1, <2>4, <3>2 DEF ExistingOperations, MainSlot, AclSlot, NfsSlot
    <3> QED
      BY <3>1, <3>3 DEF OpHolds
  <2>5. CASE o[2] > NfsSlot
    <3>1. Family(o) = "directory"
      BY <1>1, <2>5 DEF Family, MainSlot, AclSlot, NfsSlot
    <3>2. o[2] \in DirectoryOperations(o[1])
      BY <2>1, <2>5 DEF ExistingOperations, MainSlot, AclSlot, NfsSlot
    <3>3. PICK d \in Dirs : /\ o[2] = 3 + d
                            /\ DirOperation(want.dirs[d], pre[o[1]][d].kind)
      BY <3>2 DEF DirectoryOperations, DirSlot
    <3>4. o[2] - 3 = d
      BY <3>3, <1>1 DEF Dirs
    <3>5. pre[o[1]][d].kind \in {"missing", "empty"} => pre[o[1]][d].kind = live.dirs[d]
      BY <1>2, <2>1
    <3>6. ~ (live.dirs[d] \in IF want.dirs[d] = "present"
                              THEN {"empty", "full"} ELSE {"missing"})
      BY <3>3, <3>5 DEF DirOperation
    <3> QED
      BY <3>1, <3>4, <3>6 DEF OpHolds
  <2> QED
    BY <1>1, <2>2, <2>3, <2>4, <2>5 DEF MainSlot, AclSlot, NfsSlot
<1> QED
  BY <1>3, <1>4, <1>5

\* What a step must leave alone for an operation to stay needed.
LEMMA StaysNeeded ==
    ASSUME WorkIsNeeded, UNCHANGED <<doc, nas, inv, seen, wrote>>, ~ edited,
           NEW o \in Planned' \ wrote', o \in Planned
    PROVE  (~ OpHolds(o) \/ (IsNew(o[1]) /\ o[2] # MainSlot))'
<1>1. ~ OpHolds(o) \/ (IsNew(o[1]) /\ o[2] # MainSlot)
  BY DEF WorkIsNeeded
<1>2. o \in Ops
  BY DEF Planned
<1> QED
  BY <1>1, <1>2, SameHolds

\* A write makes no operation superfluous that has still to come: on the same
\* share it changes other fields, unless it makes the share.
LEMMA WriteLeavesNeeded ==
    ASSUME TypeInv, ReportInv, NeedInv, StageInv, WorkIsNeeded, ~ edited,
           Write \/ WriteLost \/ KillInWrite,
           NEW o \in Planned' \ wrote'
    PROVE  (~ OpHolds(o) \/ (IsNew(o[1]) /\ o[2] # MainSlot))'
<1>1. /\ pc = "execute" /\ stage \in WriteStages
      /\ UNCHANGED <<doc, op, inv, seen>>
      /\ wrote' = wrote \cup {op}
      /\ \E share \in Possible \cup {Live} : Put(share)
  <2>1. pc = "execute" /\ UNCHANGED <<doc, op, inv, seen>>
    BY OpStages
  <2>2. stage \in WriteStages /\ wrote' = wrote \cup {op}
    BY DEF Write, CreateShare, SetScalars, SetAcl, SaveNfs, CreateDir, DeleteDir,
       DeleteShare, WriteRefused, WriteLost, KillInWrite, WriteAnswered, At,
       WriteStages, Sent
  <2>3. \E share \in Possible \cup {Live} : Put(share)
    <3>1. CASE WriteRefused
      <4>1. nas' = nas
        BY <3>1 DEF WriteRefused
      <4>2. op \in Ops /\ nas \in [Shares -> LiveShare]
        BY <2>1, <2>2 DEF TypeInv, DataInv, ControlInv, WriteStages
      <4> QED
        BY <4>1, <4>2 DEF Put, Live, OpShare
    <3>2. CASE ~ WriteRefused
      BY <3>2, EffectsPossible
      DEF Write, CreateShare, SetScalars, SetAcl, SaveNfs, CreateDir, DeleteDir,
          DeleteShare, WriteLost, KillInWrite, WriteAnswered
    <3> QED
      BY <3>1, <3>2
  <2> QED
    BY <2>1, <2>2, <2>3
<1>2. op \in Ops /\ status \in [Ops -> Statuses] /\ nas \in [Shares -> LiveShare]
  BY <1>1 DEF TypeInv, DataInv, ControlInv, WriteStages
<1>3. o \in Planned
  <2>1. o \in Ops /\ o # op /\ status'[o] = "PLANNED"
    BY <1>1 DEF Planned
  <2>2. status[o] = "PLANNED"
    BY <1>2, <2>1 DEF Write, CreateShare, SetScalars, SetAcl, SaveNfs, CreateDir,
     DeleteDir, DeleteShare, WriteRefused, WriteLost, KillInWrite, WriteAnswered,
     Goto, Succeed, Fail
  <2> QED
    BY <2>1, <2>2 DEF Planned
<1>4. o \in Ops /\ o # op /\ (~ OpHolds(o) \/ (IsNew(o[1]) /\ o[2] # MainSlot))
  BY <1>1, <1>3 DEF Planned, WorkIsNeeded
<1>5. IsNew(o[1])' <=> IsNew(o[1])
  BY <1>1 DEF IsNew, Present, Want
<1>6. PICK share \in Possible : Put(share)
  <2>1. Live \in Possible
    BY DEF Possible
  <2> QED
    BY <1>1, <2>1
<1>7. /\ op[1] \in Shares /\ Live = nas[op[1]] /\ nas'[op[1]] = share
      /\ o[1] # op[1] => nas'[o[1]] = nas[o[1]]
  BY <1>2, <1>4, <1>6 DEF Put, OpShare, Ops, Live
<1>8. /\ o[2] \in 1..(3 + D) /\ o = <<o[1], o[2]>> /\ op = <<op[1], op[2]>>
      /\ D \in Nat
  BY <1>2, <1>4, SizeAssumption DEF Ops, Slots
<1>9. CASE o[1] # op[1]
  BY <1>1, <1>4, <1>5, <1>7, <1>9, SlotKept
<1>10. CASE o[1] = op[1] /\ (op[2] # MainSlot \/ stage = "scalarSet")
  <2>1. o[2] # op[2]
    BY <1>4, <1>8, <1>10
  <2>2. stage = "scalarSet" => op[2] = MainSlot
    BY <1>2, <1>8
    DEF StageInv, ScalarStages, Family, MainSlot, AclSlot, NfsSlot, Ops, Slots
  <2>3. /\ o[2] = AclSlot => share.acl = Live.acl
        /\ o[2] = NfsSlot => share.nfs = Live.nfs
        /\ \A d \in Dirs : o[2] = DirSlot(d) => share.dirs[d] = Live.dirs[d]
    BY <1>1, <1>2, <1>6, <1>10, <2>1, WriteFields
  <2>4. share.live = Live.live
    <3>1. CASE stage = "scalarSet"
      <4>1. share = Live \/ (Live.live /\ share \in ScalarsSet)
        BY <1>1, <3>1, PossibleIs
      <4> QED
        BY <1>2, <1>7, <4>1 DEF ScalarsSet, LiveShare
    <3>2. CASE op[2] # MainSlot
      BY <1>1, <1>2, <1>6, <3>2, WriteFields
    <3> QED
      BY <1>10, <3>1, <3>2
  <2>5. o[2] = MainSlot => /\ share.volume = Live.volume /\ share.desc = Live.desc
                           /\ share.quota = Live.quota
    BY <1>1, <1>2, <1>6, <1>10, <2>1, <2>2, WriteFields
  <2> QED
    BY <1>1, <1>4, <1>5, <1>7, <1>10, <2>3, <2>4, <2>5, SlotKept
<1>11. CASE o[1] = op[1] /\ op[2] = MainSlot /\ stage # "scalarSet"
  <2>1. stage \in {"createCall", "deleteCall"}
    BY <1>1, <1>11
    DEF WriteStages, StageInv, AclStages, NfsStages, DirStages, MainSlot, AclSlot,
        NfsSlot
  <2>2. o[2] # MainSlot
    BY <1>4, <1>8, <1>11
  <2>3. CASE stage = "createCall"
    <3>1. IsNew(op[1])
      BY <1>11, <2>3 DEF StageInv, Family, MainFamily, MainSlot, AclSlot, NfsSlot
    <3> QED
      BY <1>5, <1>11, <2>2, <3>1
  <2>4. CASE stage = "deleteCall"
    <3>1. Want(o[1]).state = "absent" /\ status[o] # "none"
      BY <1>3, <1>11, <2>4 DEF NeedInv, Planned
    <3> QED
      BY <1>4, <2>2, <3>1 DEF NeedInv, Needed
  <2> QED
    BY <2>1, <2>3, <2>4
<1> QED
  BY <1>9, <1>10, <1>11

LEMMA NextWorkIsNeeded == RunInv /\ WorkIsNeeded /\ [Next]_vars => WorkIsNeeded'
<1> SUFFICES ASSUME RunInv, WorkIsNeeded, [Next]_vars, ~ edited',
                    NEW o \in Planned' \ wrote'
             PROVE  (~ OpHolds(o) \/ (IsNew(o[1]) /\ o[2] # MainSlot))'
  BY DEF WorkIsNeeded
<1>1. /\ TypeInv /\ ReportInv /\ NeedInv /\ StageInv /\ CursorInv /\ CalmPlanInv
      /\ status \in [Ops -> Statuses]
  BY DEF RunInv, TypeInv, ControlInv
<1>2. CASE Read \/ ReadFault
  <2>1. UNCHANGED <<doc, inv, seen>> /\ op \in Ops
    BY <1>1, <1>2, OpStages DEF ReportInv, ExecutionInv, Planned
  <2>2. UNCHANGED <<nas, edited, wrote>>
    BY <1>2 DEF ghosts, Read, CheckCreated, ReadScalars, VerifyScalarsSet,
       VerifyScalars, ReadAclBefore, VerifyAclSet, VerifyAcl, ReadNfsBefore,
       VerifyNfsSaved, VerifyNfs, ReadNewDir, VerifyDirChild, VerifyDirPath,
       RecheckDir, VerifyDirGone, VerifyDir, ReadUnavailable, Expect, ExpectLast,
       ReadOnly, ReadFault
  <2>3. op \in Planned
    BY <1>1, <1>2, OpStages DEF ReportInv, ExecutionInv
  <2>4. o \in Ops /\ status'[o] = "PLANNED"
    BY DEF Planned
  <2>5. o = op \/ status[o] = "PLANNED"
    BY <1>1, <1>2, <2>4 DEF Read, CheckCreated, ReadScalars, VerifyScalarsSet,
       VerifyScalars, ReadAclBefore, VerifyAclSet, VerifyAcl, ReadNfsBefore,
       VerifyNfsSaved, VerifyNfs, ReadNewDir, VerifyDirChild, VerifyDirPath,
       RecheckDir, VerifyDirGone, VerifyDir, ReadUnavailable, Expect, ExpectLast,
       ReadFault, Broken, Goto, Succeed, Fail, Abort
  <2>6. o \in Planned
    BY <2>3, <2>4, <2>5 DEF Planned
  <2> QED
    BY <2>1, <2>2, <2>6, StaysNeeded
<1>3. CASE Write \/ WriteLost \/ KillInWrite
  <2>1. ~ edited
    BY <1>3 DEF Write, CreateShare, SetScalars, SetAcl, SaveNfs, CreateDir, DeleteDir,
       DeleteShare, WriteRefused, WriteLost, KillInWrite, WriteAnswered, Sent
  <2> QED
    BY <1>1, <1>3, <2>1, WriteLeavesNeeded
<1>4. CASE Build
  <2>1. /\ pc = "build" /\ UNCHANGED <<doc, nas, inv, seen, edited>>
        /\ \A p \in Ops : status'[p] = IF InPlan(p) THEN "PLANNED" ELSE "none"
    BY <1>4 DEF Build, planVars, ghosts
  <2>2. o \in Ops /\ InPlan(o) /\ ~ edited
    BY <2>1 DEF Planned
  <2> QED
    BY <1>1, <2>1, <2>2, PlannedIsNeeded, SameHolds
<1>5. CASE (Plan /\ ~ Build) \/ PlanFault
  <2>1. status' = status /\ pc \in PlanPcs
    BY <1>5
    DEF Plan, List, SkipShare, PlanNewShare, RejectVolume, ReadState, ReadAcl,
        ReadNfs, ReadDir, DirsRead, SharesRead, PreflightCreate,
        LookupPrincipals, PlanFault, PlanCalls, MakesClient, PlanPcs, NextShare, Stop
  <2> QED
    BY <1>1, <2>1 DEF ReportInv, PlanningInv, Planned
<1>6. CASE StartOp \/ FinishPlan \/ Kill \/ UNCHANGED vars
  <2>1. UNCHANGED <<doc, nas, inv, seen, status, edited, wrote>>
    BY <1>6 DEF StartOp, FinishPlan, Kill, vars, planVars, opVars, ghosts
  <2> QED
    BY <2>1, StaysNeeded DEF Planned
<1>7. CASE Edit
  BY <1>7 DEF Edit
<1>8. CASE Rerun
  BY <1>8 DEF Rerun, Fresh, Planned
<1> QED
  BY <1>2, <1>3, <1>4, <1>5, <1>6, <1>7, <1>8 DEF Next, Client, Fault

\* Where no volume but the internal ones reports quotas: running the command
\* again, after whatever end, does only what is left to do, and after an
\* undisturbed success nothing.
THEOREM RerunResumesCorrect == ASSUME NoExternalQuotas PROVE Spec => []RerunResumes
<1>1. Init => WorkIsNeeded
  BY DEF Init, WorkIsNeeded, Planned
<1>2. WorkIsNeeded /\ RerunIsNoOp => RerunResumes
  BY DEF RerunResumes
<1> QED
  BY <1>1, <1>2, NextWorkIsNeeded, RunInvariant, RerunIsNoOpCorrect, PTL DEF Spec
=============================================================================
