---------------------------- MODULE ApplyConfig ----------------------------
(***************************************************************************)
(* syn-cli apply-config: build_apply_plan and execute_apply_plan of        *)
(* src/synology/apply_config.py, against a NAS other people administer.    *)
(*                                                                         *)
(* One client process reads the NAS share by share, builds a plan of       *)
(* operations and, with --yes, executes them one after another.  A step of *)
(* the client is one remote call (or the local decision between two), so   *)
(* an administrator's edit, a failed call, a lost response or a kill of    *)
(* the process can fall between any two of them.  The command may be run   *)
(* again any number of times.                                              *)
(***************************************************************************)
EXTENDS ShareData

CONSTANTS
    Documents,    \* the configuration documents considered
    StartStates,  \* the states of the NAS the first run may meet
    Edits,        \* the shares an administrator may put in place of another
    FreshAcls,    \* the permissions a new share may come with
    MaxEdits,     \* bound: edits by somebody else, over all runs
    MaxFaults     \* bound: failed calls and kills, over all runs

ASSUME DocumentAssumption == Documents \subseteq Document
ASSUME StartAssumption == StartStates \subseteq [Shares -> LiveShare]
ASSUME EditAssumption == Edits \subseteq LiveShare
ASSUME FreshAssumption == FreshAcls \subseteq [Accounts -> Access]
ASSUME BoundAssumption == MaxEdits \in Nat /\ MaxFaults \in Nat

VARIABLES
    doc,     \* the parsed document, fixed
    nas,     \* the live shares
    pc,      \* where the client is
    cur,     \* the share build_apply_plan is looking at
    inv,     \* inventory: what list_shares returned
    seen,    \* existing: the details that were read
    pre,     \* directory_preflights
    status,  \* the status of every operation of the plan
    op,      \* the operation being executed
    stage,   \* the remote call that operation has reached
    snap,    \* the share as that operation read it before writing
    exit,    \* exit code of the last run
    wrote,   \* ghost: operations that have sent a mutation in this run
    edited,  \* ghost: somebody else wrote during this run
    clean,   \* ghost: a run has ended with 0 and nobody wrote since it began
    edits, faults  \* budgets spent

planVars == <<cur, inv, seen, pre>>
opVars == <<op, stage, snap>>
ghosts == <<wrote, edited, clean>>
budgets == <<edits, faults>>
vars == <<doc, nas, pc, planVars, status, opVars, exit, ghosts, budgets>>

----------------------------------------------------------------------------
(* The plan: one slot per operation a share can need, in the order they run. *)

Slots == 1..(3 + D)
MainSlot == 1    \* delete, create or scalars
AclSlot == 2
NfsSlot == 3
DirSlot(d) == 3 + d
Ops == Shares \X Slots

Before(o, p) == o[1] < p[1] \/ (o[1] = p[1] /\ o[2] < p[2])

Statuses == {"none", "PLANNED", "SUCCEEDED", "FAILED", "UNKNOWN", "SKIPPED"}
PlanPcs == {"list", "share", "acl", "nfs", "dirs", "caps", "lookup", "build"}
Running == -1
Killed == -2
ExitCodes == {0, 10, 20, 30, 40, 41, 60, Running, Killed}

\* Calls that read, and the calls that change the NAS, of an operation.
ReadStages ==
    {"createCheck", "scalarRead", "scalarInner", "scalarVerify",
     "aclRead", "aclInner", "aclVerify", "nfsRead", "nfsInner", "nfsVerify",
     "dirRead", "dirChild", "dirInfo", "dirRecheck", "dirGone", "dirVerify"}
WriteStages ==
    {"createCall", "scalarSet", "aclSet", "nfsSet", "dirCreate", "dirDelete",
     "deleteCall"}

Unread == [kind |-> "unread", volume |-> CHOOSE v \in Volumes : TRUE]
DirPreflight == [kind: DirKinds \cup {"unread"}, volume: Volumes]
NoOp == <<0, 0>>

Want(s) == doc.shares[s]
Present(s) == Want(s).state = "present"
IsNew(s) == Present(s) /\ ~ inv[s].live
IsExisting(s) == Present(s) /\ inv[s].live
ManagedDirs(s) == {d \in Dirs : Want(s).dirs[d] # "unmanaged"}
Desc(s) == EffectiveDesc(Want(s), inv[s].live, seen[s].desc)

\* The run ends; a new one starts from nothing.
Stop(code) == pc' = "done" /\ exit' = code

Fresh ==
    /\ pc' = "list" /\ exit' = Running
    /\ cur' = 1
    /\ inv' = [s \in Shares |-> Vacant]
    /\ seen' = [s \in Shares |-> Vacant]
    /\ pre' = [s \in Shares |-> [d \in Dirs |-> Unread]]
    /\ status' = [o \in Ops |-> "none"]
    /\ op' = NoOp /\ stage' = "idle" /\ snap' = Vacant
    /\ wrote' = {} /\ edited' = FALSE

Init ==
    /\ doc \in Documents
    /\ nas \in StartStates
    /\ pc = "list" /\ exit = Running
    /\ cur = 1
    /\ inv = [s \in Shares |-> Vacant]
    /\ seen = [s \in Shares |-> Vacant]
    /\ pre = [s \in Shares |-> [d \in Dirs |-> Unread]]
    /\ status = [o \in Ops |-> "none"]
    /\ op = NoOp /\ stage = "idle" /\ snap = Vacant
    /\ wrote = {} /\ edited = FALSE /\ clean = FALSE
    /\ edits = 0 /\ faults = 0

----------------------------------------------------------------------------
(* build_apply_plan: every read that precedes the first write.             *)

List ==
    /\ pc = "list"
    /\ inv' = nas
    /\ pc' = "share"
    /\ UNCHANGED <<doc, nas, cur, seen, pre, status, opVars, exit, ghosts, budgets>>

\* The loop over config.shares, in the order of their names.
NextShare == cur' = cur + 1 /\ pc' = "share"

SkipShare ==
    /\ pc = "share" /\ cur \in Shares
    /\ ~ Present(cur)
    /\ NextShare
    /\ UNCHANGED <<doc, nas, inv, seen, pre, status, opVars, exit, ghosts, budgets>>

\* A share the inventory does not hold: its directories are preflighted from
\* the placement in the document; no call but the login of a File Station
\* client.
PlanNewShare ==
    /\ pc = "share" /\ cur \in Shares
    /\ IsNew(cur)
    /\ IF QuotaSupported(Want(cur), FALSE, Unavailable)
       THEN /\ pre' = [pre EXCEPT ![cur] =
                  [d \in Dirs |->
                     IF d \in ManagedDirs(cur)
                     THEN [kind |-> "missing", volume |-> Want(cur).volume]
                     ELSE @[d]]]
            /\ NextShare
            /\ UNCHANGED exit
       ELSE Stop(40) /\ UNCHANGED <<cur, pre>>
    /\ UNCHANGED <<doc, nas, inv, seen, status, opVars, ghosts, budgets>>

RejectVolume ==
    /\ pc = "share" /\ cur \in Shares
    /\ IsExisting(cur) /\ inv[cur].volume # Want(cur).volume
    /\ Stop(40)
    /\ UNCHANGED <<doc, nas, planVars, status, opVars, ghosts, budgets>>

\* read_apply_details is three reads: the share, its permissions, its NFS
\* rules.  A share that has gone meanwhile is an API error.
ReadState ==
    /\ pc = "share" /\ cur \in Shares
    /\ IsExisting(cur) /\ inv[cur].volume = Want(cur).volume
    /\ IF nas[cur].live
       THEN /\ seen' = [seen EXCEPT ![cur] = nas[cur]]
            /\ pc' = "acl" /\ UNCHANGED exit
       ELSE Stop(40) /\ UNCHANGED seen
    /\ UNCHANGED <<doc, nas, cur, inv, pre, status, opVars, ghosts, budgets>>

ReadAcl ==
    /\ pc = "acl"
    /\ IF nas[cur].live
       THEN /\ seen' = [seen EXCEPT ![cur].acl = nas[cur].acl]
            /\ pc' = "nfs" /\ UNCHANGED exit
       ELSE Stop(40) /\ UNCHANGED seen
    /\ UNCHANGED <<doc, nas, cur, inv, pre, status, opVars, ghosts, budgets>>

\* NFS rules that cannot be represented stop the plan; so does a quota that
\* the share turns out not to support.
ReadNfs ==
    /\ pc = "nfs"
    /\ IF /\ nas[cur].live
          /\ nas[cur].nfs # BadRules
          /\ QuotaSupported(Want(cur), TRUE, seen[cur].quota)
       THEN /\ seen' = [seen EXCEPT ![cur].nfs = nas[cur].nfs]
            /\ pc' = "dirs" /\ UNCHANGED exit
       ELSE Stop(40) /\ UNCHANGED seen
    /\ UNCHANGED <<doc, nas, cur, inv, pre, status, opVars, ghosts, budgets>>

UnreadDirs(s) == {d \in ManagedDirs(s) : pre[s][d].kind = "unread"}

\* preflight_apply_directory and _validate_directory_preflight.
ReadDir ==
    /\ pc = "dirs"
    /\ \E d \in UnreadDirs(cur) :
        /\ \A e \in UnreadDirs(cur) : d <= e
        /\ CASE ~ nas[cur].live -> Stop(40) /\ UNCHANGED pre
             [] nas[cur].live /\ ~ DirAcceptable(Want(cur).dirs[d],
                                                 nas[cur].dirs[d]) ->
                    Stop(10) /\ UNCHANGED pre
             [] OTHER ->
                    /\ pre' = [pre EXCEPT ![cur][d] =
                                 [kind |-> nas[cur].dirs[d],
                                  volume |-> nas[cur].volume]]
                    /\ UNCHANGED <<pc, exit>>
    /\ UNCHANGED <<doc, nas, cur, inv, seen, status, opVars, ghosts, budgets>>

DirsRead ==
    /\ pc = "dirs" /\ UnreadDirs(cur) = {}
    /\ NextShare
    /\ UNCHANGED <<doc, nas, inv, seen, pre, status, opVars, exit, ghosts, budgets>>

SharesRead ==
    /\ pc = "share" /\ cur \notin Shares
    /\ pc' = IF \E s \in Shares : IsNew(s) THEN "caps" ELSE "lookup"
    /\ UNCHANGED <<doc, nas, planVars, status, opVars, exit, ghosts, budgets>>

\* preflight_apply_create: the API capabilities, none of them modelled.
PreflightCreate ==
    /\ pc = "caps"
    /\ pc' = "lookup"
    /\ UNCHANGED <<doc, nas, planVars, status, opVars, exit, ghosts, budgets>>

\* _select_principal_lookup_share, and the inventory of that share.
LookupNeeded == Requested(doc) # {} \/ doc.lookup # 0
LookupShares ==
    IF doc.lookup # 0 THEN {s \in {doc.lookup} : inv[s].live}
    ELSE {s \in Shares : IsExisting(s) /\
                         \A t \in Shares : IsExisting(t) => s <= t}

LookupPrincipals ==
    /\ pc = "lookup"
    /\ IF ~ LookupNeeded THEN pc' = "build" /\ UNCHANGED exit
       ELSE IF ~ \E s \in LookupShares : nas[s].live THEN Stop(40)
       ELSE IF ~ Requested(doc) \subseteq Known THEN Stop(41)
       ELSE pc' = "build" /\ UNCHANGED exit
    /\ UNCHANGED <<doc, nas, planVars, status, opVars, ghosts, budgets>>

\* _create_operations, _existing_operations, _directory_operations: the
\* slots of a share that get an operation.
\* Mutant: permissions and NFS rules are planned for existing shares only.
CreateAlone(s) == {MainSlot}

CreateOperations(s) == {MainSlot, AclSlot, NfsSlot}

\* Mutant: NFS rules are planned for new shares only.
ExistingButNfs(s) ==
    {slot \in {MainSlot, AclSlot} :
        \/ slot = MainSlot /\ ScalarsDiffer(Want(s), seen[s])
        \/ slot = AclSlot /\ ~ AclMatches(Want(s), seen[s].acl)}

\* Mutant: a share in which anything differs is planned as a whole.
ExistingAsWhole(s) ==
    IF \/ ScalarsDiffer(Want(s), seen[s])
       \/ ~ AclMatches(Want(s), seen[s].acl)
       \/ seen[s].nfs # Want(s).nfs
    THEN {MainSlot, AclSlot, NfsSlot} ELSE {}

ExistingOperations(s) ==
    {slot \in {MainSlot, AclSlot, NfsSlot} :
        \/ slot = MainSlot /\ ScalarsDiffer(Want(s), seen[s])
        \/ slot = AclSlot /\ ~ AclMatches(Want(s), seen[s].acl)
        \/ slot = NfsSlot /\ seen[s].nfs # Want(s).nfs}

DirectoryOperations(s) ==
    {DirSlot(d) : d \in {x \in Dirs :
        DirOperation(Want(s).dirs[x], pre[s][x].kind)}}

\* Mutant: a share the document does not list is set to the defaults.
UnlistedAsDefaults(o) ==
    LET s == o[1]
    IN  o[2] \in IF IsNew(s) THEN CreateOperations(s) \cup DirectoryOperations(s)
                 ELSE IF IsExisting(s)
                 THEN ExistingOperations(s) \cup DirectoryOperations(s)
                 ELSE IF inv[s].live THEN {MainSlot} ELSE {}

\* The operations of the plan; a share to remove gets one if it is there.
InPlan(o) ==
    LET s == o[1]
    IN  o[2] \in IF IsNew(s) THEN CreateOperations(s) \cup DirectoryOperations(s)
                 ELSE IF IsExisting(s)
                 THEN ExistingOperations(s) \cup DirectoryOperations(s)
                 ELSE IF Want(s).state = "absent" /\ inv[s].live
                 THEN {MainSlot} ELSE {}

\* Mutant: the plan is executed without --yes.
BuildAndExecute ==
    /\ pc = "build"
    /\ status' = [o \in Ops |-> IF InPlan(o) THEN "PLANNED" ELSE "none"]
    /\ pc' = "execute"
    /\ UNCHANGED <<doc, nas, planVars, opVars, exit, ghosts, budgets>>

\* The plan is complete.  Without --yes it is shown and nothing is written.
Build ==
    /\ pc = "build"
    /\ status' = [o \in Ops |-> IF InPlan(o) THEN "PLANNED" ELSE "none"]
    /\ IF doc.yes THEN pc' = "execute" /\ UNCHANGED exit ELSE Stop(0)
    /\ UNCHANGED <<doc, nas, planVars, opVars, ghosts, budgets>>

----------------------------------------------------------------------------
(* execute_apply_plan: the operations in their order, one at a time.       *)

MainFamily(s) ==
    IF Want(s).state = "absent" THEN "delete"
    ELSE IF IsNew(s) THEN "create" ELSE "scalars"
Family(o) ==
    CASE o[2] = MainSlot -> MainFamily(o[1])
      [] o[2] = AclSlot -> "acl"
      [] o[2] = NfsSlot -> "nfs"
      [] o[2] > NfsSlot -> "directory"

Planned == {o \in Ops : status[o] = "PLANNED"}
OpShare == op[1]
OpWant == Want(op[1])
OpDir == op[2] - 3
OpItem == OpWant.dirs[OpDir]
Live == nas[op[1]]
Target == pre[op[1]][op[2] - 3]

\* What a directory operation does once its target is known.
DirStage(item, kind) ==
    CASE item = "present" /\ kind = "missing" -> "dirCreate"
      [] item = "absent" /\ kind = "empty" -> "dirRecheck"
      [] OTHER -> "dirVerify"

\* A directory of a share that this plan creates is preflighted again.
FirstStage(o) ==
    CASE Family(o) = "delete" -> "deleteCall"
      [] Family(o) = "create" -> "createCall"
      [] Family(o) = "scalars" -> "scalarRead"
      [] Family(o) = "acl" -> "aclRead"
      [] Family(o) = "nfs" -> "nfsRead"
      [] Family(o) = "directory" ->
            IF IsNew(o[1]) THEN "dirRead"
            ELSE DirStage(Want(o[1]).dirs[o[2] - 3],
                          pre[o[1]][o[2] - 3].kind)

\* Mutant: the operations of the plan run in any order.
StartAnyOp ==
    /\ pc = "execute" /\ stage = "idle"
    /\ \E o \in Planned : op' = o /\ stage' = FirstStage(o)
    /\ UNCHANGED <<doc, nas, pc, planVars, status, snap, exit, ghosts, budgets>>

StartOp ==
    /\ pc = "execute" /\ stage = "idle"
    /\ \E o \in Planned :
        /\ \A p \in Planned \ {o} : Before(o, p)
        /\ op' = o
        /\ stage' = FirstStage(o)
    /\ UNCHANGED <<doc, nas, pc, planVars, status, snap, exit, ghosts, budgets>>

FinishPlan ==
    /\ pc = "execute" /\ stage = "idle" /\ Planned = {}
    /\ Stop(0)
    /\ clean' = ~ edited
    /\ UNCHANGED <<doc, nas, planVars, status, opVars, wrote, edited, budgets>>

Goto(next) ==
    /\ stage' = next
    /\ UNCHANGED <<pc, status, exit>>

Succeed ==
    /\ status' = [status EXCEPT ![op] = "SUCCEEDED"]
    /\ stage' = "idle"
    /\ UNCHANGED <<pc, exit>>

\* Mutants: the plan goes on after a failure; what was not reached is not
\* marked as skipped.
FailAndGoOn(how) ==
    /\ status' = [status EXCEPT ![op] = how]
    /\ stage' = "idle"
    /\ UNCHANGED <<pc, exit>>
FailAlone(how) ==
    /\ status' = [status EXCEPT ![op] = how]
    /\ stage' = "idle"
    /\ Stop(60)

\* The plan stops: this operation FAILED or UNKNOWN, the rest SKIPPED.
Fail(how) ==
    /\ status' = [o \in Ops |->
          IF o = op THEN how
          ELSE IF status[o] = "PLANNED" THEN "SKIPPED" ELSE status[o]]
    /\ stage' = "idle"
    /\ Stop(60)

\* ScalarUpdatePreflightError leaves execute_apply_plan as it is: no result.
Abort == Stop(40) /\ UNCHANGED <<status, stage>>

At(s) == pc = "execute" /\ stage = s
ReadOnly ==
    UNCHANGED <<doc, nas, planVars, op, ghosts, budgets>>
Put(share) == nas' = [nas EXCEPT ![OpShare] = share]
Sent == wrote' = wrote \cup {op} /\ UNCHANGED <<edited, clean>>

\* Each call that writes: the shares the NAS may hold once it is done.
\* None is left to choose from when the NAS has to refuse the call.
Created ==
    IF Live.live THEN {}
    ELSE {[live |-> TRUE, volume |-> OpWant.volume, desc |-> d, quota |-> q,
           hidden |-> FALSE, acl |-> a, nfs |-> NoRules,
           dirs |-> [x \in Dirs |-> "missing"]] :
            d \in {Desc(OpShare), NoDesc}, a \in FreshAcls,
            q \in IF QuotaRequest(OpWant) = Unavailable THEN {Unavailable}
                  ELSE {QuotaRequest(OpWant), Unlimited}}

\* Mutant: the set request leaves "hidden" out and the NAS resets it.
ScalarsSetVisible ==
    IF ~ Live.live THEN {}
    ELSE {[Live EXCEPT
             !.volume = snap.volume, !.hidden = FALSE,
             !.desc = Desc(OpShare),
             !.quota = IF QuotaRequest(OpWant) # Unavailable
                       THEN QuotaRequest(OpWant) ELSE @]}

\* The set request carries every mutable field of the share as it was read,
\* the volume too: a share recreated elsewhere meanwhile is moved back, and
\* has the quota capability of that volume.
ScalarsSet ==
    IF ~ Live.live THEN {}
    ELSE {[Live EXCEPT
             !.volume = snap.volume, !.hidden = snap.hidden,
             !.desc = Desc(OpShare),
             !.quota = IF QuotaRequest(OpWant) # Unavailable
                       THEN QuotaRequest(OpWant)
                       ELSE IF Live.volume = snap.volume THEN @
                       ELSE snap.quota]}

\* Only entries that differed from the goal when they were read are sent,
\* one category of principals after the other: done lists what got there.
AclDelta == {a \in Accounts : snap.acl[a] # AclGoal(OpWant)[a]}
AclSet(done) ==
    [Live EXCEPT !.acl =
        [a \in Accounts |-> IF a \in done THEN AclGoal(OpWant)[a]
                            ELSE Live.acl[a]]]
AclReplaced == IF Live.live THEN {AclSet(AclDelta)} ELSE {}
AclPartly ==
    IF Live.live THEN {AclSet(done) : done \in SUBSET AclDelta} ELSE {}

NfsSaved == IF Live.live THEN {[Live EXCEPT !.nfs = OpWant.nfs]} ELSE {}

\* create_folder without force_parent; the NAS may accept an existing
\* directory, never a file in its place.
DirCreated ==
    IF ~ Live.live THEN {}
    ELSE CASE Live.dirs[OpDir] = "missing" ->
                {[Live EXCEPT !.dirs[OpDir] = "empty"]}
           [] Live.dirs[OpDir] \in {"empty", "full"} -> {Live}
           [] OTHER -> {}

\* Mutant: delete with recursive=True.
DirDeletedRecursively ==
    IF Live.live /\ Live.dirs[OpDir] # "missing"
    THEN {[Live EXCEPT !.dirs[OpDir] = "missing"]} ELSE {}

\* delete with recursive=False: a directory with children stays.
DirDeleted ==
    IF Live.live /\ Live.dirs[OpDir] = "empty"
    THEN {[Live EXCEPT !.dirs[OpDir] = "missing"]} ELSE {}

Deleted == IF Live.live THEN {Vacant} ELSE {}

Effects ==
    CASE stage = "createCall" -> Created
      [] stage = "scalarSet" -> ScalarsSet
      [] stage = "aclSet" -> AclReplaced
      [] stage = "nfsSet" -> NfsSaved
      [] stage = "dirCreate" -> DirCreated
      [] stage = "dirDelete" -> DirDeleted
      [] stage = "deleteCall" -> Deleted

\* What may have happened when the answer never came.
Possible == {Live} \cup (IF stage = "aclSet" THEN AclPartly ELSE Effects)

----------------------------------------------------------------------------
(* Writes that are answered.                                               *)

WriteAnswered(at, next) ==
    /\ At(at)
    /\ \E share \in Effects : Put(share)
    /\ Goto(next)
    /\ Sent
    /\ UNCHANGED <<doc, planVars, op, snap, budgets>>

CreateShare == WriteAnswered("createCall", "createCheck")
SetScalars == WriteAnswered("scalarSet", "scalarInner")
SetAcl == WriteAnswered("aclSet", "aclInner")
SaveNfs == WriteAnswered("nfsSet", "nfsInner")
CreateDir == WriteAnswered("dirCreate", "dirChild")
DeleteDir == WriteAnswered("dirDelete", "dirGone")

\* A deletion is not read back.
DeleteShare ==
    /\ At("deleteCall")
    /\ \E share \in Effects : Put(share)
    /\ Succeed
    /\ Sent
    /\ UNCHANGED <<doc, planVars, op, snap, budgets>>

\* A refusal is an ApiError of create_share, delete_share and the File
\* Station client (whose delete call may also report it as uncertain);
\* the set requests treat everything as uncertain.
RefusedStatus ==
    CASE stage \in {"createCall", "deleteCall", "dirCreate"} -> {"FAILED"}
      [] stage = "dirDelete" -> {"FAILED", "UNKNOWN"}
      [] OTHER -> {"UNKNOWN"}

LostStatus ==
    CASE stage \in {"createCall", "deleteCall"} -> {"FAILED"}
      [] stage \in {"dirCreate", "dirDelete"} -> {"FAILED", "UNKNOWN"}
      [] OTHER -> {"UNKNOWN"}

WriteRefused ==
    /\ pc = "execute" /\ stage \in WriteStages
    /\ Effects = {}
    /\ \E how \in RefusedStatus : Fail(how)
    /\ Sent
    /\ UNCHANGED <<doc, nas, planVars, op, snap, budgets>>

\* The request fails or its answer is lost; the NAS did it, or not.
WriteLost ==
    /\ pc = "execute" /\ stage \in WriteStages
    /\ faults < MaxFaults /\ faults' = faults + 1
    /\ \E share \in Possible : Put(share)
    /\ \E how \in LostStatus : Fail(how)
    /\ Sent
    /\ UNCHANGED <<doc, planVars, op, snap, edits>>

----------------------------------------------------------------------------
(* Reads, and what they decide.                                            *)

\* Stages that read the NFS rules fail on rules that cannot be represented.
NfsReading ==
    {"createCheck", "scalarVerify", "aclVerify",
     "nfsRead", "nfsInner", "nfsVerify"}
Readable ==
    /\ Live.live
    /\ stage \in NfsReading => Live.nfs # BadRules

\* A read that fails after a write of the same client call is a partial
\* outcome; another one just fails.  get_file_info maps API errors only.
BrokenStatus(kind) ==
    IF \/ stage \in {"scalarInner", "aclInner", "nfsInner", "dirChild", "dirGone"}
       \/ stage = "dirInfo" /\ kind = "api"
    THEN "UNKNOWN" ELSE "FAILED"

Broken(kind) ==
    IF stage = "scalarRead" /\ kind = "api" THEN Abort
    ELSE Fail(BrokenStatus(kind))

ReadUnavailable ==
    /\ pc = "execute" /\ stage \in ReadStages
    /\ ~ Readable
    /\ Broken("api")
    /\ UNCHANGED <<doc, nas, planVars, op, snap, ghosts, budgets>>

ReadFault ==
    /\ pc = "execute" /\ stage \in ReadStages
    /\ faults < MaxFaults /\ faults' = faults + 1
    /\ \E kind \in {"api", "transport"} : Broken(kind)
    /\ UNCHANGED <<doc, nas, planVars, op, snap, ghosts, edits>>

\* Mutant: the read-back is repeated until it agrees.
ExpectInTheEnd(agrees, next) ==
    /\ Readable
    /\ IF agrees THEN Goto(next) ELSE Goto(stage)
    /\ ReadOnly /\ UNCHANGED snap

\* A read-back that has to agree: the next stage, or the outcome is unknown.
Expect(agrees, next) ==
    /\ Readable
    /\ IF agrees THEN Goto(next) ELSE Fail("UNKNOWN")
    /\ ReadOnly /\ UNCHANGED snap

ExpectLast(agrees) ==
    /\ Readable
    /\ IF agrees THEN Succeed ELSE Fail("UNKNOWN")
    /\ ReadOnly /\ UNCHANGED snap

QuotaAsRequested(quota) ==
    QuotaRequest(OpWant) # Unavailable => quota = QuotaRequest(OpWant)

\* The share that was created has the right place; its scalars are
\* corrected when they came out otherwise.
CheckCreated ==
    /\ At("createCheck") /\ Readable
    /\ CASE Live.volume # OpWant.volume -> Fail("UNKNOWN")
         [] /\ Live.volume = OpWant.volume
            /\ Live.desc = Desc(OpShare) /\ QuotaAsRequested(Live.quota) ->
                Succeed
         [] OTHER -> Goto("scalarRead")
    /\ ReadOnly /\ UNCHANGED snap

\* update_share_scalars reads, then sets; what it cannot set ends the run.
ReadScalars ==
    /\ At("scalarRead") /\ Readable
    /\ IF QuotaRequest(OpWant) # Unavailable /\ Live.quota = Unavailable
       THEN Abort /\ UNCHANGED snap
       ELSE Goto("scalarSet") /\ snap' = Live
    /\ ReadOnly

VerifyScalarsSet ==
    /\ At("scalarInner")
    /\ Expect(/\ Live.volume = snap.volume
              /\ Live.hidden = snap.hidden
              /\ Live.desc = Desc(OpShare)
              /\ Live.quota = IF QuotaRequest(OpWant) = Unavailable
                              THEN snap.quota ELSE QuotaRequest(OpWant),
              "scalarVerify")

\* The caller reads again; for an existing share it looks at the quota only
\* when the document gives one.
VerifyScalars ==
    /\ At("scalarVerify")
    /\ ExpectLast(/\ Live.volume = OpWant.volume
                  /\ Live.desc = Desc(OpShare)
                  /\ IF Family(op) = "create" THEN QuotaAsRequested(Live.quota)
                     ELSE OpWant.quota # Unavailable =>
                              Live.quota = OpWant.quota)

\* replace_apply_acl: the grants asked for and the one of administrators,
\* and nothing else.
ReadAclBefore ==
    /\ At("aclRead") /\ Readable
    /\ IF ~ {p \in Principals : OpWant.acl[p] # "none"} \subseteq Known
       THEN Fail("FAILED") /\ UNCHANGED snap
       ELSE IF Live.acl = AclGoal(OpWant)
       THEN Goto("aclVerify") /\ UNCHANGED snap
       ELSE Goto("aclSet") /\ snap' = Live
    /\ ReadOnly

VerifyAclSet == At("aclInner") /\ Expect(Live.acl = AclGoal(OpWant), "aclVerify")

VerifyAcl ==
    /\ At("aclVerify")
    /\ ExpectLast(/\ Live.acl[Administrators] = "rw"
                  /\ AclMatches(OpWant, Live.acl))

ReadNfsBefore ==
    /\ At("nfsRead") /\ Readable
    /\ IF Live.nfs = OpWant.nfs THEN Goto("nfsVerify") ELSE Goto("nfsSet")
    /\ ReadOnly /\ UNCHANGED snap

VerifyNfsSaved == At("nfsInner") /\ Expect(Live.nfs = OpWant.nfs, "nfsVerify")

VerifyNfs == At("nfsVerify") /\ ExpectLast(Live.nfs = OpWant.nfs)

\* A directory of a share this plan created: its place is known only now.
ReadNewDir ==
    /\ At("dirRead") /\ Readable
    /\ IF DirAcceptable(OpItem, Live.dirs[OpDir])
       THEN /\ Goto(DirStage(OpItem, Live.dirs[OpDir]))
            /\ pre' = [pre EXCEPT ![OpShare][OpDir] =
                         [kind |-> Live.dirs[OpDir], volume |-> Live.volume]]
       ELSE Fail("FAILED") /\ UNCHANGED pre
    /\ UNCHANGED <<doc, nas, cur, inv, seen, op, snap, ghosts, budgets>>

VerifyDirChild ==
    /\ At("dirChild")
    /\ Expect(Live.dirs[OpDir] \in {"empty", "full"}, "dirInfo")

VerifyDirPath ==
    /\ At("dirInfo")
    /\ Expect(/\ Live.dirs[OpDir] \in {"empty", "full"}
              /\ Live.volume = Target.volume, "dirVerify")

\* delete_preflighted_dir looks again before it deletes.
RecheckDir ==
    /\ At("dirRecheck") /\ Readable
    /\ CASE Live.dirs[OpDir] # "empty" -> Fail("FAILED")
         [] Live.dirs[OpDir] = "empty" /\ Live.volume # Target.volume ->
                Fail("UNKNOWN")
         [] OTHER -> Goto("dirDelete")
    /\ ReadOnly /\ UNCHANGED snap

VerifyDirGone ==
    At("dirGone") /\ Expect(Live.dirs[OpDir] = "missing", "dirVerify")

VerifyDir ==
    /\ At("dirVerify")
    /\ ExpectLast(IF OpItem = "present"
                  THEN Live.dirs[OpDir] \in {"empty", "full"}
                  ELSE Live.dirs[OpDir] = "missing")

----------------------------------------------------------------------------
(* The world around the client.                                            *)

\* A client is made, which logs in: one for the run, and a File Station client
\* for every directory.
MakesClient ==
    \/ pc = "list"
    \/ pc = "dirs" /\ UnreadDirs(cur) # {}
    \/ /\ pc = "share" /\ cur \in Shares /\ IsNew(cur) /\ ManagedDirs(cur) # {}
       /\ QuotaSupported(Want(cur), FALSE, Unavailable)

\* The steps of the plan that make a call.
PlanCalls ==
    \/ MakesClient
    \/ pc \in {"acl", "nfs", "caps"}
    \/ pc = "share" /\ cur \in Shares /\ IsExisting(cur)
                    /\ inv[cur].volume = Want(cur).volume
    \/ pc = "lookup" /\ LookupNeeded

\* A call of the plan fails: authentication, transport, an API error.  An
\* answer to a login that makes no sense passes for wrong settings.
PlanFault ==
    /\ PlanCalls
    /\ faults < MaxFaults /\ faults' = faults + 1
    /\ \/ \E code \in {20, 30, 40} : Stop(code)
       \/ MakesClient /\ Stop(10)
    /\ UNCHANGED <<doc, nas, planVars, status, opVars, ghosts, edits>>

Kill ==
    /\ pc # "done"
    /\ faults < MaxFaults /\ faults' = faults + 1
    /\ Stop(Killed)
    /\ UNCHANGED <<doc, nas, planVars, status, opVars, ghosts, edits>>

KillInWrite ==
    /\ pc = "execute" /\ stage \in WriteStages
    /\ faults < MaxFaults /\ faults' = faults + 1
    /\ \E share \in Possible : Put(share)
    /\ Stop(Killed)
    /\ Sent
    /\ UNCHANGED <<doc, planVars, status, opVars, edits>>

\* Somebody else replaces, creates or deletes a share.
Edit ==
    /\ edits < MaxEdits /\ edits' = edits + 1
    /\ \E s \in Shares, share \in Edits \cup {Vacant} :
          nas[s] # share /\ nas' = [nas EXCEPT ![s] = share]
    /\ edited' = TRUE /\ clean' = FALSE
    /\ UNCHANGED <<doc, pc, planVars, status, opVars, exit, wrote, faults>>

\* The command is run again on the same document.
Rerun ==
    /\ pc = "done"
    /\ Fresh
    /\ UNCHANGED <<doc, nas, clean, budgets>>

Plan ==
    \/ List \/ SkipShare \/ PlanNewShare \/ RejectVolume
    \/ ReadState \/ ReadAcl \/ ReadNfs \/ ReadDir \/ DirsRead
    \/ SharesRead \/ PreflightCreate \/ LookupPrincipals \/ Build

Write ==
    \/ CreateShare \/ SetScalars \/ SetAcl \/ SaveNfs
    \/ CreateDir \/ DeleteDir \/ DeleteShare \/ WriteRefused

Read ==
    \/ CheckCreated \/ ReadScalars \/ VerifyScalarsSet \/ VerifyScalars
    \/ ReadAclBefore \/ VerifyAclSet \/ VerifyAcl
    \/ ReadNfsBefore \/ VerifyNfsSaved \/ VerifyNfs
    \/ ReadNewDir \/ VerifyDirChild \/ VerifyDirPath
    \/ RecheckDir \/ VerifyDirGone \/ VerifyDir \/ ReadUnavailable

Client == Plan \/ StartOp \/ FinishPlan \/ Write \/ Read
Fault == PlanFault \/ ReadFault \/ WriteLost \/ Kill \/ KillInWrite

Next == Client \/ Fault \/ Edit \/ Rerun

Spec == Init /\ [][Next]_vars

\* Every call the client makes returns or raises, so the process goes on.
FairSpec == Spec /\ WF_vars(Client)

\* An operator who runs the command again each time it has ended.
PersistentSpec == FairSpec /\ WF_vars(Rerun)

----------------------------------------------------------------------------
(* Properties.                                                             *)

\* Every variable has its type.
TypeOK ==
    /\ doc \in Document
    /\ nas \in [Shares -> LiveShare]
    /\ pc \in PlanPcs \cup {"execute", "done"}
    /\ cur \in 1..(N + 1)
    /\ inv \in [Shares -> LiveShare]
    /\ seen \in [Shares -> LiveShare]
    /\ pre \in [Shares -> [Dirs -> DirPreflight]]
    /\ status \in [Ops -> Statuses]
    /\ op \in Ops \cup {NoOp}
    /\ stage \in {"idle"} \cup ReadStages \cup WriteStages
    /\ snap \in LiveShare
    /\ exit \in ExitCodes
    /\ wrote \subseteq Ops
    /\ edited \in BOOLEAN /\ clean \in BOOLEAN
    /\ edits \in 0..MaxEdits /\ faults \in 0..MaxFaults

\* A run that ends with anything but 0, 60 or a kill has sent no mutation:
\* whatever fails before execute_apply_plan starts is free of side effects.
\* The exception is a scalar update that fails its own preflight, which
\* ends with 40 whatever the plan did before it.  A dry run sends nothing.
EarlyExitWroteNothing ==
    /\ pc = "done" /\ exit \notin {0, 60, Killed} =>
           wrote = {} \/ (exit = 40 /\ stage = "scalarRead")
    /\ ~ doc.yes => wrote = {}

\* What README says of exit codes (a failed or uncertain mutation exits 60,
\* whose report lists the operations), without that exception: a run that
\* has changed the NAS ends with 0 or 60, unless it is killed.
StoppedPlanIsReported ==
    pc = "done" /\ wrote # {} => exit \in {0, 60, Killed}

\* The report of execute_apply_plan: with 60, one operation is to blame,
\* all before it succeeded and all after it were skipped; with 0 none is
\* left; and only an operation the report owns up to has sent anything.
ReportMatchesWork ==
    /\ pc = "done" /\ exit = 60 =>
         \E o \in Ops :
            /\ status[o] \in {"FAILED", "UNKNOWN"}
            /\ \A p \in Ops \ {o} : status[p] # "none" =>
                   status[p] = IF Before(p, o) THEN "SUCCEEDED" ELSE "SKIPPED"
    /\ pc = "done" /\ exit = 0 /\ doc.yes =>
         \A o \in Ops : status[o] \in {"none", "SUCCEEDED"}
    /\ \A o \in wrote : status[o] \notin {"none", "SKIPPED"}

\* An operation that succeeded still holds at the end of the plan, for as
\* long as nobody else writes: a later operation, such as the write of all
\* mutable fields by update_share_scalars, does not undo an earlier one.
OpHolds(o) ==
    LET live == nas[o[1]]
        want == Want(o[1])
    IN  CASE Family(o) = "delete" -> ~ live.live
          [] Family(o) \in {"create", "scalars"} ->
                /\ live.live /\ live.volume = want.volume
                /\ live.desc = Desc(o[1])
                /\ QuotaPlanned(want, live.quota) = live.quota
          [] Family(o) = "acl" -> live.acl = AclGoal(want)
          [] Family(o) = "nfs" -> live.nfs = want.nfs
          [] OTHER -> live.dirs[o[2] - 3] \in
                        IF want.dirs[o[2] - 3] = "present"
                        THEN {"empty", "full"} ELSE {"missing"}
SucceededHolds ==
    ~ edited => \A o \in Ops : status[o] = "SUCCEEDED" => OpHolds(o)

\* An operation is in the plan because something is missing: as long as nobody
\* else writes, one that has still to come does not hold yet, and nothing
\* before it on the same share makes it hold, but for the parts of a share
\* that is made first.  So the plan that follows an interruption leaves out
\* what was done before it.
WorkIsNeeded ==
    ~ edited => \A o \in Planned \ wrote :
        ~ OpHolds(o) \/ (IsNew(o[1]) /\ o[2] # MainSlot)

\* README: apply-config verifies changed families by read-back.  So a
\* scalar operation that succeeded has left the quota its plan announced.
ScalarsReachPlan ==
    ~ edited => \A s \in Shares :
        status[<<s, MainSlot>>] = "SUCCEEDED" /\ IsExisting(s)
          => nas[s].quota = QuotaPlanned(Want(s), seen[s].quota)

\* Exit code 0 of an apply nobody interfered with: every share the document
\* names is as the document says.
CleanMeansConverged ==
    clean => \A s \in Shares : Agrees(Want(s), nas[s])

\* Running the command again after such an apply plans nothing.
RerunIsNoOp == clean /\ pc = "execute" => Planned = {}

\* And after any other, only what is left to do.
RerunResumes == WorkIsNeeded /\ RerunIsNoOp

\* The client leaves alone what the document does not name: other shares,
\* children not listed under directories; and never removes a present share.
UntouchedOutside ==
    [][edits' = edits =>
        \A s \in Shares :
          /\ Want(s).state = "unmanaged" => nas'[s] = nas[s]
          /\ Present(s) /\ nas[s].live =>
               /\ nas'[s].live
               /\ \A d \in Dirs \ ManagedDirs(s) :
                     nas'[s].dirs[d] = nas[s].dirs[d]]_vars

\* A write of the client keeps the fields of a live share that the document
\* leaves to the NAS: its placement, its visibility and, when it is omitted,
\* its description; update_share_scalars writes them back from what it read.
FieldsKept(s) ==
    Present(s) /\ nas[s].live =>
        /\ nas'[s].volume = nas[s].volume
        /\ nas'[s].hidden = nas[s].hidden
        /\ Want(s).desc = Omitted => nas'[s].desc = nas[s].desc

\* That holds as long as nobody else has written during the run.
QuietRunKeepsFields ==
    [][edits' = edits /\ ~ edited => \A s \in Shares : FieldsKept(s)]_vars

\* README: an omitted description preserves an existing description.  Here
\* without the proviso that nobody edits it while the plan is executed.
OmittedDescriptionKept ==
    [][edits' = edits =>
        \A s \in Shares :
            IsExisting(s) /\ Want(s).desc = Omitted /\ nas[s].live
              => nas'[s].desc = nas[s].desc]_vars

\* No step of the client removes a file or a directory with children, even
\* when they appear after the preflight that found an empty directory.
NoChildrenLost ==
    [][edits' = edits =>
        \A s \in Shares, d \in Dirs :
            nas[s].live /\ nas'[s].live /\ nas[s].dirs[d] \in {"file", "full"}
              => nas'[s].dirs[d] = nas[s].dirs[d]]_vars

\* No step of the client takes the read-write grant of the administrators
\* group away, and an ACL operation that succeeded has left it there.
AdministratorsKept ==
    [][edits' = edits =>
        \A s \in Shares :
            nas[s].live /\ nas'[s].live /\ nas[s].acl[Administrators] = "rw"
              => nas'[s].acl[Administrators] = "rw"]_vars

\* Every run ends, whatever fails and whoever interferes.
Terminates == pc # "done" ~> pc = "done"

\* An operator who runs the command again after every failure gets the NAS
\* the document describes, once failures and edits have stopped, unless the
\* plan itself keeps refusing (exit 10, 40 or 41): half-done plans, lost
\* answers and kills need no repair by hand.
RerunsConverge ==
    doc.yes ~> \/ \A s \in Shares : Agrees(Want(s), nas[s])
               \/ pc = "done" /\ exit \in {10, 40, 41} /\ wrote = {}
=============================================================================
