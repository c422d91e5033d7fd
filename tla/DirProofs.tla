----------------------------- MODULE DirProofs -----------------------------
(***************************************************************************)
(* add-dir, rm-dir, list-dirs: the exit code tells of the change, success  *)
(* means what it says, a step changes nothing but what the plan has shown. *)
(***************************************************************************)
EXTENDS DirCommands, PagingProofs

Stages == {"none", "PLANNED", "SUCCEEDED", "FAILED", "UNKNOWN"}
Reports == [change: Stages, verify: Stages]
Changed == [change |-> "SUCCEEDED", verify |-> "none"]

DataInv ==
    /\ nas \in Nas /\ job \in Job
    /\ phase \in {"look", "again", "verify"} /\ pc \in Calls \cup {"start", "done"}
    /\ report \in Reports
    /\ sent \in BOOLEAN /\ did \in BOOLEAN /\ unsure \in BOOLEAN /\ stayed \in BOOLEAN

\* Before the change nothing was sent and nothing is reported; after it the
\* report has it.
ProgressInv ==
    pc # "done" =>
        /\ exit = Running /\ ~ unsure
        /\ phase # "verify" => ~ sent /\ ~ did /\ report = NoSteps
        /\ phase = "verify" =>
              sent /\ (job.kind = "rm" => did) /\ report = Changed

\* What each call is for.
CallInv ==
    /\ phase # "look" => job.yes /\ job.kind \in {"add", "rm"}
    /\ pc = "start" => phase = "look"
    /\ pc \in {"login", "folder", "mapping"} => phase # "verify"
    /\ pc = "inside" => phase # "verify" /\ job.kind = "rm"
    /\ pc = "create" => phase = "again" /\ job.kind = "add"
    /\ pc = "delete" => phase = "again" /\ job.kind = "rm" /\ home = planned
    /\ pc = "info" => phase = "verify" /\ job.kind = "add"

\* get_folder's answer holds until somebody moves the share.
HomeInv == stayed => nas.volume = home

Inv == DataInv /\ ProgressInv /\ CallInv /\ HomeInv /\ ExitTellsWork

\* A set of one step counts one.
LEMMA Singletons == \A x : Cardinality({x}) = 1
  BY FS_Singleton

\* A command that has not begun has done and reported nothing.
LEMMA InitInv == Init => Inv
<1> SUFFICES ASSUME Init PROVE Inv
  OBVIOUS
<1>1. DataInv
  BY WorldAssumption DEF Init, DataInv, Reports, Stages, NoSteps
<1> QED
  BY <1>1 DEF Init, Inv, ProgressInv, CallInv, HomeInv, ExitTellsWork

\* A command that goes on, or stops before the change.
LEMMA LookingOn ==
    ASSUME Inv, pc # "done", phase # "verify",
           UNCHANGED <<nas, job, sent, did, unsure>>,
           stayed' \in BOOLEAN, stayed' => nas.volume = home',
           \/ pc' \in Calls /\ exit' = exit /\ report' = report /\ CallInv'
           \/ /\ pc' = "done" /\ exit' \in {0, 10, 20, 30, 40, 70} /\ phase' = phase
              /\ report' \in {report, [report EXCEPT !["change"] = "PLANNED"]}
              /\ exit' = 0 => (job.kind = "list" \/ ~ job.yes),
           phase' \in {"look", "again"}
    PROVE  Inv'
<1>1. DataInv'
  <2>1. report' \in Reports
    <3>1. report = NoSteps
      BY DEF Inv, ProgressInv
    <3>2. report' \in {NoSteps, [NoSteps EXCEPT !["change"] = "PLANNED"]}
      BY <3>1
    <3> QED
      BY <3>2 DEF NoSteps, Reports, Stages
  <2>2. pc' \in Calls \cup {"start", "done"}
    OBVIOUS
  <2> QED
    BY <2>1, <2>2 DEF Inv, DataInv
<1>2. ProgressInv'
  BY DEF Inv, ProgressInv
<1>3. CallInv'
  BY DEF Inv, CallInv
<1>4. HomeInv'
  BY DEF HomeInv
<1>5. ExitTellsWork'
  <2>1. ~ sent' /\ ~ did' /\ ~ unsure'
    BY DEF Inv, ProgressInv
  <2>2. pc' = "done" => Troubled' = {}
    BY DEF Troubled, Inv, ProgressInv, NoSteps
  <2> QED
    BY <2>1, <2>2 DEF ExitTellsWork, Calls
<1> QED
  BY <1>1, <1>2, <1>3, <1>4, <1>5 DEF Inv

\* The calls before the listing: login, get_folder, the lookup by path.
LEMMA LookingSteps ==
    ASSUME Inv, Start \/ Login \/ ReadFolder \/ ReadMapping
    PROVE  Inv'
<1> USE DEF Inv, CallInv, Goto, Stop, Calls, ghosts, watch, paths, Answered
<1>1. pc # "done" /\ phase \in {"look", "again"} /\ phase' = phase
  BY DEF Start, Login, ReadFolder, ReadMapping, DataInv
<1>2. UNCHANGED <<nas, job, sent, did, unsure, report>>
  BY DEF Start, Login, ReadFolder, ReadMapping
<1>3. stayed' \in BOOLEAN /\ (stayed' => nas.volume = home')
  <2>1. CASE ReadFolder
    BY <2>1 DEF ReadFolder
  <2>2. CASE Start \/ Login \/ ReadMapping
    <3>1. stayed' = stayed /\ home' = home
      BY <2>2 DEF Start, Login, ReadMapping
    <3> QED
      BY <3>1 DEF DataInv, HomeInv
  <2> QED
    BY <2>1, <2>2
<1>4. \/ pc' \in Calls /\ exit' = exit /\ CallInv'
      \/ pc' = "done" /\ exit' = 40
  <2>1. CASE Start
    BY <2>1, <1>1 DEF Start
  <2>2. CASE Login
    BY <2>2, <1>1 DEF Login
  <2>3. CASE ReadFolder
    BY <2>3, <1>1 DEF ReadFolder
  <2>4. CASE ReadMapping
    BY <2>4, <1>1 DEF ReadMapping
  <2> QED
    BY <2>1, <2>2, <2>3, <2>4
<1> HIDE DEF Inv, CallInv
<1> QED
  BY <1>1, <1>2, <1>3, <1>4, LookingOn

\* A partial result after the change.
LEMMA PartialAfter ==
    ASSUME Inv, pc # "done", phase = "verify",
           UNCHANGED <<nas, job, phase, home, planned>>,
           sent' \in BOOLEAN, sent', did' \in BOOLEAN, unsure' \in BOOLEAN,
           stayed' = stayed,
           NEW status \in {"FAILED", "UNKNOWN"}, Partial("verify", status)
    PROVE  Inv'
<1>1. report = Changed
  BY DEF Inv, ProgressInv
<1>2. report' = [Changed EXCEPT !["verify"] = status] /\ pc' = "done" /\ exit' = 60
  BY <1>1 DEF Partial, Mark, Stop
<1>3. Troubled' = {"verify"}
  BY <1>2 DEF Troubled, Changed
<1>4. DataInv'
  BY <1>2 DEF Inv, DataInv, Changed, Reports, Stages
<1>5. ProgressInv' /\ CallInv' /\ HomeInv'
  BY <1>2 DEF Inv, ProgressInv, CallInv, HomeInv
<1>6. Cardinality(Troubled)' = 1
  BY <1>3, Singletons
<1> QED
  BY <1>2, <1>4, <1>5, <1>6 DEF Inv, ExitTellsWork

\* The end of a verification.
LEMMA SucceedAfter ==
    ASSUME Inv, pc # "done", phase = "verify",
           UNCHANGED <<nas, job, phase, home, planned, sent, did, unsure, stayed>>,
           Mark("verify", "SUCCEEDED"), Stop(0)
    PROVE  Inv'
<1>1. report = Changed /\ ~ unsure /\ (job.kind = "rm" => did) /\ job.yes
      /\ job.kind \in {"add", "rm"}
  BY DEF Inv, ProgressInv, CallInv
<1>2. report' = [Changed EXCEPT !["verify"] = "SUCCEEDED"] /\ pc' = "done" /\ exit' = 0
  BY <1>1 DEF Mark, Stop
<1>3. Troubled' = {}
  BY <1>2 DEF Troubled, Changed
<1>4. DataInv'
  BY <1>2 DEF Inv, DataInv, Changed, Reports, Stages
<1>5. ProgressInv' /\ CallInv' /\ HomeInv'
  BY <1>2 DEF Inv, ProgressInv, CallInv, HomeInv
<1> QED
  BY <1>1, <1>2, <1>3, <1>4, <1>5 DEF Inv, ExitTellsWork

\* A listing that cannot be made sense of ends the command.
LEMMA ListingFailsInv ==
    ASSUME Inv, pc = "page", ListingFails,
           UNCHANGED <<nas, job, home, planned, sent, did, unsure, stayed>>
    PROVE  Inv'
<1>1. CASE phase = "verify"
  <2>1. Partial("verify", "UNKNOWN") /\ UNCHANGED phase /\ sent
        /\ sent' \in BOOLEAN /\ did' \in BOOLEAN /\ unsure' \in BOOLEAN
    BY <1>1 DEF ListingFails, Inv, ProgressInv, DataInv
  <2> QED
    BY <1>1, <2>1, PartialAfter
<1>2. CASE phase # "verify"
  <2>1. pc' = "done" /\ exit' = 40 /\ report' = report /\ phase' = phase
    BY <1>2 DEF ListingFails, Stop
  <2>2. phase' \in {"look", "again"} /\ stayed' \in BOOLEAN
        /\ (stayed' => nas.volume = home')
    BY <1>2, <2>1 DEF Inv, DataInv, HomeInv
  <2> QED
    BY <1>2, <2>1, <2>2, LookingOn
<1> QED
  BY <1>1, <1>2

\* What a look comes to: another one, a plan, a refusal or the next call.
LEMMA LookedInv ==
    ASSUME Inv, pc \in {"page", "inside"}, phase # "verify",
           UNCHANGED <<nas, job, home, planned, sent, did, unsure, stayed>>,
           \/ LookedWell /\ job.kind \in {"add", "rm"}
           \/ Stop(10) /\ UNCHANGED <<phase, report>>
           \/ Stop(0) /\ UNCHANGED <<phase, report>> /\ job.kind = "list"
           \/ Goto("inside") /\ UNCHANGED <<phase, report>> /\ job.kind = "rm"
    PROVE  Inv'
<1>1. phase \in {"look", "again"} /\ stayed' \in BOOLEAN
      /\ (stayed' => nas.volume = home') /\ job.yes \in BOOLEAN
  BY DEF Inv, DataInv, HomeInv, Job
<1>2. phase' \in {"look", "again"}
  BY <1>1 DEF LookedWell
<1>3. \/ pc' \in Calls /\ exit' = exit /\ report' = report /\ CallInv'
      \/ /\ pc' = "done" /\ exit' \in {0, 10, 20, 30, 40, 70} /\ phase' = phase
         /\ report' \in {report, [report EXCEPT !["change"] = "PLANNED"]}
         /\ exit' = 0 => (job.kind = "list" \/ ~ job.yes)
  <2>1. CASE LookedWell /\ job.kind \in {"add", "rm"} /\ job.yes
    BY <2>1 DEF LookedWell, Goto, CallInv, Calls
  <2>2. CASE LookedWell /\ ~ job.yes
    BY <2>2 DEF LookedWell, Mark, Stop
  <2>3. CASE Stop(10) /\ UNCHANGED <<phase, report>>
    BY <2>3 DEF Stop
  <2>4. CASE Stop(0) /\ UNCHANGED <<phase, report>> /\ job.kind = "list"
    BY <2>4 DEF Stop
  <2>5. CASE Goto("inside") /\ UNCHANGED <<phase, report>> /\ job.kind = "rm"
    BY <2>5, <1>1 DEF Goto, Inv, CallInv, Calls
  <2> QED
    BY <1>1, <2>1, <2>2, <2>3, <2>4, <2>5
<1> QED
  BY <1>1, <1>2, <1>3, LookingOn

\* What a verification comes to.
LEMMA VerifiedInv ==
    ASSUME Inv, pc = "page", phase = "verify", NEW target, Verified(target),
           UNCHANGED <<nas, job, home, planned, sent, did, unsure, stayed>>
    PROVE  Inv'
<1>1. sent /\ sent' \in BOOLEAN /\ did' \in BOOLEAN /\ unsure' \in BOOLEAN
      /\ phase' = phase
  BY DEF Inv, ProgressInv, DataInv, Verified
<1>2. CASE job.kind = "add" /\ Goto("info") /\ UNCHANGED report
  <2>1. DataInv' /\ ProgressInv' /\ HomeInv'
    BY <1>1, <1>2 DEF Inv, DataInv, ProgressInv, HomeInv, Goto, Calls
  <2>2. CallInv' /\ ExitTellsWork'
    BY <1>1, <1>2 DEF Inv, CallInv, ExitTellsWork, Goto
  <2> QED
    BY <2>1, <2>2 DEF Inv
<1>3. CASE Mark("verify", "SUCCEEDED") /\ Stop(0)
  BY <1>1, <1>3, SucceedAfter
<1>4. CASE Partial("verify", "FAILED")
  BY <1>1, <1>4, PartialAfter
<1> QED
  BY <1>2, <1>3, <1>4 DEF Verified

\* A page of the listing.
LEMMA ReadPageInv ==
    ASSUME Inv, ReadPage
    PROVE  Inv'
<1>1. pc = "page" /\ UNCHANGED <<nas, job, home, planned, sent, did, unsure, stayed>>
  BY DEF ReadPage, paths
<1>2. CASE ListingFails
  BY <1>1, <1>2, ListingFailsInv
<1>3. CASE UNCHANGED <<phase, pc, exit, report>>
  BY <1>1, <1>3 DEF Inv, DataInv, ProgressInv, CallInv, HomeInv, ExitTellsWork
<1>4. CASE Looking /\ Looked(seen'[job.name])
  <2>1. job.kind \in {"add", "rm", "list"}
    BY DEF Inv, DataInv, Job
  <2>2. \/ LookedWell /\ job.kind \in {"add", "rm"}
        \/ Stop(10) /\ UNCHANGED <<phase, report>>
        \/ Stop(0) /\ UNCHANGED <<phase, report>> /\ job.kind = "list"
        \/ Goto("inside") /\ UNCHANGED <<phase, report>> /\ job.kind = "rm"
    BY <1>4, <2>1 DEF Looked
  <2> QED
    BY <1>1, <1>4, <2>2, LookedInv DEF Looking
<1>5. CASE ~ Looking /\ Verified(seen'[job.name])
  <2>1. phase = "verify"
    BY <1>5 DEF Looking, Inv, DataInv
  <2> QED
    BY <1>1, <1>5, <2>1, VerifiedInv
<1> QED
  BY <1>2, <1>3, <1>4, <1>5 DEF ReadPage

\* The look inside, and the comparison of the two looks.
LEMMA ReadInsideInv ==
    ASSUME Inv, ReadInside
    PROVE  Inv'
<1>1. /\ pc = "inside" /\ phase \in {"look", "again"} /\ job.kind = "rm"
      /\ UNCHANGED <<nas, job, home, planned, sent, did, unsure, stayed>>
  BY DEF ReadInside, paths, ghosts, watch, Inv, CallInv, DataInv
<1>2. CASE \/ LookedWell
           \/ Stop(10) /\ UNCHANGED <<phase, report>>
  BY <1>1, <1>2, LookedInv
<1>3. CASE home # planned /\ Partial("change", "UNKNOWN") /\ UNCHANGED phase
  <2>1. report = NoSteps
    BY <1>1 DEF Inv, ProgressInv
  <2>2. /\ report' = [NoSteps EXCEPT !["change"] = "UNKNOWN"]
        /\ pc' = "done" /\ exit' = 60
    BY <1>3, <2>1 DEF Partial, Mark, Stop
  <2>3. Troubled' = {"change"}
    BY <2>2 DEF Troubled, NoSteps
  <2>4. Cardinality(Troubled)' = 1
    BY <2>3, Singletons
  <2>5. DataInv'
    BY <1>1, <1>3, <2>2 DEF Inv, DataInv, NoSteps, Reports, Stages
  <2>6. ProgressInv' /\ CallInv' /\ HomeInv'
    BY <1>1, <1>3, <2>2 DEF Inv, ProgressInv, CallInv, HomeInv
  <2> QED
    BY <1>1, <1>3, <2>2, <2>4, <2>5, <2>6 DEF Inv, ExitTellsWork
<1>4. CASE /\ phase # "look" /\ home = planned
           /\ Goto("delete") /\ UNCHANGED <<phase, report>>
  <2>1. DataInv' /\ ProgressInv' /\ HomeInv'
    BY <1>1, <1>4 DEF Inv, DataInv, ProgressInv, HomeInv, Goto, Calls
  <2>2. CallInv' /\ ExitTellsWork'
    BY <1>1, <1>4 DEF Inv, CallInv, ExitTellsWork, Goto
  <2> QED
    BY <2>1, <2>2 DEF Inv
<1> QED
  BY <1>2, <1>3, <1>4 DEF ReadInside, StaleTarget

----------------------------------------------------------------------------
(* The change and what goes wrong.                                         *)

\* The change puts a directory where nothing was, or takes an empty one
\* away, and leaves the share where it is.
LEMMA DoneIs ==
    ASSUME Inv, pc \in Mutations
    PROVE  /\ Done \in Nas /\ Done.volume = nas.volume
           /\ Done = [nas EXCEPT !.kids[job.name] = Done.kids[job.name]]
           /\ pc = "delete" => Done.kids[job.name] = "missing"
           /\ pc = "create" /\ nas.kids[job.name] = "missing" =>
                 Done.kids[job.name] = "empty"
           /\ pc = "create" /\ Done # nas =>
                 nas.kids[job.name] = "missing" /\ Done.kids[job.name] = "empty"
<1> DEFINE kid == nas.kids[job.name]
           new == IF pc = "delete" THEN "missing"
                  ELSE IF kid = "missing" THEN "empty" ELSE kid
<1>1. nas \in Nas /\ job.name \in Names
  BY DEF Inv, DataInv, Job
<1>2. Done = [nas EXCEPT !.kids = [nas.kids EXCEPT ![job.name] = new]]
  BY <1>1 DEF Done, Nas
<1>3. kid \in {"missing", "file"} \cup Directories /\ new \in {"missing", "file"} \cup Directories
  BY <1>1 DEF Nas, Kids, Directories
<1>4. [nas.kids EXCEPT ![job.name] = new] \in Kids
  BY <1>1, <1>3 DEF Nas, Kids
<1>5. Done \in Nas /\ Done.volume = nas.volume
      /\ Done.kids = [nas.kids EXCEPT ![job.name] = new]
  <2> HIDE DEF new
  <2> QED
    BY <1>1, <1>2, <1>4 DEF Nas
<1>6. Done.kids[job.name] = new
  BY <1>1, <1>5 DEF Nas, Kids
<1>7. Done = [nas EXCEPT !.kids[job.name] = Done.kids[job.name]]
  BY <1>1, <1>2, <1>6 DEF Nas
<1>8. new = kid => Done = nas
  <2>1. new = kid => [nas.kids EXCEPT ![job.name] = new] = nas.kids
    BY <1>1 DEF Nas, Kids
  <2> QED
    BY <1>1, <1>2, <2>1 DEF Nas
<1> QED
  BY <1>5, <1>6, <1>7, <1>8 DEF Mutations

\* A failed call changes the share as the call would, or not at all; only a
\* failed change can have changed it, and only if its answer is lost.
LEMMA TroubleIs ==
    ASSUME Inv, pc # "done", NEW how \in Hows, Trouble(how)
    PROVE  /\ nas' \in Nas /\ nas'.volume = nas.volume
           /\ UNCHANGED <<job, phase, home, planned, stayed>>
           /\ sent' \in BOOLEAN /\ did' \in BOOLEAN /\ unsure' \in BOOLEAN
           /\ pc \notin Mutations =>
                 nas' = nas /\ sent' = sent /\ did' = did /\ unsure' = unsure
           /\ pc \in Mutations =>
                 sent' /\ (did' => unsure' /\ Lands(how))
           /\ nas' = nas \/ (pc \in Mutations /\ nas' = Done)
<1>1. /\ nas \in Nas /\ nas'.volume = nas'.volume
      /\ sent \in BOOLEAN /\ did \in BOOLEAN /\ unsure = FALSE /\ unsure \in BOOLEAN
  BY DEF Inv, DataInv, ProgressInv
<1>2. UNCHANGED <<job, phase, home, planned, stayed>>
  BY DEF Trouble, paths, watch
<1>3. sent' = (sent \/ pc \in Mutations) /\ did' = (did \/ nas' # nas)
  BY DEF Trouble
<1>4. \/ nas' = nas /\ unsure' = unsure
      \/ /\ nas' \in IF Lands(how) THEN Possible ELSE {nas}
         /\ unsure' = (pc \in Mutations /\ Lands(how))
  BY DEF Trouble
<1>5. nas' = nas \/ (pc \in Mutations /\ Lands(how) /\ unsure' /\ nas' = Done)
  BY <1>4 DEF Possible
<1>6. pc \notin Mutations => nas' = nas /\ unsure' = unsure
  BY <1>1, <1>4, <1>5
<1>7. pc \in Mutations => ~ did
  BY DEF Mutations, Inv, ProgressInv, CallInv
<1>8. unsure' \in BOOLEAN
  BY <1>1, <1>4
<1>9. nas' \in Nas /\ nas'.volume = nas.volume
  BY <1>1, <1>5, DoneIs
<1> QED
  BY <1>1, <1>2, <1>3, <1>5, <1>6, <1>7, <1>8, <1>9

\* The change itself.
LEMMA ChangeInv ==
    ASSUME Inv, Change
    PROVE  Inv'
<1>1. /\ pc \in Mutations /\ ~ Refused /\ nas' = Done /\ sent' = TRUE
      /\ did' = (nas' # nas) /\ phase' = "verify" /\ pc' = "page" /\ exit' = exit
      /\ UNCHANGED <<job, home, planned, unsure, stayed>>
      /\ report' = [report EXCEPT !["change"] = "SUCCEEDED"]
  BY DEF Change, Goto, Mark, paths, watch
<1>2. phase = "again" /\ job.yes /\ job.kind = (IF pc = "delete" THEN "rm" ELSE "add")
  BY <1>1 DEF Mutations, Inv, CallInv
<1>3. report' = Changed
  <2>1. report = NoSteps
    BY <1>1, <1>2 DEF Mutations, Inv, ProgressInv
  <2> QED
    BY <1>1, <2>1 DEF Changed, NoSteps
<1>4. nas' \in Nas /\ nas'.volume = nas.volume
  BY <1>1, DoneIs
<1>5. job.kind = "rm" => did'
  <2>1. pc = "delete" => nas.kids[job.name] = "empty"
    BY <1>1 DEF Refused
  <2>2. pc = "delete" => nas'.kids[job.name] = "missing"
    BY <1>1, DoneIs
  <2> QED
    BY <1>1, <1>2, <2>1, <2>2
<1>6. DataInv'
  BY <1>1, <1>3, <1>4 DEF Inv, DataInv, Calls, Changed, Reports, Stages
<1>7. ProgressInv'
  BY <1>1, <1>3, <1>5 DEF Mutations, Inv, ProgressInv
<1>8. CallInv' /\ HomeInv' /\ ExitTellsWork'
  BY <1>1, <1>2, <1>4 DEF Inv, CallInv, HomeInv, ExitTellsWork
<1> QED
  BY <1>6, <1>7, <1>8 DEF Inv

\* The read-back of a directory that was made.
LEMMA ReadInfoInv ==
    ASSUME Inv, ReadInfo
    PROVE  Inv'
<1>1. /\ pc = "info" /\ phase = "verify" /\ sent \in BOOLEAN /\ sent
      /\ did \in BOOLEAN /\ unsure \in BOOLEAN
      /\ UNCHANGED <<nas, job, phase, home, planned, sent, did, unsure, stayed>>
  BY DEF ReadInfo, paths, ghosts, watch, Inv, CallInv, ProgressInv, DataInv
<1>2. CASE Mark("verify", "SUCCEEDED") /\ Stop(0)
  BY <1>1, <1>2, SucceedAfter
<1>3. CASE Partial("verify", "FAILED")
  BY <1>1, <1>3, PartialAfter
<1> QED
  BY <1>2, <1>3 DEF ReadInfo

\* A failed call before the change: nothing was done, and a code other than
\* 0 and 60 says so.
LEMMA FailBefore ==
    ASSUME Inv, NEW how \in Hows, FailLogin(how) \/ FailLook(how)
    PROVE  Inv'
<1>1. /\ pc # "done" /\ pc \notin Mutations /\ phase # "verify" /\ Trouble(how)
      /\ pc' = "done" /\ exit' \in {10, 20, 30, 40, 70} /\ report' = report
  BY DEF FailLogin, FailLook, Looking, Inv, CallInv, Stop, Mapped, Mutations,
         Hows
<1>2. /\ UNCHANGED <<nas, job, sent, did, unsure, phase, home, stayed>>
  BY <1>1, TroubleIs
<1>3. stayed' \in BOOLEAN /\ (stayed' => nas.volume = home')
      /\ phase' \in {"look", "again"}
  BY <1>1, <1>2 DEF Inv, DataInv, HomeInv
<1> QED
  BY <1>1, <1>2, <1>3, LookingOn

\* A failed change: without an answer it may have been made, and then the
\* code is 30 or a step is reported as unknown.
LEMMA FailChange ==
    ASSUME Inv, NEW how \in Hows, FailCreate(how) \/ FailDelete(how)
    PROVE  Inv'
<1>1. pc \in Mutations /\ pc # "done" /\ Trouble(how)
  BY DEF FailCreate, FailDelete, Mutations
<1>2. /\ nas' \in Nas /\ nas'.volume = nas.volume
      /\ UNCHANGED <<job, phase, home, planned, stayed>>
      /\ did' \in BOOLEAN /\ unsure' \in BOOLEAN
      /\ sent' = TRUE /\ (did' => unsure' /\ Lands(how))
  BY <1>1, TroubleIs
<1>3. report = NoSteps /\ phase = "again"
  BY <1>1 DEF Mutations, Inv, CallInv, ProgressInv
<1>4. pc' = "done" /\ report' \in {NoSteps, [NoSteps EXCEPT !["change"] = "UNKNOWN"]}
  BY <1>3 DEF FailCreate, FailDelete, Stop, Partial, Mark
<1>5. DataInv'
  BY <1>2, <1>4 DEF Inv, DataInv, NoSteps, Reports, Stages
<1>6. ProgressInv' /\ CallInv' /\ HomeInv'
  BY <1>2, <1>3, <1>4 DEF Inv, ProgressInv, CallInv, HomeInv
<1>7. ExitTellsWork'
  <2>1. CASE exit' = Mapped(how) /\ how \in {"login", "connection", "api", "refused"}
    <3>1. CASE how = "connection"
      BY <1>2, <2>1, <3>1 DEF Mapped, ExitTellsWork
    <3>2. CASE how \in {"login", "api", "refused"}
      BY <1>2, <2>1, <3>2 DEF Mapped, Lands, ExitTellsWork
    <3> QED
      BY <2>1, <3>1, <3>2
  <2>2. CASE Partial("change", "UNKNOWN")
    <3>1. report' = [NoSteps EXCEPT !["change"] = "UNKNOWN"] /\ exit' = 60
      BY <1>3, <2>2 DEF Partial, Mark, Stop
    <3>2. Troubled' = {"change"}
      BY <3>1 DEF Troubled, NoSteps
    <3>3. Cardinality(Troubled)' = 1
      BY <3>2, Singletons
    <3> QED
      BY <1>2, <3>1, <3>3 DEF ExitTellsWork
  <2> QED
    BY <2>1, <2>2 DEF FailCreate, FailDelete, Stop
<1> QED
  BY <1>5, <1>6, <1>7 DEF Inv

\* A failed verification: it is reported, but for the read-back of add-dir
\* that fails with an error other than the program's own.
LEMMA FailVerify ==
    ASSUME Inv, NEW how \in Hows, FailRelist(how) \/ FailInfo(how)
    PROVE  Inv'
<1>1. pc \in {"page", "info"} /\ phase = "verify" /\ Trouble(how)
  BY DEF FailRelist, FailInfo, Inv, CallInv
<1>2. /\ UNCHANGED <<nas, job, phase, home, planned, stayed, sent, did, unsure>>
      /\ sent' \in BOOLEAN /\ did' \in BOOLEAN /\ unsure' \in BOOLEAN
  BY <1>1, TroubleIs DEF Mutations
<1>3. sent /\ ~ unsure
  BY <1>1 DEF Inv, ProgressInv
<1>4. CASE \E status \in {"FAILED", "UNKNOWN"} : Partial("verify", status)
  BY <1>1, <1>2, <1>3, <1>4, PartialAfter
<1>5. CASE pc = "info" /\ Stop(70) /\ report' = NoSteps
  <2>1. DataInv' /\ ProgressInv' /\ CallInv' /\ HomeInv'
    BY <1>2, <1>5 DEF Stop, Inv, DataInv, ProgressInv, CallInv, HomeInv,
                      NoSteps, Reports, Stages
  <2>2. ExitTellsWork'
    BY <1>2, <1>3, <1>5 DEF Stop, Inv, CallInv, ExitTellsWork
  <2> QED
    BY <2>1, <2>2 DEF Inv
<1> QED
  BY <1>4, <1>5 DEF FailRelist, FailInfo

\* A killed command has no exit code.
LEMMA KillInv ==
    ASSUME Inv, Kill
    PROVE  Inv'
<1>1. /\ pc # "done" /\ pc' = "done" /\ exit' = Killed
      /\ nas' = nas \/ (pc \in Mutations /\ nas' = Done)
      /\ UNCHANGED <<job, phase, home, planned, report, unsure, stayed>>
      /\ sent' = (sent \/ pc \in Mutations) /\ did' = (did \/ nas' # nas)
  BY DEF Kill, Calls, Stop, Possible, paths, watch
<1>2. nas' \in Nas /\ nas'.volume = nas.volume
  BY <1>1, DoneIs DEF Inv, DataInv
<1>3. DataInv' /\ ProgressInv' /\ CallInv' /\ HomeInv'
  BY <1>1, <1>2 DEF Inv, DataInv, ProgressInv, CallInv, HomeInv
<1>4. ExitTellsWork'
  BY <1>1 DEF ExitTellsWork, Killed
<1> QED
  BY <1>3, <1>4 DEF Inv

\* Others move the share, and then get_folder's answer no longer holds.
LEMMA EditInv ==
    ASSUME Inv, Edit
    PROVE  Inv'
<1>1. /\ pc # "done" /\ nas' \in Edited
      /\ stayed' = (stayed /\ nas'.live /\ nas'.volume = nas.volume)
      /\ UNCHANGED <<job, phase, pc, home, planned, report, exit, sent, did, unsure>>
  BY DEF Edit, paths
<1>2. nas \in Nas
  BY DEF Inv, DataInv
<1>3. nas' \in Nas
  <2>1. NoKids \in Kids
    BY DEF NoKids, Kids
  <2>2. \A m, n \in Names : Renamed(m, n) \in Kids
    BY <1>2 DEF Renamed, Kids, Nas
  <2>3. \A n \in Names, k \in {"missing", "file"} \cup Directories :
          [nas EXCEPT !.kids[n] = k] \in Nas
    <3> TAKE n \in Names, k \in {"missing", "file"} \cup Directories
    <3>1. [nas.kids EXCEPT ![n] = k] \in Kids
      BY <1>2 DEF Kids, Nas
    <3>2. [nas EXCEPT !.kids[n] = k] = [nas EXCEPT !.kids = [nas.kids EXCEPT ![n] = k]]
      BY <1>2 DEF Nas
    <3> QED
      BY <1>2, <3>1, <3>2 DEF Nas
  <2>4. \A k \in Kids : [nas EXCEPT !.kids = k] \in Nas
    BY <1>2 DEF Nas
  <2>5. \A v \in Volumes : [nas EXCEPT !.volume = v] \in Nas
    BY <1>2 DEF Nas
  <2>6. [nas EXCEPT !.live = ~ nas.live, !.kids = NoKids] \in Nas
    BY <1>2, <2>1 DEF Nas
  <2>7. Children \subseteq Names
    BY DEF Children
  <2> QED
    BY <1>1, <2>2, <2>3, <2>4, <2>5, <2>6, <2>7 DEF Edited
<1>4. DataInv' /\ ProgressInv' /\ CallInv' /\ HomeInv' /\ ExitTellsWork'
  BY <1>1, <1>3 DEF Inv, DataInv, ProgressInv, CallInv, HomeInv, ExitTellsWork
<1> QED
  BY <1>4 DEF Inv

\* Every step keeps the invariant.
LEMMA StepInv ==
    ASSUME Inv, [Next]_vars
    PROVE  Inv'
<1>1. CASE Start \/ Login \/ ReadFolder \/ ReadMapping
  BY <1>1, LookingSteps
<1>2. CASE ReadPage
  BY <1>2, ReadPageInv
<1>3. CASE ReadInside
  BY <1>3, ReadInsideInv
<1>4. CASE Change
  BY <1>4, ChangeInv
<1>5. CASE ReadInfo
  BY <1>5, ReadInfoInv
<1>6. CASE Fail
  BY <1>6, FailBefore, FailChange, FailVerify DEF Fail
<1>7. CASE Kill
  BY <1>7, KillInv
<1>8. CASE Edit
  BY <1>8, EditInv
<1>9. CASE UNCHANGED vars
  BY <1>9 DEF vars, paths, ghosts, watch, Inv, DataInv, ProgressInv, CallInv,
              HomeInv, ExitTellsWork, Troubled
<1> QED
  BY <1>1, <1>2, <1>3, <1>4, <1>5, <1>6, <1>7, <1>8, <1>9 DEF Next, Command

\* Edits are counted one by one.
LEMMA EditsCount ==
    ASSUME edits \in Nat, [Next]_vars
    PROVE  edits' \in Nat
<1>1. CASE Edit
  BY <1>1 DEF Edit
<1>2. CASE Fail
  <2>1. PICK how \in Hows : Trouble(how)
    BY <1>2 DEF Fail, FailLogin, FailLook, FailCreate, FailDelete, FailRelist, FailInfo
  <2> QED
    BY <2>1 DEF Trouble
<1>3. CASE [Start \/ Login \/ ReadFolder \/ ReadMapping \/ ReadPage \/ ReadInside
            \/ Change \/ ReadInfo \/ Kill]_vars
  BY <1>3 DEF Start, Login, ReadFolder, ReadMapping, ReadPage, ReadInside, Change,
              ReadInfo, Kill, Answered, vars
<1> QED
  BY <1>1, <1>2, <1>3 DEF Next, Command

\* The share changes at a step of the program only when the change is sent.
LEMMA StepShown ==
    ASSUME Inv, edits \in Nat, [Next]_vars, edits' = edits, nas' # nas
    PROVE  /\ job.yes
           /\ nas' = [nas EXCEPT !.kids[job.name] = nas'.kids[job.name]]
           /\ \/ /\ job.kind = "add"
                 /\ nas.kids[job.name] = "missing" /\ nas'.kids[job.name] = "empty"
              \/ /\ job.kind = "rm"
                 /\ nas.kids[job.name] = "empty" /\ nas'.kids[job.name] = "missing"
                 /\ stayed => nas.volume = planned
<1>1. pc \in Mutations /\ nas' = Done /\ ~ Refused
  <2>1. CASE Start \/ Login \/ ReadFolder \/ ReadMapping \/ ReadPage \/ ReadInside
             \/ ReadInfo
    BY <2>1 DEF Start, Login, ReadFolder, ReadMapping, ReadPage, ReadInside, ReadInfo
  <2>2. CASE Change
    BY <2>2 DEF Change
  <2>3. CASE Fail
    <3>1. PICK how \in Hows : Trouble(how)
      BY <2>3 DEF Fail, FailLogin, FailLook, FailCreate, FailDelete, FailRelist,
                  FailInfo
    <3> QED
      BY <3>1 DEF Trouble, Possible
  <2>4. CASE Kill
    BY <2>4 DEF Kill, Possible
  <2>5. CASE Edit
    <3>1. edits' = edits + 1
      BY <2>5 DEF Edit
    <3> QED
      BY <3>1
  <2> QED
    BY <2>1, <2>2, <2>3, <2>4, <2>5 DEF Next, Command, vars
<1>2. job.yes /\ job.kind = (IF pc = "delete" THEN "rm" ELSE "add")
      /\ (pc = "delete" => home = planned)
  BY <1>1 DEF Mutations, Inv, CallInv
<1>3. pc = "delete" => nas.kids[job.name] = "empty"
  BY <1>1 DEF Refused
<1> QED
  BY <1>1, <1>2, <1>3, DoneIs DEF Mutations, Inv, HomeInv

\* add-dir, rm-dir and list-dirs: in every run, whatever others do to the
\* share and whatever fails, the exit code tells of the change.
THEOREM DirExitTellsWork == Spec => []ExitTellsWork
<1>1. Init => Inv
  BY InitInv
<1>2. Inv /\ [Next]_vars => Inv'
  BY StepInv
<1>3. Inv => ExitTellsWork
  BY DEF Inv
<1> QED
  BY <1>1, <1>2, <1>3, PTL DEF Spec

\* In every run a step of the program makes only the directory add-dir was
\* given, or removes only the empty one rm-dir was given, only with --yes,
\* and removes it on the volume the plan named unless the share is moving.
THEOREM DirRemovesWhatItShowed == Spec => RemovesWhatItShowed
<1>1. Init => Inv /\ edits \in Nat
  BY InitInv DEF Init
<1>2. Inv /\ edits \in Nat /\ [Next]_vars => (Inv /\ edits \in Nat)'
  BY StepInv, EditsCount
<1>3. Inv /\ edits \in Nat /\ [Next]_vars =>
        [edits' = edits /\ nas' # nas =>
            /\ job.yes
            /\ nas' = [nas EXCEPT !.kids[job.name] = nas'.kids[job.name]]
            /\ \/ /\ job.kind = "add"
                  /\ nas.kids[job.name] = "missing" /\ nas'.kids[job.name] = "empty"
               \/ /\ job.kind = "rm"
                  /\ nas.kids[job.name] = "empty" /\ nas'.kids[job.name] = "missing"
                  /\ stayed => nas.volume = planned]_vars
  BY StepShown
<1> QED
  BY <1>1, <1>2, <1>3, PTL DEF Spec, RemovesWhatItShowed

----------------------------------------------------------------------------
(* Listings.                                                               *)

\* The variables DataInv says nothing of.
RangeInv ==
    /\ job \in Jobs /\ home \in Volumes /\ planned \in Volumes
    /\ offset \in 0..Cardinality(Names)
    /\ total \in {Unknown} \cup 0..Cardinality(Names)
    /\ seen \in [Names -> {"missing", "file", "dir"}] /\ twice \subseteq Names
    /\ exit \in {0, 10, 20, 30, 40, 60, 70, Running, Killed}
    /\ quiet \in BOOLEAN /\ stayed \in BOOLEAN /\ calm \in BOOLEAN /\ steady \in BOOLEAN
    /\ edits \in 0..MaxEdits /\ faults \in 0..MaxFaults

\* What is listed is what the pages so far have, each child once.
Listed == {n \in Names : seen[n] # "missing"}
Covered == Listed = Before(Rank, Children, offset) /\ twice = {}
Faithful == \A n \in Listed : seen[n] = Seen(nas.kids[n])

\* A listing goes on as long as the total says, and misses nothing unless
\* children come or go.
ListInv ==
    pc = "page" =>
        /\ offset = 0 => total = Unknown /\ seen = NothingSeen /\ twice = {}
        /\ offset > 0 =>
              /\ offset < total
              /\ steady \/ quiet => Covered /\ total = Cardinality(Children)
              /\ quiet => Faithful

LEMMA ChildrenFinite ==
    /\ IsFiniteSet(Names) /\ Cardinality(Names) \in Nat
    /\ Children \in SUBSET Names /\ IsFiniteSet(Children)
    /\ Cardinality(Children) \in 0..Cardinality(Names)
<1>1. IsFiniteSet(Names) /\ Children \in SUBSET Names
  BY RankAssumption DEF Children
<1>2. IsFiniteSet(Children) /\ Cardinality(Children) <= Cardinality(Names)
  BY <1>1, FS_Subset
<1>3. Cardinality(Names) \in Nat /\ Cardinality(Children) \in Nat
  BY <1>1, <1>2, FS_CardinalityType
<1> QED
  BY <1>1, <1>2, <1>3

\* A page that comes with the total of the first.
LEMMA PageRead ==
    ASSUME Inv, RangeInv, ListInv, ReadPage,
           total \in {Unknown, Cardinality(Children)}
    PROVE  /\ offset' \in 0..Cardinality(Children)
           /\ total' = Cardinality(Children)
           /\ offset' < Cardinality(Children) => 0 < offset'
           /\ seen' \in [Names -> {"missing", "file", "dir"}] /\ twice' \subseteq Names
           /\ steady \/ quiet' => Covered'
           /\ quiet' => Faithful'
<1> DEFINE page == Page(Rank, Children, offset)
           count == Cardinality(Children)
<1>1. /\ pc = "page" /\ nas' = nas /\ Children' = Children
      /\ offset' = offset + Cardinality(page) /\ total' = count
      /\ seen' = [n \in Names |-> IF n \in page THEN Seen(nas.kids[n]) ELSE seen[n]]
      /\ twice' = twice \cup {n \in page : seen[n] # "missing"}
      /\ quiet' = (quiet \/ offset = 0)
  BY DEF ReadPage, Onward, Children
<1>2. /\ offset \in Nat /\ count \in Nat /\ seen \in [Names -> {"missing", "file", "dir"}]
      /\ twice \subseteq Names /\ nas \in Nas
  BY ChildrenFinite DEF RangeInv, Inv, DataInv
<1>3. offset <= count
  BY <1>1, <1>2 DEF ListInv, Unknown
<1>4. /\ offset' \in Nat /\ offset' <= count /\ (offset < count => offset < offset')
      /\ Before(Rank, Children, offset') = Before(Rank, Children, offset) \cup page
      /\ Before(Rank, Children, offset) \cap page = {}
  BY <1>1, <1>2, <1>3, ChildrenFinite, RankAssumption, PageExtends
<1>5. page \subseteq Children /\ Children \subseteq Names
  BY DEF Page, Children
<1>6. /\ \A n \in Names : Seen(nas.kids[n]) \in {"missing", "file", "dir"}
      /\ \A n \in Children : Seen(nas.kids[n]) # "missing"
  BY <1>2 DEF Seen, Nas, Kids, Directories, Children
<1>7. seen' \in [Names -> {"missing", "file", "dir"}] /\ twice' \subseteq Names
  BY <1>1, <1>2, <1>5, <1>6
<1>8. Listed' = Listed \cup page
  BY <1>1, <1>5, <1>6 DEF Listed
<1>9. offset = 0 \/ steady \/ quiet => Covered
  <2>1. Before(Rank, Children, 0) = {}
    BY ChildrenFinite, RankAssumption, BeforeEnds
  <2>2. seen = NothingSeen => Listed = {}
    BY DEF Listed, NothingSeen
  <2> QED
    BY <1>1, <1>2, <2>1, <2>2 DEF ListInv, Covered
<1>10. Covered => Covered'
  <2> SUFFICES ASSUME Covered PROVE Covered'
    OBVIOUS
  <2>1. Listed' = Before(Rank, Children, offset')
    BY <1>4, <1>8 DEF Covered
  <2>2. \A n \in page : seen[n] = "missing"
    BY <1>4, <1>5 DEF Covered, Listed
  <2> QED
    BY <1>1, <2>1, <2>2 DEF Covered
<1>11. offset = 0 \/ quiet => Faithful
  BY <1>1, <1>2 DEF ListInv, Faithful, Listed, NothingSeen
<1>12. Faithful => Faithful'
  BY <1>1, <1>5 DEF Faithful, Listed
<1>13. offset' \in 0..count /\ (offset' < count => 0 < offset')
  <2>1. IsFiniteSet(page)
    BY <1>5, ChildrenFinite, FS_Subset
  <2>2. Cardinality(page) \in Nat
    BY <2>1, FS_CardinalityType
  <2> HIDE DEF page, count
  <2> QED
    BY <1>1, <1>2, <1>3, <1>4, <2>2
<1>14. quiet' => quiet \/ offset = 0
  BY <1>1
<1> HIDE DEF page, count
<1> QED
  BY <1>1, <1>7, <1>9, <1>10, <1>11, <1>12, <1>13, <1>14 DEF count

\* A listing that has come to its end.
LEMMA ListingDone ==
    ASSUME Inv, RangeInv, ListInv, ReadPage,
           total \in {Unknown, Cardinality(Children)},
           ~ offset' < Cardinality(Children)
    PROVE  /\ steady \/ quiet' => twice' = {} /\ Listed' = Children
           /\ quiet' => \A n \in Names : seen'[n] = Seen(nas.kids[n])
<1>1. offset' = Cardinality(Children)
  BY PageRead, ChildrenFinite
<1>2. nas' = nas /\ Children' = Children
  BY DEF ReadPage, Children
<1>3. Before(Rank, Children, offset') = Children
  BY <1>1, ChildrenFinite, RankAssumption, BeforeEnds
<1>4. steady \/ quiet' => twice' = {} /\ Listed' = Children
  BY <1>2, <1>3, PageRead DEF Covered
<1>5. ASSUME quiet', NEW n \in Names PROVE seen'[n] = Seen(nas.kids[n])
  <2>1. CASE n \in Children
    BY <1>2, <1>4, <1>5, <2>1, PageRead DEF Faithful
  <2>2. CASE n \notin Children
    <3>1. nas.kids[n] = "missing" /\ Seen(nas.kids[n]) = "missing"
      BY <2>2 DEF Children, Seen, Directories
    <3>2. n \notin Listed'
      BY <1>4, <1>5, <2>2
    <3> QED
      BY <3>1, <3>2 DEF Listed
  <2> QED
    BY <2>1, <2>2
<1> QED
  BY <1>4, <1>5

LEMMA WatchType ==
    watch \in [1..4 -> BOOLEAN] <=>
        quiet \in BOOLEAN /\ stayed \in BOOLEAN /\ calm \in BOOLEAN /\ steady \in BOOLEAN
<1>1. 1..4 = {1, 2, 3, 4}
  OBVIOUS
<1>2. /\ DOMAIN watch = 1..4 /\ watch = [i \in 1..4 |-> watch[i]]
      /\ watch[1] = quiet /\ watch[2] = stayed /\ watch[3] = calm /\ watch[4] = steady
  BY DEF watch
<1>3. ASSUME watch \in [1..4 -> BOOLEAN]
      PROVE  quiet \in BOOLEAN /\ stayed \in BOOLEAN /\ calm \in BOOLEAN /\ steady \in BOOLEAN
  <2>1. \A i \in 1..4 : watch[i] \in BOOLEAN
    BY <1>3
  <2> QED
    BY <1>1, <1>2, <2>1
<1>4. ASSUME quiet \in BOOLEAN, stayed \in BOOLEAN, calm \in BOOLEAN, steady \in BOOLEAN
      PROVE  watch \in [1..4 -> BOOLEAN]
  <2>1. \A i \in 1..4 : watch[i] \in BOOLEAN
    BY <1>1, <1>2, <1>4
  <2> QED
    BY <1>2, <2>1
<1> QED
  BY <1>3, <1>4

\* How a listing may end a command.
LEMMA ReadPageExit ==
    ASSUME Inv, ReadPage
    PROVE  exit' \in {exit, 0, 10, 40, 60}
<1> USE DEF Goto, Stop, Partial
<1>1. job.kind \in {"add", "rm", "list"} /\ job.yes \in BOOLEAN
  BY DEF Inv, DataInv, Job
<1>2. PICK n : \/ UNCHANGED exit \/ ListingFails
               \/ Looked(seen'[n]) \/ Verified(seen'[n])
  BY DEF ReadPage
<1>3. CASE ListingFails
  BY <1>3 DEF ListingFails
<1>4. CASE Looked(seen'[n])
  BY <1>1, <1>4 DEF Looked, LookedWell
<1>5. CASE Verified(seen'[n])
  BY <1>1, <1>5 DEF Verified
<1> QED
  BY <1>2, <1>3, <1>4, <1>5

LEMMA RangeStep ==
    ASSUME Inv, RangeInv, ListInv, [Next]_vars
    PROVE  RangeInv'
<1> USE DEF RangeInv, paths, listing, ghosts, watch, Goto, Stop, Answered, Partial
<1>0. /\ nas \in Nas /\ nas.volume \in Volumes
      /\ NothingSeen \in [Names -> {"missing", "file", "dir"}]
      /\ Cardinality(Names) \in Nat
  BY ChildrenFinite DEF Inv, DataInv, ProgressInv, Nas, NothingSeen
<1>1. CASE Start \/ Login
  <2>1. UNCHANGED <<job, paths, listing, quiet, stayed, edits, faults>>
        /\ UNCHANGED exit
    BY <1>1 DEF Start, Login
  <2>2. calm' \in {calm, TRUE} /\ steady' \in {steady, TRUE}
    BY <1>1 DEF Start, Login
  <2> QED
    BY <1>0, <2>1, <2>2
<1>10. CASE ReadFolder
  <2>1. home' = nas.volume /\ planned' \in {nas.volume, planned} /\ stayed' = TRUE
    BY <1>10 DEF ReadFolder
  <2>2. UNCHANGED <<job, listing, exit, quiet, calm, steady, edits, faults>>
    BY <1>10 DEF ReadFolder
  <2> QED
    BY <1>0, <2>1, <2>2
<1>11. CASE ReadMapping
  <2>1. offset' = 0 /\ total' = Unknown /\ seen' = NothingSeen /\ twice' = {}
    BY <1>11 DEF ReadMapping, NewListing
  <2>2. UNCHANGED <<job, paths, watch, edits, faults>> /\ exit' \in {exit, 40}
    BY <1>11 DEF ReadMapping
  <2>3. offset' \in 0..Cardinality(Names) /\ total' \in {Unknown}
        /\ seen' \in [Names -> {"missing", "file", "dir"}] /\ twice' \subseteq Names
    BY <1>0, <2>1
  <2> QED
    BY <2>2, <2>3
<1>2. CASE ReadPage
  <2>1. UNCHANGED <<nas, job, paths, stayed, calm, steady, edits, faults>>
        /\ quiet' \in BOOLEAN
    BY <1>2 DEF ReadPage
  <2>2. exit' \in {exit, 0, 10, 40, 60}
    BY <1>2, ReadPageExit
  <2>3. CASE total \in {Unknown, Cardinality(Children)}
    <3>1. /\ offset' \in 0..Cardinality(Children) /\ total' = Cardinality(Children)
          /\ seen' \in [Names -> {"missing", "file", "dir"}] /\ twice' \subseteq Names
      BY <1>2, <2>3, PageRead
    <3>2. Cardinality(Children) \in 0..Cardinality(Names)
      BY ChildrenFinite
    <3> QED
      BY <1>0, <2>1, <2>2, <3>1, <3>2
  <2>4. CASE total \notin {Unknown, Cardinality(Children)}
    <3>1. UNCHANGED listing
      BY <1>2, <2>4 DEF ReadPage
    <3> QED
      BY <1>0, <2>1, <2>2, <3>1
  <2> QED
    BY <2>3, <2>4
<1>3. CASE ReadInside
  BY <1>0, <1>3 DEF ReadInside, LookedWell, StaleTarget
<1>4. CASE Change
  BY <1>0, <1>4 DEF Change, NewListing
<1>5. CASE ReadInfo
  BY <1>0, <1>5 DEF ReadInfo
<1>6. CASE Fail
  <2>1. PICK how \in Hows : /\ Trouble(how)
                            /\ exit' \in {Mapped(how), 10, 60, 70}
    BY <1>6 DEF Fail, FailLogin, FailLook, FailCreate, FailDelete, FailRelist, FailInfo,
       Stop, Partial
  <2>2. Mapped(how) \in {20, 30, 40, 70}
    BY DEF Mapped, Hows
  <2>3. /\ UNCHANGED <<job, paths, listing, watch, edits>>
        /\ faults' = faults \/ (faults < MaxFaults /\ faults' = faults + 1)
    BY <2>1 DEF Trouble
  <2>4. faults' \in 0..MaxFaults
    BY <2>3, BoundsAssumption
  <2> QED
    BY <2>1, <2>2, <2>3, <2>4
<1>7. CASE Kill
  <2>1. faults' \in 0..MaxFaults
    BY <1>7, BoundsAssumption DEF Kill
  <2> QED
    BY <1>7, <2>1 DEF Kill
<1>8. CASE Edit
  <2>1. edits' \in 0..MaxEdits
    BY <1>8, BoundsAssumption DEF Edit
  <2>2. stayed' \in BOOLEAN /\ steady' \in BOOLEAN
    BY <1>8 DEF Edit
  <2> QED
    BY <1>8, <2>1, <2>2 DEF Edit
<1>9. CASE UNCHANGED vars
  BY <1>9 DEF vars
<1> QED
  BY <1>1, <1>2, <1>3, <1>4, <1>5, <1>6, <1>7, <1>8, <1>9, <1>10, <1>11
     DEF Next, Command

\* A listing stays what it was unless somebody edits the share.
LEMMA ListStep ==
    ASSUME Inv, RangeInv, ListInv, [Next]_vars
    PROVE  ListInv'
<1> SUFFICES ASSUME pc' = "page" PROVE ListInv'
  BY DEF ListInv
<1> USE DEF paths, listing, ghosts, watch, Goto, Stop, Answered, Partial
<1>1. CASE offset' = 0 /\ total' = Unknown /\ seen' = NothingSeen /\ twice' = {}
  BY <1>1 DEF ListInv, NothingSeen
<1>2. CASE ReadPage
  <2>1. total \in {Unknown, Cardinality(Children)} /\ offset' < Cardinality(Children)
    <3>1. CASE total \notin {Unknown, Cardinality(Children)}
      BY <1>2, <3>1 DEF ReadPage, ListingFails
    <3>2. CASE /\ total \in {Unknown, Cardinality(Children)}
               /\ ~ offset' < Cardinality(Children)
      BY <1>2, <3>2 DEF ReadPage, ListingFails, Looked, LookedWell, Verified,
                        Inv, DataInv, Job
    <3> QED
      BY <3>1, <3>2
  <2>2. /\ total' = Cardinality(Children) /\ 0 < offset' /\ offset' < total'
        /\ steady \/ quiet' => Covered' /\ total' = Cardinality(Children)
        /\ quiet' => Faithful'
    BY <1>2, <2>1, PageRead
  <2>3. steady' = steady /\ Children' = Children /\ offset' # 0
    BY <1>2, <2>2 DEF ReadPage, Children
  <2> QED
    BY <2>2, <2>3 DEF ListInv
<1>3. CASE Edit
  <2>1. /\ pc = "page" /\ UNCHANGED <<offset, total, seen, twice>>
        /\ quiet' = FALSE /\ steady' = (steady /\ Children' = Children)
    BY <1>3 DEF Edit
  <2>2. steady' => steady /\ Children' = Children
    BY <2>1
  <2> QED
    BY <2>1, <2>2 DEF ListInv, Covered, Listed
<1>4. CASE UNCHANGED vars
  BY <1>4 DEF vars, ListInv, Covered, Listed, Faithful, Children
<1>5. CASE Start \/ Login \/ ReadFolder \/ ReadInside \/ ReadInfo \/ Fail \/ Kill
  BY <1>5 DEF Start, Login, ReadFolder, ReadInside, ReadInfo, LookedWell, Kill,
     Fail, FailLogin, FailLook, FailCreate, FailDelete, FailRelist, FailInfo
<1>6. CASE ReadMapping \/ Change
  BY <1>1, <1>6 DEF ReadMapping, Change, NewListing
<1> QED
  BY <1>2, <1>3, <1>4, <1>5, <1>6 DEF Next, Command

----------------------------------------------------------------------------
(* What exit code 0 says.                                                  *)

LEMMA InitRange == Init => RangeInv /\ ListInv /\ SuccessIsReal
<1> SUFFICES ASSUME Init PROVE RangeInv /\ ListInv /\ SuccessIsReal
  OBVIOUS
<1>1. nas.volume \in Volumes /\ Cardinality(Names) \in Nat
  BY WorldAssumption, ChildrenFinite DEF Init, Nas
<1> QED
  BY <1>1, BoundsAssumption
  DEF Init, RangeInv, ListInv, SuccessIsReal, NothingSeen

\* A listing that ends the command well.
LEMMA PageSuccess ==
    ASSUME Inv, RangeInv, ListInv, ReadPage, pc' = "done", exit' = 0
    PROVE  SuccessIsReal'
<1> DEFINE target == seen'[job.name]
<1> USE DEF Stop, Goto, Partial
<1>1. /\ job.kind \in {"add", "rm", "list"} /\ job.yes \in BOOLEAN /\ job.name \in Names
      /\ nas \in Nas /\ nas' = nas /\ job' = job /\ steady' = steady
      /\ pc # "done" /\ Children' = Children
  BY DEF ReadPage, Inv, DataInv, Job, Children
<1>2. /\ total \in {Unknown, Cardinality(Children)}
      /\ ~ offset' < Cardinality(Children)
      /\ \/ Looked(target)
         \/ (phase = "verify" /\ Verified(target))
  <2>1. ~ ListingFails
    BY DEF ListingFails
  <2>2. phase \in {"look", "again", "verify"}
    BY DEF Inv, DataInv
  <2> QED
    BY <1>1, <2>1, <2>2 DEF ReadPage, Looking
<1>3. /\ steady => twice' = {} /\ Listed' = Children
      /\ quiet' => \A n \in Names : seen'[n] = Seen(nas.kids[n])
  BY <1>2, ListingDone
<1>4. \A n \in Names : /\ Seen(nas.kids[n]) = "dir" <=> nas.kids[n] \in Directories
                       /\ Seen(nas.kids[n]) = "missing" <=> nas.kids[n] = "missing"
  BY <1>1 DEF Seen, Nas, Kids, Directories
<1>5. CASE job.kind = "list"
  <2>1. quiet' => Outcome'
    BY <1>1, <1>3, <1>4, <1>5 DEF Outcome
  <2>2. steady' => twice' = {} /\ {n \in Names : seen'[n] # "missing"} = Children'
    BY <1>1, <1>3 DEF Listed
  <2> QED
    BY <2>1, <2>2 DEF SuccessIsReal
<1>6. CASE job.kind # "list"
  <2>1. \/ job.kind = "add" /\ ~ job.yes /\ target = "missing"
        \/ job.kind = "rm" /\ job.yes /\ target = "missing"
    <3>1. CASE Looked(target)
      <4>1. job.kind = "add" => target = "missing" /\ LookedWell
        BY <3>1 DEF Looked
      <4>2. ASSUME job.kind = "rm" PROVE FALSE
        <5>1. Looked(target) => pc' = "inside" \/ exit' = 10
          BY <4>2 DEF Looked
        <5> QED
          BY <3>1, <5>1
      <4>3. LookedWell => ~ job.yes
        BY DEF LookedWell
      <4> QED
        BY <1>1, <1>6, <4>1, <4>2, <4>3
    <3>2. CASE phase = "verify" /\ Verified(target)
      <4>1. job.yes
        BY <3>2 DEF Inv, CallInv
      <4>2. job.kind = "rm" /\ target = "missing"
        BY <1>1, <1>6, <3>2 DEF Verified
      <4> QED
        BY <4>1, <4>2
    <3> QED
      BY <1>2, <3>1, <3>2
  <2>2. quiet' => nas.kids[job.name] = "missing"
    BY <1>1, <1>3, <1>4, <2>1
  <2> QED
    BY <1>1, <2>1, <2>2 DEF SuccessIsReal, Outcome
<1> QED
  BY <1>5, <1>6

LEMMA SuccessStep ==
    ASSUME Inv, RangeInv, ListInv, SuccessIsReal, [Next]_vars
    PROVE  SuccessIsReal'
<1> SUFFICES ASSUME pc' = "done", exit' = 0 PROVE SuccessIsReal'
  BY DEF SuccessIsReal
<1> USE DEF Goto, Stop, Partial
<1>1. CASE Start \/ Login \/ ReadFolder \/ ReadMapping \/ Change
  BY <1>1 DEF Start, Login, ReadFolder, ReadMapping, Change
<1>2. CASE ReadPage
  BY <1>2, PageSuccess
<1>3. CASE ReadInside
  <2>1. /\ job.kind = "rm" /\ job' = job /\ nas' = nas
        /\ job.name \in Names /\ job.yes \in BOOLEAN /\ nas \in Nas
        /\ nas.kids[job.name] \in Directories /\ pc # "done"
    BY <1>3 DEF ReadInside, Refused, Inv, DataInv, CallInv, Job
  <2>2. nas.kids[job.name] = "empty" /\ ~ job.yes
    BY <1>3, <2>1 DEF ReadInside, LookedWell, Directories
  <2> QED
    BY <2>1, <2>2 DEF SuccessIsReal, Outcome
<1>4. CASE ReadInfo
  <2>1. /\ job.kind = "add" /\ job.yes /\ job' = job /\ nas' = nas
        /\ planned' = planned /\ pc # "done" /\ nas.live
    BY <1>4 DEF ReadInfo, Refused, Inv, CallInv, paths
  <2>2. nas.kids[job.name] \in Directories /\ nas.volume = planned
    BY <1>4 DEF ReadInfo, ReadBack
  <2> QED
    BY <2>1, <2>2 DEF SuccessIsReal, Outcome
<1>5. CASE Fail
  <2>1. PICK how \in Hows : exit' \in {Mapped(how), 60, 70}
    BY <1>5 DEF Fail, FailLogin, FailLook, FailCreate, FailDelete, FailRelist, FailInfo
  <2>2. Mapped(how) \in {20, 30, 40, 70}
    BY DEF Mapped, Hows
  <2> QED
    BY <2>1, <2>2
<1>6. CASE Kill \/ Edit
  BY <1>6 DEF Kill, Edit, Killed
<1>7. CASE UNCHANGED vars
  BY <1>7 DEF vars, SuccessIsReal, Outcome, Children, paths, listing, ghosts, watch
<1> QED
  BY <1>1, <1>2, <1>3, <1>4, <1>5, <1>6, <1>7 DEF Next, Command

\* The invariant of a command, and what it ends with.
CommandInv == Inv /\ RangeInv /\ ListInv /\ SuccessIsReal
LEMMA CommandAlways == Spec => []CommandInv
<1>1. Init => CommandInv
  BY InitInv, InitRange DEF CommandInv
<1>2. CommandInv /\ [Next]_vars => CommandInv'
  BY StepInv, RangeStep, ListStep, SuccessStep DEF CommandInv
<1> QED
  BY <1>1, <1>2, PTL DEF Spec

\* Every variable keeps to its range.
THEOREM DirTypeCorrect == Spec => []TypeOK
<1>1. CommandInv => TypeOK
  <2> SUFFICES ASSUME CommandInv PROVE TypeOK
    OBVIOUS
  <2>1. DataInv /\ RangeInv
    BY DEF CommandInv, Inv
  <2>2. report \in [{"change", "verify"} ->
                       {"none", "PLANNED", "SUCCEEDED", "FAILED", "UNKNOWN"}]
    BY <2>1 DEF DataInv, Reports, Stages
  <2>3. watch \in [1..4 -> BOOLEAN]
    BY <2>1, WatchType DEF RangeInv
  <2> QED
    BY <2>1, <2>2, <2>3 DEF DataInv, RangeInv, TypeOK
<1> QED
  BY <1>1, CommandAlways, PTL

\* Exit code 0 means what it says unless somebody has edited the share since
\* the last listing began, and a listing shows every child once as long as
\* none comes, goes or is renamed (_resolve_add_preflight, _list_all_directory,
\* _add_directory, _rm_directory): however many children and pages there are.
THEOREM DirSuccessIsReal == Spec => []SuccessIsReal
<1>1. CommandInv => SuccessIsReal
  BY DEF CommandInv
<1> QED
  BY <1>1, CommandAlways, PTL

----------------------------------------------------------------------------
(* A command nobody disturbs.                                              *)

\* What it has found out is so: the share is where get_folder and File
\* Station found it, and the target is as the listing has it until it is
\* changed.
CalmInv == calm /\ pc \notin {"start", "done"} =>
    /\ steady /\ (pc = "page" /\ offset > 0 => quiet)
    /\ phase # "look" \/ pc \in {"mapping", "page", "inside"} =>
          nas.live /\ nas.volume = home /\ home = planned
    /\ phase = "again" =>
          nas.kids[job.name] = IF job.kind = "add" THEN "missing" ELSE "empty"
    /\ phase = "verify" =>
          nas.kids[job.name] = IF job.kind = "add" THEN "empty" ELSE "missing"
    /\ pc = "inside" => nas.kids[job.name] \in Directories

\* Its listings come to an end and show the target as it is.
LEMMA CalmPage ==
    ASSUME CommandInv, CalmInv, calm, ReadPage
    PROVE  /\ nas.live /\ nas.volume = home /\ home = planned
           /\ steady' /\ quiet'
           /\ offset' < Cardinality(Children) =>
                 UNCHANGED <<phase, pc, exit>>
           /\ ~ offset' < Cardinality(Children) =>
                 /\ seen'[job.name] = Seen(nas.kids[job.name])
                 /\ \/ Looking /\ Looked(seen'[job.name])
                    \/ phase = "verify" /\ Verified(seen'[job.name])
<1>1. /\ pc = "page" /\ steady' = steady /\ quiet' = (quiet \/ offset = 0)
      /\ job.name \in Names /\ phase \in {"look", "again", "verify"}
      /\ offset \in Nat
  BY ChildrenFinite DEF ReadPage, CommandInv, Inv, DataInv, Job, RangeInv
<1>2. /\ nas.live /\ nas.volume = home /\ home = planned /\ steady
      /\ offset = 0 \/ quiet
  BY <1>1 DEF CalmInv
<1>3. total \in {Unknown, Cardinality(Children)}
  BY <1>1, <1>2 DEF CommandInv, ListInv
<1>4. CASE offset' < Cardinality(Children)
  <2>1. UNCHANGED <<phase, pc, exit>>
    BY <1>3, <1>4 DEF ReadPage
  <2> QED
    BY <1>1, <1>2, <1>4, <2>1
<1>5. CASE ~ offset' < Cardinality(Children)
  <2>1. twice' = {} /\ seen'[job.name] = Seen(nas.kids[job.name])
    BY <1>1, <1>2, <1>3, <1>5, ListingDone DEF CommandInv
  <2>2. \/ Looking /\ Looked(seen'[job.name])
        \/ phase = "verify" /\ Verified(seen'[job.name])
    BY <1>1, <1>3, <1>5, <2>1 DEF ReadPage, Looking
  <2> QED
    BY <1>1, <1>2, <1>5, <2>1, <2>2
<1> QED
  BY <1>4, <1>5

\* What a listing that has come to its end leads to.
LEMMA CalmLooked ==
    ASSUME CommandInv, CalmInv, calm, ReadPage, ~ offset' < Cardinality(Children)
    PROVE  \/ /\ pc' = "login" /\ phase' = "again" /\ job.kind = "add"
              /\ nas.kids[job.name] = "missing"
           \/ pc' = "inside" /\ phase' = phase /\ job.kind = "rm" /\ phase # "verify"
              /\ nas.kids[job.name] \in Directories
           \/ pc' = "info" /\ phase' = phase /\ phase = "verify"
           \/ pc' = "done" /\ exit' = 0
           \/ /\ pc' = "done" /\ exit' = 10
              /\ nas.kids[job.name] # IF job.kind = "add" THEN "missing" ELSE "empty"
<1> DEFINE target == seen'[job.name]
<1> USE DEF Goto, Stop, Partial
<1>1. /\ target = Seen(nas.kids[job.name]) /\ pc = "page"
      /\ \/ Looking /\ Looked(target)
         \/ phase = "verify" /\ Verified(target)
  BY CalmPage DEF ReadPage
<1>2. /\ job.kind \in {"add", "rm", "list"} /\ job.yes \in BOOLEAN /\ job.name \in Names
      /\ nas.kids[job.name] \in {"missing", "file", "empty", "full"}
  BY DEF CommandInv, Inv, DataInv, Job, Nas, Kids, Directories
<1>3. /\ target = "missing" <=> nas.kids[job.name] = "missing"
      /\ target = "dir" <=> nas.kids[job.name] \in Directories
  BY <1>1, <1>2 DEF Seen, Directories
<1>4. CASE Looking /\ Looked(target)
  <2>1. CASE job.kind = "add"
    <3>1. \/ target # "missing" /\ pc' = "done" /\ exit' = 10
          \/ target = "missing" /\ LookedWell
      BY <1>4, <2>1 DEF Looked
    <3> QED
      BY <1>3, <2>1, <3>1 DEF LookedWell
  <2>2. CASE job.kind = "rm"
    <3>1. /\ phase' = phase
          /\ \/ target = "dir" /\ pc' = "inside"
             \/ target # "dir" /\ pc' = "done" /\ exit' = 10
      BY <1>4, <2>2 DEF Looked
    <3> QED
      BY <1>3, <1>4, <2>2, <3>1 DEF Looking, Directories
  <2>3. CASE job.kind = "list"
    BY <1>4, <2>3 DEF Looked
  <2> QED
    BY <1>2, <2>1, <2>2, <2>3
<1>5. CASE phase = "verify" /\ Verified(target)
  <2>1. job.kind \in {"add", "rm"}
    BY <1>5 DEF CommandInv, Inv, CallInv
  <2>2. target = IF job.kind = "add" THEN "dir" ELSE "missing"
    BY <1>1, <1>3, <1>5 DEF CalmInv, Directories
  <2>3. phase' = phase /\ (pc' = "info" \/ (pc' = "done" /\ exit' = 0))
    BY <1>5, <2>1, <2>2 DEF Verified
  <2> QED
    BY <1>5, <2>3
<1> QED
  BY <1>1, <1>4, <1>5

LEMMA CalmStep ==
    ASSUME CommandInv, CalmInv, [Next]_vars
    PROVE  CalmInv'
<1> SUFFICES ASSUME calm', pc' \notin {"start", "done"} PROVE CalmInv'
  BY DEF CalmInv
<1> USE DEF paths, listing, ghosts, watch, Goto, Stop, Partial
<1>1. CASE Start
  <2>1. phase' = "look" /\ pc' = "login" /\ steady' = TRUE
    BY <1>1 DEF Start, CommandInv, Inv, CallInv
  <2> QED
    BY <2>1 DEF CalmInv
<1>2. CASE Login
  BY <1>2 DEF Login, CalmInv
<1>3. CASE ReadFolder
  <2>1. /\ pc = "folder" /\ nas.live /\ pc' = "mapping" /\ phase # "verify"
        /\ UNCHANGED <<nas, job, phase, steady, calm>>
        /\ home' = nas.volume
        /\ planned' = IF phase = "look" THEN nas.volume ELSE planned
    BY <1>3 DEF ReadFolder, Refused, CommandInv, Inv, CallInv
  <2>2. phase # "look" => planned = nas.volume
    BY <2>1 DEF CalmInv
  <2> QED
    BY <2>1, <2>2 DEF CalmInv
<1>4. CASE ReadMapping
  <2>1. pc = "mapping" /\ pc' = "page" /\ offset' = 0
    BY <1>4 DEF ReadMapping, NewListing
  <2>2. UNCHANGED <<nas, job, phase, home, planned, calm, steady>>
    BY <1>4 DEF ReadMapping
  <2> QED
    BY <2>1, <2>2 DEF CalmInv
<1>5. CASE ReadPage
  <2>1. UNCHANGED <<nas, job, home, planned, calm>> /\ pc = "page" /\ steady' /\ quiet'
        /\ nas.live /\ nas.volume = home /\ home = planned
    BY <1>5, CalmPage DEF ReadPage
  <2>2. CASE offset' < Cardinality(Children)
    <3>1. UNCHANGED <<phase, pc>>
      BY <1>5, <2>1, <2>2, CalmPage
    <3> QED
      BY <2>1, <3>1 DEF CalmInv
  <2>3. CASE ~ offset' < Cardinality(Children)
    <3>1. \/ /\ pc' = "login" /\ phase' = "again" /\ job.kind = "add"
             /\ nas.kids[job.name] = "missing"
          \/ /\ pc' = "inside" /\ phase' = phase /\ job.kind = "rm" /\ phase # "verify"
             /\ nas.kids[job.name] \in Directories
          \/ pc' = "info" /\ phase' = phase /\ phase = "verify"
      BY <1>5, <2>1, <2>3, CalmLooked
    <3> QED
      BY <2>1, <3>1 DEF CalmInv
  <2> QED
    BY <2>2, <2>3
<1>6. CASE ReadInside
  <2>1. /\ pc = "inside" /\ UNCHANGED <<nas, job, home, planned, calm, steady>>
        /\ nas.live /\ nas.volume = home /\ home = planned
        /\ nas.kids[job.name] \in Directories /\ job.kind = "rm"
    BY <1>6 DEF ReadInside, CalmInv, CommandInv, Inv, CallInv
  <2>2. /\ nas.kids[job.name] # "full"
        /\ \/ phase = "look" /\ phase' = "again" /\ pc' = "login"
           \/ phase # "look" /\ phase' = phase /\ pc' = "delete"
    BY <1>6 DEF ReadInside, LookedWell
  <2> QED
    BY <2>1, <2>2 DEF CalmInv, Directories
<1>7. CASE Change
  <2>1. /\ pc \in Mutations /\ phase = "again" /\ nas' = Done /\ phase' = "verify"
        /\ UNCHANGED <<job, home, planned, calm, steady>>
        /\ pc' = "page" /\ offset' = 0
        /\ pc = "delete" <=> job.kind = "rm"
    BY <1>7 DEF Change, NewListing, Mutations, CommandInv, Inv, CallInv
  <2>2. nas.live /\ nas.volume = home /\ home = planned /\ steady
        /\ nas.kids[job.name] = IF job.kind = "add" THEN "missing" ELSE "empty"
    BY <2>1 DEF CalmInv, Mutations
  <2>3. nas'.kids[job.name] = IF pc = "delete" THEN "missing" ELSE "empty"
    BY <2>1, <2>2, DoneIs DEF CommandInv, Inv, Mutations
  <2>4. nas'.live = nas.live /\ nas'.volume = nas.volume
    BY <2>1 DEF Done, CommandInv, Inv, DataInv, Nas
  <2>5. job.kind \in {"add", "rm"}
    BY <2>1 DEF CommandInv, Inv, CallInv
  <2> QED
    BY <2>1, <2>2, <2>3, <2>4, <2>5 DEF CalmInv
<1>8. CASE ReadInfo \/ Fail \/ Kill
  BY <1>8 DEF ReadInfo, Kill, Fail, FailLogin, FailLook, FailCreate, FailDelete,
              FailRelist, FailInfo
<1>9. CASE Edit
  BY <1>9 DEF Edit
<1>10. CASE UNCHANGED vars
  BY <1>10 DEF vars, CalmInv
<1> QED
  BY <1>1, <1>2, <1>3, <1>4, <1>5, <1>6, <1>7, <1>8, <1>9, <1>10 DEF Next, Command

\* No call of a command nobody disturbs is refused but the first one on a
\* share that is not there.
LEMMA CalmRefused ==
    ASSUME CommandInv, CalmInv, calm, pc \notin {"start", "done"}, Refused
    PROVE  ~ nas.live /\ pc = "folder" /\ phase = "look"
<1>1. /\ pc \in Calls /\ phase \in {"look", "again", "verify"}
      /\ pc = "create" => phase = "again" /\ job.kind = "add"
      /\ pc = "delete" => phase = "again" /\ job.kind = "rm"
      /\ pc = "info" => phase = "verify" /\ job.kind = "add"
  BY DEF CommandInv, Inv, DataInv, CallInv
<1>2. /\ phase # "look" => nas.live
      /\ pc \in {"page", "inside"} => nas.live
      /\ pc = "inside" => nas.kids[job.name] \in Directories
      /\ pc = "create" => nas.kids[job.name] = "missing"
      /\ pc = "delete" => nas.kids[job.name] = "empty"
      /\ pc = "info" => nas.kids[job.name] = "empty"
  BY <1>1 DEF CalmInv
<1> QED
  BY <1>1, <1>2 DEF Refused, Calls

LEMMA CalmEnds ==
    ASSUME CommandInv, CalmInv, CalmRunsSucceed, [Next]_vars
    PROVE  CalmRunsSucceed'
<1> SUFFICES ASSUME pc' = "done", calm', faults' = 0, exit' # 0
             PROVE  CalmRunsSucceed'
  BY DEF CalmRunsSucceed
<1> USE DEF paths, listing, ghosts, watch, Goto, Stop, Partial
<1>1. CASE Start \/ Login \/ ReadFolder \/ Change
  BY <1>1 DEF Start, Login, ReadFolder, Change
<1>2. CASE ReadMapping
  BY <1>2 DEF ReadMapping, CalmInv
<1>3. CASE ReadPage
  <2>1. UNCHANGED <<nas, job, calm>> /\ pc = "page"
    BY <1>3 DEF ReadPage
  <2>2. ~ offset' < Cardinality(Children)
    BY <1>3, <2>1, CalmPage
  <2>3. exit' = 10
        /\ nas.kids[job.name] # IF job.kind = "add" THEN "missing" ELSE "empty"
    BY <1>3, <2>1, <2>2, CalmLooked
  <2> QED
    BY <2>1, <2>3 DEF CalmRunsSucceed
<1>4. CASE ReadInside
  <2>1. /\ UNCHANGED <<nas, job, calm>> /\ pc = "inside" /\ job.kind = "rm"
        /\ home = planned
    BY <1>4 DEF ReadInside, CalmInv, CommandInv, Inv, CallInv
  <2>2. nas.kids[job.name] = "full" /\ exit' = 10
    BY <1>4, <2>1 DEF ReadInside, LookedWell, StaleTarget
  <2> QED
    BY <2>1, <2>2 DEF CalmRunsSucceed
<1>5. CASE ReadInfo
  <2>1. /\ pc = "info" /\ calm /\ phase = "verify" /\ job.kind = "add"
    BY <1>5 DEF ReadInfo, CommandInv, Inv, CallInv
  <2>2. nas.kids[job.name] = "empty" /\ nas.volume = planned
    BY <2>1 DEF CalmInv
  <2> QED
    BY <1>5, <2>2 DEF ReadInfo, ReadBack, Directories
<1>6. CASE Fail
  <2>1. PICK how \in Hows : /\ Trouble(how) /\ pc \notin {"start", "done"}
                            /\ \/ FailLook(how)
                               \/ ~ Looking \/ pc \notin {"folder"}
    BY <1>6 DEF Fail, FailLogin, FailLook, FailCreate, FailDelete, FailRelist, FailInfo,
                Mutations
  <2>2. faults' = faults /\ Refused /\ how \in {"api", "refused"} /\ nas' = nas
    <3>1. faults \in Nat
      BY DEF CommandInv, RangeInv
    <3> QED
      BY <2>1, <3>1 DEF Trouble
  <2>3. UNCHANGED <<job, calm>>
    BY <2>1 DEF Trouble
  <2>4. ~ nas.live /\ pc = "folder" /\ phase = "look"
    BY <2>1, <2>2, <2>3, CalmRefused
  <2>5. exit' = IF job.kind = "rm" /\ ~ OwnError(how) THEN 70 ELSE Mapped(how)
    BY <2>1, <2>4 DEF FailLook, Looking
  <2>6. Mapped(how) = 40
    BY <2>2 DEF Mapped
  <2> QED
    BY <2>2, <2>3, <2>4, <2>5, <2>6 DEF CalmRunsSucceed
<1>7. CASE Kill
  <2>1. faults \in Nat /\ faults' = faults + 1
    BY <1>7 DEF Kill, CommandInv, RangeInv
  <2> QED
    BY <2>1
<1>8. CASE Edit
  BY <1>8 DEF Edit
<1>9. CASE UNCHANGED vars
  BY <1>9 DEF vars, CalmRunsSucceed
<1> QED
  BY <1>1, <1>2, <1>3, <1>4, <1>5, <1>6, <1>7, <1>8, <1>9 DEF Next, Command

\* A command nobody disturbs and whose calls are answered succeeds, however
\* many pages it reads, but for what it found in the target's place (run in
\* cli.py; _list_all_directory, _resolve_add_preflight, _add_directory and
\* _rm_directory).
THEOREM DirCalmRunsSucceed == Spec => []CalmRunsSucceed
<1>1. Init => CalmInv /\ CalmRunsSucceed
  BY DEF Init, CalmInv, CalmRunsSucceed
<1>2. /\ CommandInv /\ CalmInv /\ CalmRunsSucceed /\ [Next]_vars
      => CalmInv' /\ CalmRunsSucceed'
  BY CalmStep, CalmEnds
<1> QED
  BY <1>1, <1>2, CommandAlways, PTL DEF Spec

----------------------------------------------------------------------------
(* How long a command may take.                                            *)

\* The steps that are left at most: a look is five calls and as many pages
\* as there are names, the second of rm-dir too; after the change another
\* listing and the read-back.  A listing that others keep changing is no
\* longer than one of all the names.
Pages == Cardinality(Names) - offset
Later ==
    CASE phase = "verify" -> 0
      [] phase = "again" -> Cardinality(Names) + 3
      [] phase = "look" -> 2 * Cardinality(Names) + 9
StepsLeft ==
    CASE pc = "done" -> 0
      [] pc \in Mutations -> Later
      [] pc \in {"inside", "info"} -> Later + 1
      [] pc = "page" -> Later + 2 + Pages
      [] pc = "mapping" -> Later + Cardinality(Names) + 3
      [] pc = "folder" -> Later + Cardinality(Names) + 4
      [] pc = "login" -> Later + Cardinality(Names) + 5
      [] pc = "start" -> Later + Cardinality(Names) + 6
MostSteps == 3 * Cardinality(Names) + 15

\* What the next call or the end costs, by the phase it is in.
LEMMA StepsAt ==
    ASSUME Inv, RangeInv
    PROVE  /\ Cardinality(Names) \in Nat /\ Pages \in 0..Cardinality(Names)
           /\ Later \in {0, Cardinality(Names) + 3, 2 * Cardinality(Names) + 9}
           /\ StepsLeft \in 0..MostSteps
           /\ StepsLeft = 0 <=> pc = "done"
<1>1. /\ Cardinality(Names) \in Nat /\ offset \in 0..Cardinality(Names)
      /\ phase \in {"look", "again", "verify"} /\ pc \in Calls \cup {"start", "done"}
  BY ChildrenFinite DEF Inv, DataInv, RangeInv
<1>2. Pages \in 0..Cardinality(Names)
  BY <1>1 DEF Pages
<1>3. Later \in {0, Cardinality(Names) + 3, 2 * Cardinality(Names) + 9}
  BY <1>1 DEF Later
<1>4. pc \in Mutations => Later = Cardinality(Names) + 3
  BY <1>1 DEF Mutations, Later, Inv, CallInv
<1>5. StepsLeft \in 0..MostSteps /\ (StepsLeft = 0 <=> pc = "done")
  BY <1>1, <1>2, <1>3, <1>4 DEF StepsLeft, Calls, Mutations, MostSteps
<1> QED
  BY <1>1, <1>2, <1>3, <1>5

\* Only rm-dir looks twice.
AgainInv ==
    phase = "again" /\ pc \in {"folder", "mapping", "page", "inside"}
        => job.kind = "rm"

LEMMA AgainStep ==
    ASSUME Inv, AgainInv, [Next]_vars
    PROVE  AgainInv'
<1> USE DEF AgainInv, Goto, Stop, Partial
<1>1. job.kind \in {"add", "rm", "list"} /\ job.yes \in BOOLEAN
      /\ phase \in {"look", "again", "verify"}
  BY DEF Inv, DataInv, Job
<1>2. CASE Start \/ ReadFolder \/ ReadMapping \/ ReadInfo
  BY <1>2 DEF Start, ReadFolder, ReadMapping, ReadInfo
<1>3. CASE Login
  BY <1>1, <1>3 DEF Login, Inv, CallInv
<1>4. CASE ReadPage
  <2>1. PICK m : \/ UNCHANGED <<phase, pc>> \/ ListingFails
                 \/ Looked(seen'[m]) \/ Verified(seen'[m])
    BY <1>4 DEF ReadPage
  <2>2. pc = "page" /\ job' = job
    BY <1>4 DEF ReadPage
  <2> QED
    BY <1>1, <2>1, <2>2 DEF ListingFails, Looked, LookedWell, Verified
<1>5. CASE ReadInside \/ Change
  BY <1>5 DEF ReadInside, LookedWell, Change
<1>6. CASE Fail
  <2>1. pc' = "done"
    BY <1>6 DEF Fail, FailLogin, FailLook, FailCreate, FailDelete, FailRelist, FailInfo
  <2> QED
    BY <2>1
<1>7. CASE Kill \/ Edit \/ UNCHANGED vars
  BY <1>7 DEF Kill, Edit, vars
<1> QED
  BY <1>2, <1>3, <1>4, <1>5, <1>6, <1>7 DEF Next, Command

\* A page that leaves something to list has listed something.
LEMMA PageAdvances ==
    ASSUME Inv, RangeInv, ListInv, ReadPage,
           total \in {Unknown, Cardinality(Children)},
           offset' < Cardinality(Children)
    PROVE  offset < offset'
<1> DEFINE count == Cardinality(Children)
<1>1. pc = "page" /\ offset' = offset + Cardinality(Page(Rank, Children, offset))
  BY DEF ReadPage, Onward
<1>2. offset \in Nat /\ count \in Nat
  BY ChildrenFinite DEF RangeInv
<1>3. offset <= count
  BY <1>1, <1>2 DEF ListInv, Unknown
<1>4. offset < count => offset < offset'
  BY <1>1, <1>2, <1>3, ChildrenFinite, RankAssumption, PageExtends
<1>5. offset = count => offset' = offset
  <2>1. PageSize \in Nat \ {0}
    BY PageSizeAssumption
  <2>2. IsFiniteSet(Children) /\ Children \in SUBSET Names
    BY ChildrenFinite
  <2>3. Cardinality(Page(Rank, Children, offset)) =
          IF offset + PageSize <= count THEN PageSize
          ELSE IF offset <= count THEN count - offset ELSE 0
    BY <1>2, <2>2, RankAssumption, PageCount
  <2> QED
    BY <1>1, <1>2, <2>1, <2>3
<1> QED
  BY <1>2, <1>3, <1>4, <1>5

\* A command that ends has no step left.
LEMMA EndShortens ==
    ASSUME Inv, RangeInv, pc # "done", pc' = "done"
    PROVE  StepsLeft' < StepsLeft
<1>1. StepsLeft' = 0
  BY DEF StepsLeft, Mutations
<1> QED
  BY <1>1, StepsAt DEF MostSteps

\* A page is one fewer to read, or the last of its listing.
LEMMA PageShortens ==
    ASSUME Inv, RangeInv, ListInv, AgainInv, ReadPage
    PROVE  StepsLeft' < StepsLeft
<1> DEFINE n == Cardinality(Names)
<1>1. /\ pc = "page" /\ job' = job /\ Children' = Children
      /\ phase \in {"look", "again", "verify"}
      /\ job.kind \in {"add", "rm", "list"} /\ job.yes \in BOOLEAN
  BY DEF ReadPage, Children, Inv, DataInv, Job
<1>2. n \in Nat /\ Pages \in 0..n /\ StepsLeft = Later + 2 + Pages
      /\ Later \in {0, n + 3, 2 * n + 9}
  BY <1>1, StepsAt DEF StepsLeft, Mutations
<1>3. CASE pc' = "done"
  BY <1>1, <1>3, EndShortens
<1>4. CASE UNCHANGED <<phase, pc>> /\ offset < offset' /\ offset' \in 0..n
  <2>1. Later' = Later /\ StepsLeft' = Later' + 2 + Pages'
    BY <1>1, <1>4 DEF Later, StepsLeft, Mutations
  <2>2. Pages' < Pages
    BY <1>4, ChildrenFinite DEF Pages, RangeInv
  <2>3. Pages' \in Int /\ Pages \in Int /\ Later \in Int
    BY <1>2, <1>4 DEF Pages, RangeInv
  <2>4. \A l, p, q \in Int : p < q => l + 2 + p < l + 2 + q
    OBVIOUS
  <2>5. StepsLeft = Later + 2 + Pages
    BY <1>2
  <2>6. StepsLeft' = Later + 2 + Pages'
    BY <2>1
  <2>7. Later + 2 + Pages' < Later + 2 + Pages
    BY <2>2, <2>3, <2>4, Zenon
  <2> QED
    BY <2>5, <2>6, <2>7, Zenon
<1>5. CASE phase = "look" /\ phase' = "again" /\ pc' = "login"
  <2>1. Later = 2 * n + 9 /\ Later' = n + 3 /\ StepsLeft' = Later' + n + 5
    BY <1>5 DEF Later, StepsLeft, Mutations
  <2> QED
    BY <1>2, <2>1
<1>6. CASE phase' = phase /\ pc' \in {"inside", "info"}
  <2>1. Later' = Later /\ StepsLeft' = Later' + 1
    BY <1>6 DEF Later, StepsLeft, Mutations
  <2> QED
    BY <1>2, <2>1
<1>7. CASE total \notin {Unknown, Cardinality(Children)}
  <2>1. pc' = "done"
    BY <1>7 DEF ReadPage, ListingFails, Partial, Stop
  <2> QED
    BY <1>1, <2>1, EndShortens
<1>8. CASE total \in {Unknown, Cardinality(Children)} /\ offset' < Cardinality(Children)
  <2>1. UNCHANGED <<phase, pc>>
    BY <1>8 DEF ReadPage
  <2>2. offset' \in 0..n
    BY <1>8, PageRead, ChildrenFinite
  <2> QED
    BY <1>4, <1>8, <2>1, <2>2, PageAdvances
<1>9. CASE /\ total \in {Unknown, Cardinality(Children)}
           /\ ~ offset' < Cardinality(Children)
  <2>1. \/ ListingFails
        \/ Looking /\ Looked(seen'[job.name])
        \/ ~ Looking /\ Verified(seen'[job.name])
    BY <1>9 DEF ReadPage
  <2>2. ListingFails => pc' = "done"
    BY DEF ListingFails, Partial, Stop
  <2>3. Verified(seen'[job.name])
           => pc' = "done" \/ (phase' = phase /\ pc' = "info")
    BY DEF Verified, Partial, Stop, Goto
  <2>4. ASSUME Looking, Looked(seen'[job.name])
        PROVE  \/ pc' = "done"
               \/ phase' = phase /\ pc' = "inside"
               \/ phase' = "again" /\ pc' = "login" /\ job.kind = "add"
    BY <1>1, <2>4 DEF Looked, LookedWell, Stop, Goto
  <2>5. phase = "again" => job.kind # "add"
    BY <1>1 DEF AgainInv
  <2> QED
    BY <1>1, <1>3, <1>5, <1>6, <2>1, <2>2, <2>3, <2>4, <2>5 DEF Looking
<1> QED
  BY <1>7, <1>8, <1>9

\* Every step of the command uses one up; nothing others do adds one.
LEMMA StepShortens ==
    ASSUME Inv, RangeInv, ListInv, AgainInv, Next
    PROVE  IF edits' = edits THEN StepsLeft' < StepsLeft ELSE StepsLeft' = StepsLeft
<1> DEFINE n == Cardinality(Names)
<1>1. n \in Nat /\ Pages \in 0..n /\ Later \in {0, n + 3, 2 * n + 9}
      /\ edits \in Nat /\ offset \in 0..n
  BY StepsAt DEF RangeInv
<1>2. ASSUME Command \/ Kill PROVE StepsLeft' < StepsLeft
  <2> USE DEF StepsLeft, Mutations
  <2>1. CASE Start
    <3>1. pc = "start" /\ pc' = "login" /\ phase' = phase
      BY <2>1 DEF Start, Goto
    <3>2. Later' = Later
      BY <3>1 DEF Later
    <3> QED
      BY <1>1, <3>1, <3>2
  <2>2. CASE Login
    <3>1. pc = "login" /\ pc' \in {"create", "folder"} /\ phase' = phase
      BY <2>2 DEF Login, Goto
    <3>2. Later' = Later
      BY <3>1 DEF Later
    <3> QED
      BY <1>1, <3>1, <3>2
  <2>3. CASE ReadFolder
    <3>1. pc = "folder" /\ pc' = "mapping" /\ phase' = phase
      BY <2>3 DEF ReadFolder, Goto
    <3>2. Later' = Later
      BY <3>1 DEF Later
    <3> QED
      BY <1>1, <3>1, <3>2
  <2>4. CASE ReadMapping
    <3>1. /\ pc = "mapping" /\ pc' \in {"page", "done"} /\ phase' = phase
          /\ offset' = 0
      BY <2>4 DEF ReadMapping, Goto, Stop, NewListing
    <3>2. Later' = Later /\ Pages' = n
      BY <1>1, <3>1 DEF Later, Pages
    <3> QED
      BY <1>1, <3>1, <3>2
  <2>5. CASE ReadPage
    BY <2>5, PageShortens
  <2>6. CASE ReadInside
    <3>1. CASE pc' = "done"
      BY <2>6, <3>1, EndShortens DEF ReadInside
    <3>2. CASE phase = "look" /\ phase' = "again" /\ pc' = "login"
      <4>1. Later = 2 * n + 9 /\ Later' = n + 3 /\ pc = "inside"
        BY <2>6, <3>2 DEF Later, ReadInside
      <4> QED
        BY <1>1, <3>2, <4>1
    <3>3. CASE phase' = phase /\ pc' = "delete"
      <4>1. Later = Later' /\ pc = "inside"
        BY <2>6, <3>3 DEF Later, ReadInside
      <4> QED
        BY <1>1, <3>3, <4>1
    <3> QED
      BY <2>6, <3>1, <3>2, <3>3 DEF ReadInside, LookedWell, Partial, Stop, Goto
  <2>7. CASE Change
    <3>1. /\ pc \in {"create", "delete"} /\ phase = "again"
          /\ phase' = "verify" /\ pc' = "page" /\ offset' = 0
      BY <2>7 DEF Change, Goto, NewListing, Inv, CallInv
    <3>2. Later = n + 3 /\ Later' = 0 /\ Pages' = n
      BY <1>1, <3>1 DEF Later, Pages
    <3> QED
      BY <1>1, <3>1, <3>2
  <2>8. CASE ReadInfo \/ Fail \/ Kill
    <3>1. pc' = "done"
      BY <2>8 DEF ReadInfo, Fail, FailLogin, FailLook, FailCreate, FailDelete,
         FailRelist, FailInfo, Kill, Partial, Stop
    <3>2. pc # "done"
      BY <2>8 DEF ReadInfo, Fail, FailLogin, FailLook, FailCreate, FailDelete,
         FailRelist, FailInfo, Kill, Calls
    <3> HIDE DEF StepsLeft
    <3> QED
      BY <3>1, <3>2, EndShortens
  <2> QED
    BY <1>2, <2>1, <2>2, <2>3, <2>4, <2>5, <2>6, <2>7, <2>8 DEF Command
<1>3. ASSUME Edit PROVE StepsLeft' = StepsLeft
  BY <1>3 DEF Edit, StepsLeft, Later, Pages, listing
<1>4. Command \/ Kill => edits' = edits
  BY DEF Command, Start, Login, ReadFolder, ReadMapping, ReadPage, ReadInside,
     Change, ReadInfo, Answered, Fail, FailLogin, FailLook, FailCreate, FailDelete,
     FailRelist, FailInfo, Trouble, Kill
<1>5. Edit => edits' # edits
  BY <1>1 DEF Edit
<1> QED
  BY <1>2, <1>3, <1>4, <1>5 DEF Next

\* No command takes more than three listings of all the names and fifteen
\* calls and decisions, whatever others put in or take out between two
\* pages; every step it takes, also one that fails, brings it nearer to its
\* end, and only at the end is there none left.
THEOREM DirWorkIsBounded ==
    Spec => /\ [](StepsLeft \in 0..MostSteps /\ (StepsLeft = 0 <=> pc = "done"))
            /\ [][IF edits' = edits THEN StepsLeft' < StepsLeft
                  ELSE StepsLeft' = StepsLeft]_vars
<1> DEFINE Shorter ==
      IF edits' = edits THEN StepsLeft' < StepsLeft ELSE StepsLeft' = StepsLeft
<1>1. Init => AgainInv
  BY DEF Init, AgainInv
<1>2. CommandInv /\ AgainInv /\ [Next]_vars => AgainInv'
  BY AgainStep DEF CommandInv
<1>3. CommandInv => StepsLeft \in 0..MostSteps /\ (StepsLeft = 0 <=> pc = "done")
  BY StepsAt DEF CommandInv
<1>4. CommandInv /\ AgainInv /\ [Next]_vars => [Shorter]_vars
  BY StepShortens DEF CommandInv
<1> QED
  BY <1>1, <1>2, <1>3, <1>4, CommandAlways, PTL DEF Spec
=============================================================================
