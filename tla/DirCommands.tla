---------------------------- MODULE DirCommands ----------------------------
(***************************************************************************)
(* The commands on the directories of one share: add-dir, rm-dir and       *)
(* list-dirs (src/synology/subshares.py, with their branches of run in     *)
(* cli.py).                                                                *)
(*                                                                         *)
(* The share is found by its volume through one API and by its virtual     *)
(* path "/<share>" through another.  What is created or deleted goes by    *)
(* the virtual path, so it lands wherever the share is by then.            *)
(***************************************************************************)
EXTENDS Paging, Sequences

CONSTANTS
    Names,        \* names of immediate children
    Rank,         \* the order in which File Station lists them
    Volumes,      \* volumes the share may be on
    Jobs,         \* the commands given
    StartStates,  \* what the NAS may hold at first
    MaxEdits,     \* bound: edits by others
    MaxFaults     \* bound: failed calls, lost answers, kills

\* An immediate child: nothing, a file, a directory without or with children.
Directories == {"empty", "full"}
Kids == [Names -> {"missing", "file"} \cup Directories]
Nas == [live: BOOLEAN, volume: Volumes, kids: Kids]
NoKids == [n \in Names |-> "missing"]

Job == [kind: {"add", "rm", "list"}, yes: BOOLEAN, name: Names]

ASSUME RankAssumption == IsFiniteSet(Names) /\ Orders(Rank, Names)
ASSUME WorldAssumption == Jobs \subseteq Job /\ StartStates \subseteq Nas
ASSUME BoundsAssumption == MaxEdits \in Nat /\ MaxFaults \in Nat

VARIABLES
    nas,      \* the share and its immediate children
    job,      \* the command, fixed
    phase,    \* what the calls are for: to look, to look again, to verify
    pc,       \* the next call, or "start" or "done"
    home,     \* the volume get_folder last named
    planned,  \* the volume it named at the first look
    offset,   \* children listed so far
    total,    \* how many the first page said there are
    seen,     \* what the listing says of every name
    twice,    \* names it lists twice
    report,   \* the status of the change and of its verification
    exit,     \* exit code
    sent,     \* ghost: the change was requested
    did,      \* ghost: this command has changed the share
    unsure,   \* ghost: the answer to a change that may have been done is lost
    quiet,    \* ghost: no edit since the last listing began
    stayed,   \* ghost: the share has not moved since get_folder named its volume
    calm,     \* ghost: no edit since the command began
    steady,   \* ghost: no child came, went or was renamed since it began
    edits, faults  \* budgets spent

listing == <<offset, total, seen, twice>>
paths == <<home, planned>>
watch == <<quiet, stayed, calm, steady>>
ghosts == <<sent, did, unsure, watch>>
vars == <<nas, job, phase, pc, paths, listing, report, exit, ghosts, edits, faults>>

Running == -1
Killed == -2
Unknown == -1
NoSteps == [change |-> "none", verify |-> "none"]
NothingSeen == [n \in Names |-> "missing"]

Calls == {"login", "folder", "mapping", "page", "inside", "create", "delete", "info"}
Mutations == {"create", "delete"}
Looking == phase \in {"look", "again"}

Children == {n \in Names : nas.kids[n] # "missing"}
Seen(kid) == IF kid \in Directories THEN "dir" ELSE kid

\* An exception of the library ("connection" is one), of requests, another
\* one, an answer with success false, or an answer that makes no sense.
Hows == {"login", "connection", "request", "api", "refused", "malformed", "other"}
Mapped(how) ==
    CASE how = "login" -> 20
      [] how \in {"connection", "request"} -> 30
      [] how \in {"api", "refused", "malformed"} -> 40
      [] how = "other" -> 70
\* An ApiError of the program's own; rm-dir maps no other failure of a look.
OwnError(how) == how \in {"refused", "malformed"}
Lands(how) == how \notin {"login", "api", "refused"}

Init ==
    /\ nas \in StartStates /\ job \in Jobs
    /\ phase = "look" /\ pc = "start"
    /\ home = nas.volume /\ planned = nas.volume
    /\ offset = 0 /\ total = Unknown /\ seen = NothingSeen /\ twice = {}
    /\ report = NoSteps /\ exit = Running
    /\ sent = FALSE /\ did = FALSE /\ unsure = FALSE
    /\ quiet = TRUE /\ stayed = TRUE /\ calm = TRUE /\ steady = TRUE
    /\ edits = 0 /\ faults = 0

Goto(next) == pc' = next /\ UNCHANGED exit
Stop(code) == pc' = "done" /\ exit' = code
Mark(step, status) == report' = [report EXCEPT ![step] = status]
Partial(step, status) == Mark(step, status) /\ Stop(60)
Answered == UNCHANGED <<edits, faults>>

\* Mutant: what was listed before is kept.
ListingGoesOn ==
    offset' = 0 /\ total' = Unknown /\ UNCHANGED <<seen, twice>>
NewListing ==
    offset' = 0 /\ total' = Unknown /\ seen' = NothingSeen /\ twice' = {}

----------------------------------------------------------------------------
(* What the NAS refuses, and what a change does.                           *)

Refused ==
    \/ ~ nas.live /\ pc \notin {"login", "mapping"}
    \/ pc = "inside" /\ nas.kids[job.name] \notin Directories
    \/ pc = "create" /\ nas.kids[job.name] = "file"
    \/ pc = "delete" /\ nas.kids[job.name] # "empty"
    \/ pc = "info" /\ nas.kids[job.name] = "missing"

Done ==
    [nas EXCEPT !.kids[job.name] =
        IF pc = "delete" THEN "missing" ELSE IF @ = "missing" THEN "empty" ELSE @]
Possible == IF pc \in Mutations THEN {nas, Done} ELSE {nas}

----------------------------------------------------------------------------
(* Looking the target up.                                                  *)

\* Nothing of the NAS is read before; without --yes the command looks too.
Start ==
    /\ pc = "start"
    /\ Goto("login")
    /\ calm' = TRUE /\ steady' = TRUE
    /\ UNCHANGED <<nas, job, phase, paths, listing, report, sent, did, unsure,
                   quiet, stayed>>
    /\ Answered

\* The client logs in to both APIs, and so does the one that is made anew to
\* change what the first has looked at.
Login ==
    /\ pc = "login"
    /\ Goto(IF job.kind = "add" /\ phase = "again" THEN "create" ELSE "folder")
    /\ UNCHANGED <<nas, job, phase, paths, listing, report, ghosts>>
    /\ Answered

\* get_folder names the volume.
ReadFolder ==
    /\ pc = "folder" /\ ~ Refused
    /\ home' = nas.volume
    /\ planned' = IF phase = "look" THEN nas.volume ELSE planned
    /\ stayed' = TRUE
    /\ Goto("mapping")
    /\ UNCHANGED <<nas, job, phase, listing, report, sent, did, unsure,
                   quiet, calm, steady>>
    /\ Answered

\* File Station has to list the share, on the volume get_folder named.
ReadMapping ==
    /\ pc = "mapping"
    /\ IF nas.live /\ nas.volume = home THEN Goto("page") ELSE Stop(40)
    /\ NewListing
    /\ UNCHANGED <<nas, job, phase, paths, report, ghosts>>
    /\ Answered

\* Mutants: a page counts as a full one; the offset stays where it is.
OnwardByPages(page) == offset + PageSize
Nowhere(page) == offset
Onward(page) == offset + Cardinality(page)

\* A listing that cannot be made sense of.
ListingFails ==
    /\ IF phase = "verify" THEN Partial("verify", "UNKNOWN")
       ELSE Stop(40) /\ UNCHANGED report
    /\ UNCHANGED phase

\* The change can be made: it is shown, or a new client is to make it.
LookedWell ==
    IF job.yes THEN phase' = "again" /\ Goto("login") /\ UNCHANGED report
    ELSE Mark("change", "PLANNED") /\ Stop(0) /\ UNCHANGED phase

\* Where a listing was made to look.
Looked(target) ==
    CASE job.kind = "add" ->
            IF target # "missing" THEN Stop(10) /\ UNCHANGED <<phase, report>>
            ELSE LookedWell
      [] job.kind = "rm" ->
            /\ IF target = "dir" THEN Goto("inside") ELSE Stop(10)
            /\ UNCHANGED <<phase, report>>
      [] job.kind = "list" -> Stop(0) /\ UNCHANGED <<phase, report>>

\* Where it was made to verify.
Verified(target) ==
    /\ \/ /\ job.kind = "add" /\ target = "dir"
          /\ Goto("info") /\ UNCHANGED report
       \/ /\ job.kind = "rm" /\ target = "missing"
          /\ Mark("verify", "SUCCEEDED") /\ Stop(0)
       \/ /\ target # IF job.kind = "add" THEN "dir" ELSE "missing"
          /\ Partial("verify", "FAILED")
    /\ UNCHANGED phase

\* Pages are read until the total of the first is reached; another total on
\* a later page is an error, and so is a target that is listed twice.
ReadPage ==
    /\ pc = "page" /\ ~ Refused
    /\ LET page == Page(Rank, Children, offset)
           count == Cardinality(Children)
       IN  IF total \notin {Unknown, count}
           THEN ListingFails /\ UNCHANGED listing
           ELSE /\ offset' = Onward(page) /\ total' = count
                /\ seen' = [n \in Names |->
                               IF n \in page THEN Seen(nas.kids[n]) ELSE seen[n]]
                /\ twice' = twice \cup {n \in page : seen[n] # "missing"}
                /\ IF offset' < count THEN UNCHANGED <<phase, pc, exit, report>>
                   ELSE IF job.kind # "list" /\ job.name \in twice' THEN ListingFails
                   ELSE IF Looking THEN Looked(seen'[job.name])
                   ELSE Verified(seen'[job.name])
    /\ quiet' = (quiet \/ offset = 0)
    /\ UNCHANGED <<nas, job, paths, sent, did, unsure, stayed, calm, steady>>
    /\ Answered

----------------------------------------------------------------------------
(* rm-dir: the directory has to be empty; with --yes everything is looked  *)
(* up once more before it is deleted.                                      *)

\* Mutant: the second look is not compared with the first.
AnyTarget == FALSE
StaleTarget == home # planned

ReadInside ==
    /\ pc = "inside" /\ ~ Refused
    /\ IF nas.kids[job.name] = "full" THEN Stop(10) /\ UNCHANGED <<phase, report>>
       ELSE IF phase = "look" THEN LookedWell
       ELSE IF StaleTarget THEN Partial("change", "UNKNOWN") /\ UNCHANGED phase
       ELSE Goto("delete") /\ UNCHANGED <<phase, report>>
    /\ UNCHANGED <<nas, job, paths, listing, ghosts>>
    /\ Answered

\* create_folder with force_parent=False, or delete with recursive=False.
Change ==
    /\ pc \in Mutations /\ ~ Refused
    /\ nas' = Done
    /\ sent' = TRUE /\ did' = (nas' # nas)
    /\ Mark("change", "SUCCEEDED")
    /\ phase' = "verify" /\ Goto("page") /\ NewListing
    /\ UNCHANGED <<job, paths, unsure, watch>>
    /\ Answered

----------------------------------------------------------------------------
(* add-dir: the read-back.                                                 *)

\* Mutant: the path read back is not compared.
ReadBackAnywhere(volume) == TRUE
ReadBack(volume) == volume = planned

ReadInfo ==
    /\ pc = "info" /\ ~ Refused
    /\ IF nas.kids[job.name] \in Directories /\ ReadBack(nas.volume)
       THEN Mark("verify", "SUCCEEDED") /\ Stop(0)
       ELSE Partial("verify", "FAILED")
    /\ UNCHANGED <<nas, job, phase, paths, listing, ghosts>>
    /\ Answered

----------------------------------------------------------------------------
(* What goes wrong: a call the NAS refuses; a call that fails or whose     *)
(* answer is lost; a kill.                                                 *)

Trouble(how) ==
    /\ \/ /\ Refused /\ how \in {"api", "refused"}
          /\ UNCHANGED <<nas, faults, unsure>>
       \/ /\ ~ Refused
          /\ faults < MaxFaults /\ faults' = faults + 1
          /\ nas' \in IF Lands(how) THEN Possible ELSE {nas}
          /\ unsure' = (pc \in Mutations /\ Lands(how))
    /\ sent' = (sent \/ pc \in Mutations)
    /\ did' = (did \/ nas' # nas)
    /\ UNCHANGED <<job, phase, paths, listing, watch, edits>>

\* A failed login is always mapped; an answer that makes no sense passes for
\* wrong settings.
FailLogin(how) ==
    /\ pc = "login"
    /\ Trouble(how)
    /\ Stop(IF how = "malformed" THEN 10 ELSE Mapped(how)) /\ UNCHANGED report

\* add-dir and list-dirs map every failure of a look; of rm-dir only the
\* program's own errors are known to run.
FailLook(how) ==
    /\ Looking /\ pc \in {"folder", "mapping", "page", "inside"}
    /\ Trouble(how)
    /\ Stop(IF job.kind = "rm" /\ ~ OwnError(how) THEN 70 ELSE Mapped(how))
    /\ UNCHANGED report

\* An exception of the library is mapped, a lost connection too, although
\* the change may have been made; another failure is a partial result.
FailCreate(how) ==
    /\ pc = "create"
    /\ Trouble(how)
    /\ IF how \in {"login", "connection", "api", "refused"}
       THEN Stop(Mapped(how)) /\ UNCHANGED report
       ELSE Partial("change", "UNKNOWN")

FailDelete(how) ==
    /\ pc = "delete"
    /\ Trouble(how)
    /\ IF how \in {"login", "connection", "api"}
       THEN Stop(Mapped(how)) /\ UNCHANGED report
       ELSE Partial("change", "UNKNOWN")

\* Mutant: a failure of the second listing is mapped like one of the first.
FailRelistAsLook(how) ==
    /\ phase = "verify" /\ pc = "page"
    /\ Trouble(how)
    /\ Stop(Mapped(how)) /\ UNCHANGED report

FailRelist(how) ==
    /\ phase = "verify" /\ pc = "page"
    /\ Trouble(how)
    /\ Partial("verify", "UNKNOWN")

\* Of the read-back only the program's own errors are caught; with another
\* one nothing tells of the directory that was made.
FailInfo(how) ==
    /\ pc = "info"
    /\ Trouble(how)
    /\ IF OwnError(how) THEN Partial("verify", "FAILED")
       ELSE Stop(70) /\ report' = NoSteps

Fail ==
    \E how \in Hows :
        \/ FailLogin(how) \/ FailLook(how) \/ FailCreate(how) \/ FailDelete(how)
        \/ FailRelist(how) \/ FailInfo(how)

Kill ==
    /\ pc \in Calls
    /\ faults < MaxFaults /\ faults' = faults + 1
    /\ nas' \in IF Refused THEN {nas} ELSE Possible
    /\ sent' = (sent \/ pc \in Mutations)
    /\ did' = (did \/ nas' # nas)
    /\ Stop(Killed)
    /\ UNCHANGED <<job, phase, paths, listing, report, unsure, watch, edits>>

\* Somebody else deletes the share or makes a new one, moves it to another
\* volume, puts something in or out of a place, or renames a child.
Renamed(m, n) ==
    [nas.kids EXCEPT ![m] = "missing", ![n] = nas.kids[m]]
Edited ==
    {[nas EXCEPT !.live = ~ @, !.kids = NoKids]}
    \cup {[nas EXCEPT !.volume = v] : v \in Volumes}
    \cup {[nas EXCEPT !.kids[n] = k] :
             n \in Names, k \in {"missing", "file"} \cup Directories}
    \cup {[nas EXCEPT !.kids = Renamed(m, n)] : m \in Children, n \in Names \ Children}

Edit ==
    /\ pc # "done"
    /\ edits < MaxEdits /\ edits' = edits + 1
    /\ nas' \in Edited \ {nas}
    /\ nas.live \/ nas'.live
    /\ quiet' = FALSE /\ calm' = FALSE
    /\ stayed' = (stayed /\ nas'.live /\ nas'.volume = nas.volume)
    /\ steady' = (steady /\ Children' = Children)
    /\ UNCHANGED <<job, phase, pc, paths, listing, report, exit, sent, did,
                   unsure, faults>>

Command ==
    \/ Start \/ Login \/ ReadFolder \/ ReadMapping \/ ReadPage
    \/ ReadInside \/ Change \/ ReadInfo
    \/ Fail

Next == Command \/ Kill \/ Edit

\* A call is answered or refused, and the command takes its next step; no
\* fault has to come to its help.
GoOn == Command /\ UNCHANGED faults
Spec == Init /\ [][Next]_vars /\ WF_vars(GoOn)

----------------------------------------------------------------------------
(* Properties.                                                             *)

TypeOK ==
    /\ nas \in Nas /\ job \in Jobs
    /\ phase \in {"look", "again", "verify"} /\ pc \in Calls \cup {"start", "done"}
    /\ home \in Volumes /\ planned \in Volumes
    /\ offset \in 0..Cardinality(Names)
    /\ total \in {Unknown} \cup 0..Cardinality(Names)
    /\ seen \in [Names -> {"missing", "file", "dir"}] /\ twice \subseteq Names
    /\ report \in [{"change", "verify"} ->
                      {"none", "PLANNED", "SUCCEEDED", "FAILED", "UNKNOWN"}]
    /\ exit \in {0, 10, 20, 30, 40, 60, 70, Running, Killed}
    /\ sent \in BOOLEAN /\ did \in BOOLEAN /\ unsure \in BOOLEAN
    /\ watch \in [1..4 -> BOOLEAN]
    /\ edits \in 0..MaxEdits /\ faults \in 0..MaxFaults

\* Exit code 0 means what it says unless somebody has edited the share since
\* the last listing began: the directory is there, and on the volume the
\* first look found; it is gone; the plan could be carried out; the list is
\* that of the directories.  A listing shows every child once as long as
\* none comes, goes or is renamed, whatever else happens.
Outcome ==
    CASE job.kind = "list" ->
            \A n \in Names : (seen[n] = "dir") <=> (nas.kids[n] \in Directories)
      [] job.kind = "add" /\ job.yes ->
            nas.live /\ nas.volume = planned /\ nas.kids[job.name] \in Directories
      [] job.kind = "add" /\ ~ job.yes -> nas.kids[job.name] = "missing"
      [] job.kind = "rm" /\ job.yes -> nas.kids[job.name] = "missing"
      [] job.kind = "rm" /\ ~ job.yes -> nas.kids[job.name] = "empty"
SuccessIsReal ==
    pc = "done" /\ exit = 0 =>
        /\ quiet => Outcome
        /\ job.kind = "list" /\ steady =>
              twice = {} /\ {n \in Names : seen[n] # "missing"} = Children

\* The exit code tells of the change.  10, 20 and 40 mean there was none,
\* nor is there one without --yes; rm-dir says "deleted" only of what it
\* deleted itself; 60 comes with exactly one step that failed or is unknown,
\* and if nothing was sent it is since the share has moved.  A change behind
\* 30 or 70 is one whose answer was lost, or a directory add-dir has made
\* and failed to read back.
Troubled == {s \in {"change", "verify"} : report[s] \in {"FAILED", "UNKNOWN"}}
ExitTellsWork ==
    pc = "done" =>
        /\ exit \in {10, 20, 40} => ~ did
        /\ exit = 0 =>
              /\ Troubled = {} /\ ~ unsure
              /\ job.kind = "list" \/ ~ job.yes => ~ sent
              /\ job.kind = "rm" /\ job.yes => did
        /\ exit = 60 =>
              /\ Cardinality(Troubled) = 1
              /\ ~ sent => job.kind = "rm" /\ home # planned
        /\ exit = 30 /\ did => unsure
        /\ exit = 70 /\ did => job.kind = "add" /\ ~ unsure

\* A step of the program touches nothing but the target, and only with
\* --yes: it makes a directory where nothing was, or removes an empty one,
\* never a file or what is in a directory.  It removes it on the volume the
\* plan named, unless the share moves after the second look.
RemovesWhatItShowed ==
    [][edits' = edits /\ nas' # nas =>
        /\ job.yes
        /\ nas' = [nas EXCEPT !.kids[job.name] = nas'.kids[job.name]]
        /\ \/ /\ job.kind = "add"
              /\ nas.kids[job.name] = "missing" /\ nas'.kids[job.name] = "empty"
           \/ /\ job.kind = "rm"
              /\ nas.kids[job.name] = "empty" /\ nas'.kids[job.name] = "missing"
              /\ stayed => nas.volume = planned]_vars

\* A command nobody disturbs and whose calls are answered succeeds, however
\* many pages it reads, but for what it found in the target's place; where
\* the share is missing it ends with 40, rm-dir also with 70.
CalmRunsSucceed ==
    pc = "done" /\ calm /\ faults = 0 /\ exit # 0 =>
        CASE exit = 10 ->
                nas.kids[job.name] # IF job.kind = "add" THEN "missing" ELSE "empty"
          [] exit = 40 -> ~ nas.live
          [] exit = 70 -> ~ nas.live /\ job.kind = "rm"
          [] OTHER -> FALSE

\* Every command ends: a listing that others change between two pages is
\* given up or comes to its end, and nothing is waited for or tried again.
Terminates == <>(pc = "done")
=============================================================================
