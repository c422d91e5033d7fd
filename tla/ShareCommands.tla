--------------------------- MODULE ShareCommands ---------------------------
(***************************************************************************)
(* The commands on one shared folder: create-share, modify-share --quota   *)
(* and --nfs-permission, delete-share, and list-shares --permissions for   *)
(* that folder (src/synology/shares.py, with their branches of run in      *)
(* cli.py).  modify-share --permission is AclModify.                       *)
(*                                                                         *)
(* One command runs, one call after the other, while others edit the same  *)
(* folder; a second command of this program is one of the others.          *)
(***************************************************************************)
EXTENDS AclRules, NfsRules, Paging, Sequences

CONSTANTS
    Rank,            \* the order in which the NAS lists identities
    Volumes,         \* volume paths
    CanonicalVolume, \* the internal "/volume<n>" ones
    Descs,           \* description texts
    Unavailable,     \* no quota: None in a request, no capability in a share
    FreshAcls,       \* permissions a new folder may come with
    Jobs,            \* the commands given
    StartStates,     \* what the NAS may hold at first
    EditRules,       \* rule sets others may save
    MaxEdits,        \* bound: edits by others
    MaxFaults        \* bound: failed calls, lost answers, kills

\* Quotas are GiB in a request and MiB on the NAS, where 0 is unlimited.
QUOTA_MIB_PER_GIB == 1024
MAX_QUOTA_GIB == 2147483647 \div QUOTA_MIB_PER_GIB
Bins == {"off", "admin", "all"}

Scalars == [volume: Volumes, desc: Descs, bin: Bins, quota: Int]
Nas ==
    [live: BOOLEAN, scalars: Scalars, acl: Acls, nfs: SUBSET Rule,
     accounts: SUBSET Ids, service: BOOLEAN]

Kinds == {"create", "quota", "nfs", "delete", "list"}
Job ==
    [kind: Kinds, yes: BOOLEAN, scalars: Scalars, want: Acls,
     rules: Seq([client: NfsClients, flags: Flags])]

ASSUME RankAssumption == IsFiniteSet(Ids) /\ Orders(Rank, Ids)
ASSUME UnavailableAssumption == Unavailable \in Int /\ Unavailable < 0
ASSUME WorldAssumption ==
    /\ CanonicalVolume \subseteq Volumes /\ FreshAcls \subseteq Acls
    /\ Jobs \subseteq Job /\ StartStates \subseteq Nas
    /\ EditRules \subseteq SUBSET Rule
    /\ \A rules \in EditRules \cup {n.nfs : n \in StartStates} : IsFiniteSet(rules)
ASSUME BoundsAssumption == MaxEdits \in Nat /\ MaxFaults \in Nat

VARIABLES
    nas,      \* the folder, the accounts and the global NFS service
    job,      \* the command, fixed
    pc,       \* the next call, or "start" or "done"
    at,       \* the category of permissions it has reached
    offset,   \* rows of that category it has listed
    before,   \* the scalars read before the write
    part,     \* scalars read without the recycle bin, which is in another call
    listed,   \* what a listing shows of every identity
    twice,    \* identities it shows twice
    report,   \* the status of every step
    missing,  \* what a listing could not read
    exit,     \* exit code
    sent,     \* ghost: the mutations requested
    unsure,   \* ghost: the answer to a mutation that may have been done is lost
    quiet,    \* ghost: no edit since the last reading began
    calm,     \* ghost: no edit since the command began
    steady,   \* ghost: no account added or removed since it began
    edits, faults  \* budgets spent

place == <<pc, at, offset>>
readings == <<before, part, listed, twice>>
result == <<report, missing, exit>>
watch == <<quiet, calm, steady>>
ghosts == <<sent, unsure, watch>>
vars == <<nas, job, place, readings, result, ghosts, edits, faults>>

Running == -1
Killed == -2
Unlisted == "unlisted"
NfsStep == 5     \* in missing, beside the categories
StepNames == {"create", "permissions", "nfs", "set", "verify"}
Statuses == {"none", "SUCCEEDED", "SKIPPED", "FAILED", "UNKNOWN"}
NoSteps == [s \in StepNames |-> "none"]
NothingListed == [i \in Ids |-> Unlisted]

AclRequest == [mode |-> "replace", want |-> job.want]
AskedIds == Asked(AclRequest)
AskedOf(k) == {i \in AskedIds : Category[i] = k}
AskedQuota == job.scalars.quota * QUOTA_MIB_PER_GIB

\* The calls, by what a failure of theirs comes to.
Early == {"precheck", "before", "read", "readBin", "create", "delete", "shares"}
Verifying == {"reread", "rereadBin"}
Calls == Early \cup Verifying \cup {"grant", "check", "save", "load", "set",
                                    "apis", "rows", "rules"}
Mutations == {"create", "grant", "save", "set", "delete"}

\* An exception of the library or a malformed answer: SynoConnectionError is
\* a SynoBaseException, a RequestException is not.
Hows == {"login", "connection", "request", "api", "malformed", "other"}
Mapped(how) ==
    CASE how = "login" -> 20
      [] how \in {"connection", "request"} -> 30
      [] how \in {"api", "malformed"} -> 40
      [] how = "other" -> 70
Uncertain(how) == IF how \in {"connection", "request"} THEN "UNKNOWN" ELSE "FAILED"
\* What may have been done although it failed so.
Lands(how) == how \notin {"login", "api"}

Init ==
    /\ nas \in StartStates /\ job \in Jobs
    /\ pc = "start" /\ at = LocalUser /\ offset = 0
    /\ before = job.scalars /\ part = job.scalars
    /\ listed = NothingListed /\ twice = {}
    /\ report = NoSteps /\ missing = {} /\ exit = Running
    /\ sent = {} /\ unsure = FALSE /\ quiet = TRUE /\ calm = TRUE /\ steady = TRUE
    /\ edits = 0 /\ faults = 0

Stop(code) == pc' = "done" /\ exit' = code /\ UNCHANGED <<at, offset>>
Goto(next) == pc' = next /\ UNCHANGED <<at, offset, exit>>
Mark(step, status) == report' = [report EXCEPT ![step] = status]
Watch == quiet' = TRUE /\ UNCHANGED <<calm, steady>>
Unwatched == UNCHANGED watch
Answered == UNCHANGED <<edits, faults>>

\* Mutant: the category is not set back.
NextCategoryAlone(next) ==
    /\ at' = at + 1
    /\ pc' = IF at = LdapGroup THEN next ELSE pc
    /\ offset' = 0

\* On to the next category, and after the last one to the next phase.
NextCategory(next) ==
    /\ at' = IF at = LdapGroup THEN LocalUser ELSE at + 1
    /\ pc' = IF at = LdapGroup THEN next ELSE pc
    /\ offset' = 0

----------------------------------------------------------------------------
(* Mutations, as the NAS carries them out.                                 *)

\* Mutant: recycle-bin settings are not sent, and the NAS resets them.
ScalarsWithoutBin ==
    {[nas EXCEPT !.scalars = [before EXCEPT !.quota = AskedQuota, !.bin = "admin"]]}

\* A set request carries every mutable field as it was read.
ScalarsSet == {[nas EXCEPT !.scalars = [before EXCEPT !.quota = AskedQuota]]}

\* A new folder may come without the description or the quota asked for;
\* the answer does not tell.
Created ==
    LET quotas == IF job.scalars.volume \notin CanonicalVolume THEN {Unavailable}
                  ELSE IF job.scalars.quota = Unavailable THEN {0}
                  ELSE {0, AskedQuota}
    IN  {[nas EXCEPT !.live = TRUE, !.acl = a, !.nfs = {},
                     !.scalars = [job.scalars EXCEPT !.quota = q, !.desc = d]] :
            a \in {[i \in Ids |-> IF i \in nas.accounts THEN f[i] ELSE "none"] :
                      f \in FreshAcls},
            q \in quotas, d \in Descs}

\* A patch of the entries the call names; names nobody has are ignored.
Granted(done) == [nas EXCEPT !.acl = Patched(AclRequest, @, done \cap nas.accounts)]

Done ==
    CASE pc = "create" -> Created
      [] pc = "grant" -> {Granted(AskedOf(at))}
      [] pc = "save" -> {[nas EXCEPT !.nfs = RuleSet(job.rules)]}
      [] pc = "set" -> ScalarsSet
      [] pc = "delete" -> {[nas EXCEPT !.live = FALSE]}

\* What may have been done when no answer came.
Possible ==
    {nas} \cup IF pc = "grant" THEN {Granted(d) : d \in SUBSET AskedOf(at)}
               ELSE IF pc \in Mutations THEN Done
               ELSE {}

Refused == IF pc = "create" THEN nas.live
           ELSE pc \in Calls \ {"precheck", "shares", "apis"} /\ ~ nas.live
Mutate(name) ==
    /\ pc = name /\ ~ Refused
    /\ nas' \in Done
    /\ sent' = sent \cup {name}
    /\ UNCHANGED <<job, readings, missing, unsure>>
    /\ Answered

----------------------------------------------------------------------------
(* The command begins.                                                     *)

Valid ==
    CASE job.kind = "create" ->
            /\ job.scalars.quota # Unavailable =>
                  job.scalars.quota \in 1..MAX_QUOTA_GIB
            /\ Accepted(job.rules)
      [] job.kind = "quota" -> job.scalars.quota \in 0..MAX_QUOTA_GIB
      [] job.kind = "nfs" -> Accepted(job.rules)
      [] OTHER -> TRUE

FirstCall ==
    CASE job.kind = "create" -> IF job.rules = <<>> THEN "create" ELSE "precheck"
      [] job.kind = "quota" -> "read"
      [] job.kind = "nfs" -> "precheck"
      [] job.kind = "delete" -> "delete"
      [] job.kind = "list" -> "shares"

\* A request is checked, and without --yes it is only shown: nobody has
\* called the NAS by then.
Start ==
    /\ pc = "start"
    /\ IF ~ Valid THEN Stop(10)
       ELSE IF ~ job.yes /\ job.kind # "list" THEN Stop(11)
       ELSE Goto(FirstCall)
    /\ quiet' = TRUE /\ calm' = TRUE /\ steady' = TRUE
    /\ UNCHANGED <<nas, job, readings, report, missing, sent, unsure>>
    /\ Answered

\* The global NFS service has to be on; it is never turned on.
Precheck ==
    /\ pc = "precheck"
    /\ IF ~ nas.service THEN Stop(10)
       ELSE Goto(IF job.kind = "create" THEN "create" ELSE "before")
    /\ UNCHANGED <<nas, job, readings, report, missing, ghosts>>
    /\ Answered

----------------------------------------------------------------------------
(* create-share.                                                           *)

AfterPermissions ==
    IF job.rules # <<>> THEN Goto("save") ELSE Stop(0)

Create ==
    /\ Mutate("create")
    /\ Mark("create", "SUCCEEDED")
    /\ IF AskedIds # {} THEN Goto("grant") ELSE AfterPermissions
    /\ Watch

\* One call per category, also when it names nobody.
Grant ==
    /\ Mutate("grant")
    /\ NextCategory("check")
    /\ Watch
    /\ UNCHANGED <<report, exit>>

\* The grants asked for are among the first page of the category; others
\* are not looked at.
GrantsSeen ==
    AskedOf(at) \subseteq
        {i \in Page(Rank, {i \in nas.accounts : Category[i] = at}, 0) :
            nas.acl[i] = job.want[i]}

Check ==
    /\ pc = "check" /\ ~ Refused
    /\ \/ /\ ~ GrantsSeen
          /\ Mark("permissions", "FAILED") /\ Stop(60)
       \/ /\ GrantsSeen /\ at # LdapGroup
          /\ NextCategory("check") /\ UNCHANGED <<report, exit>>
       \/ /\ GrantsSeen /\ at = LdapGroup
          /\ Mark("permissions", "SUCCEEDED") /\ AfterPermissions
    /\ UNCHANGED <<nas, job, readings, missing, ghosts>>
    /\ Answered

----------------------------------------------------------------------------
(* NFS rules, of a new folder or in modify-share.                          *)

\* Before it replaces rules modify-share reads them; rules it cannot
\* represent are an error.
LoadBefore ==
    /\ pc = "before" /\ ~ Refused
    /\ IF ~ Loadable(nas.nfs) THEN Stop(40) /\ UNCHANGED report
       ELSE IF RulesMatch(job.rules, nas.nfs)
       THEN Stop(0) /\ Mark("nfs", "SKIPPED")
       ELSE Goto("save") /\ UNCHANGED report
    /\ UNCHANGED <<nas, job, readings, missing, ghosts>>
    /\ Answered

\* The step that is reported when saving or loading goes wrong.
NfsStepName(mine) == IF job.kind = "create" THEN "nfs" ELSE mine

Save ==
    /\ Mutate("save")
    /\ IF job.kind = "create" THEN UNCHANGED report ELSE Mark("set", "SUCCEEDED")
    /\ Goto("load")
    /\ IF job.kind = "create" THEN Unwatched ELSE Watch

Load ==
    /\ pc = "load" /\ ~ Refused
    /\ IF Loadable(nas.nfs) /\ RulesMatch(job.rules, nas.nfs)
       THEN Mark(NfsStepName("verify"), "SUCCEEDED") /\ Stop(0)
       ELSE Mark(NfsStepName("verify"), "FAILED") /\ Stop(60)
    /\ UNCHANGED <<nas, job, readings, missing, ghosts>>
    /\ Answered

----------------------------------------------------------------------------
(* modify-share --quota.                                                   *)

\* Mutant: the quota is compared as well.
UnchangedAtAll(s) == s = before
\* Every other field is as it was read before the write.
Preserved(s) == [s EXCEPT !.quota = 0] = [before EXCEPT !.quota = 0]

Preflighted(s) ==
    /\ IF s.quota = Unavailable THEN Stop(40) /\ UNCHANGED report
       ELSE IF s.quota = AskedQuota THEN Stop(0) /\ Mark("set", "SKIPPED")
       ELSE Goto("set") /\ UNCHANGED report
    /\ before' = s

Verified(s) ==
    /\ IF s.quota = AskedQuota /\ Preserved(s)
       THEN Mark("verify", "SUCCEEDED") /\ Stop(0)
       ELSE Mark("verify", "FAILED") /\ Stop(60)
    /\ UNCHANGED before

\* get_folder; where it does not tell the recycle bin, the listing of all
\* folders does, by another call.
ReadScalars ==
    /\ pc \in {"read", "reread"} /\ ~ Refused
    /\ \/ /\ IF pc = "read" THEN Preflighted(nas.scalars) ELSE Verified(nas.scalars)
          /\ UNCHANGED part
       \/ /\ part' = nas.scalars
          /\ Goto(IF pc = "read" THEN "readBin" ELSE "rereadBin")
          /\ UNCHANGED <<before, report>>
    /\ UNCHANGED <<nas, job, listed, twice, missing, ghosts>>
    /\ Answered

ReadBin ==
    /\ pc \in {"readBin", "rereadBin"} /\ ~ Refused
    /\ LET s == [part EXCEPT !.bin = nas.scalars.bin]
       IN  IF pc = "readBin" THEN Preflighted(s) ELSE Verified(s)
    /\ UNCHANGED <<nas, job, part, listed, twice, missing, ghosts>>
    /\ Answered

SetQuota ==
    /\ Mutate("set")
    /\ Mark("set", "SUCCEEDED")
    /\ Goto("reread")
    /\ Watch

----------------------------------------------------------------------------
(* delete-share and list-shares --permissions.                             *)

Delete ==
    /\ Mutate("delete")
    /\ Stop(0)
    /\ UNCHANGED report
    /\ Unwatched

ListShares ==
    /\ pc = "shares"
    /\ IF nas.live THEN Goto("apis") ELSE Stop(0)
    /\ UNCHANGED <<nas, job, readings, report, missing, ghosts>>
    /\ Answered

\* Two more clients, for permissions and for NFS, log in.
OpenApis ==
    /\ pc = "apis"
    /\ Goto("rows")
    /\ UNCHANGED <<nas, job, readings, report, missing, ghosts>>
    /\ Answered

\* What a category shows is dropped when it cannot be read to its end.
CategoryFails ==
    /\ missing' = missing \cup {at}
    /\ listed' = [i \in Ids |-> IF Category[i] = at THEN Unlisted ELSE listed[i]]
    /\ twice' = {i \in twice : Category[i] # at}
    /\ NextCategory("rules")

\* Mutant: the offset stays where it is.
Nowhere(page) == offset
Onward(page) == offset + Cardinality(page)

ReadRows ==
    /\ pc = "rows" /\ ~ Refused
    /\ LET rows == {i \in nas.accounts : Category[i] = at}
           page == Page(Rank, rows, offset)
       IN  IF Onward(page) > Cardinality(rows) THEN CategoryFails
           ELSE /\ listed' = [i \in Ids |-> IF i \in page THEN nas.acl[i] ELSE listed[i]]
                /\ twice' = twice \cup {i \in page : listed[i] # Unlisted}
                /\ UNCHANGED missing
                /\ IF Onward(page) = Cardinality(rows) THEN NextCategory("rules")
                   ELSE offset' = Onward(page) /\ UNCHANGED <<pc, at>>
    /\ UNCHANGED <<nas, job, before, part, report, exit, ghosts>>
    /\ Answered

ReadRules ==
    /\ pc = "rules" /\ ~ Refused
    /\ Stop(IF missing = {} THEN 0 ELSE 60)
    /\ UNCHANGED <<nas, job, readings, report, missing, ghosts>>
    /\ Answered

----------------------------------------------------------------------------
(* What goes wrong: a call the NAS refuses, since the folder is there or   *)
(* is not; a call that fails or whose answer is lost; a kill.              *)

Trouble(how) ==
    /\ \/ /\ Refused /\ how = "api"
          /\ UNCHANGED <<nas, faults, unsure>>
       \/ /\ ~ Refused
          /\ faults < MaxFaults /\ faults' = faults + 1
          /\ nas' \in IF Lands(how) THEN Possible ELSE {nas}
          /\ unsure' = (unsure \/ (pc \in Mutations /\ Lands(how)))
    /\ sent' = sent \cup ({pc} \cap Mutations)
    /\ UNCHANGED <<job, before, part, watch, edits>>

\* Nothing is reported but the code of the cause.  The answer to a create or
\* delete call may be lost like this.
FailEarly(how) ==
    /\ pc \in Early
    /\ Trouble(how)
    /\ Stop(Mapped(how))
    /\ UNCHANGED <<listed, twice, report, missing>>

\* The set API may be too old, which is found out before the first reading.
Unsupported ==
    /\ pc = "read"
    /\ faults < MaxFaults /\ faults' = faults + 1
    /\ Stop(10)
    /\ UNCHANGED <<nas, job, readings, report, missing, ghosts, edits>>

\* Mutant: NFS rules are set although the permissions failed.
FailPermissionsAndGoOn(how) ==
    /\ pc \in {"grant", "check"}
    /\ Trouble(how)
    /\ Mark("permissions", Uncertain(how))
    /\ IF job.rules # <<>> THEN Goto("save") ELSE Stop(60)
    /\ UNCHANGED <<listed, twice, missing>>

FailPermissions(how) ==
    /\ pc \in {"grant", "check"}
    /\ Trouble(how)
    /\ Mark("permissions", Uncertain(how)) /\ Stop(60)
    /\ UNCHANGED <<listed, twice, missing>>

FailNfs(how) ==
    /\ pc \in {"save", "load"}
    /\ Trouble(how)
    /\ Mark(NfsStepName(IF pc = "save" THEN "set" ELSE "verify"), Uncertain(how))
    /\ Stop(60)
    /\ UNCHANGED <<listed, twice, missing>>

\* An exception of the library is an API error, a lost connection too; what
\* else goes wrong is a partial result.
FailSetQuota(how) ==
    /\ pc = "set"
    /\ Trouble(how)
    /\ IF how \in {"login", "connection", "api"}
       THEN Stop(40) /\ UNCHANGED report
       ELSE Stop(60) /\ Mark("set", Uncertain(how))
    /\ UNCHANGED <<listed, twice, missing>>

FailVerifyQuota(how) ==
    /\ pc \in Verifying
    /\ Trouble(how)
    /\ Mark("verify", Uncertain(how)) /\ Stop(60)
    /\ UNCHANGED <<listed, twice, missing>>

\* Whatever keeps these clients from starting, a rejected login too, is not
\* mapped to the code of its cause.
FailApis(how) ==
    /\ pc = "apis"
    /\ Trouble(how)
    /\ Stop(70)
    /\ UNCHANGED <<listed, twice, report, missing>>

\* A listing goes on without what it cannot read.
FailRows(how) ==
    /\ pc = "rows"
    /\ Trouble(how)
    /\ CategoryFails
    /\ UNCHANGED <<report, exit>>

FailRules(how) ==
    /\ pc = "rules"
    /\ Trouble(how)
    /\ missing' = missing \cup {NfsStep} /\ Stop(60)
    /\ UNCHANGED <<listed, twice, report>>

Fail ==
    \/ \E how \in Hows :
          \/ FailEarly(how) \/ FailPermissions(how) \/ FailNfs(how)
          \/ FailSetQuota(how) \/ FailVerifyQuota(how)
          \/ FailApis(how) \/ FailRows(how) \/ FailRules(how)
    \/ Unsupported

Kill ==
    /\ pc \in Calls
    /\ faults < MaxFaults /\ faults' = faults + 1
    /\ nas' \in IF Refused THEN {nas} ELSE Possible
    /\ sent' = sent \cup ({pc} \cap Mutations)
    /\ Stop(Killed)
    /\ UNCHANGED <<job, readings, report, missing, unsure, watch, edits>>

\* Somebody else deletes or makes the folder, edits it, adds or removes an
\* account, or turns the NFS service on or off.
Regranted == {[nas EXCEPT !.acl[i] = a] : i \in nas.accounts, a \in Access}
Edited ==
    {[nas EXCEPT !.live = ~ @]}
    \cup {[nas EXCEPT !.service = ~ @]}
    \cup {[nas EXCEPT !.scalars.desc = d] : d \in Descs}
    \cup {[nas EXCEPT !.scalars.bin = b] : b \in Bins}
    \cup {[nas EXCEPT !.nfs = rules] : rules \in EditRules}
    \cup Regranted
    \cup {[nas EXCEPT !.accounts = @ \cup {i}] : i \in Ids}
    \cup {[nas EXCEPT !.accounts = @ \ {i}, !.acl[i] = "none"] : i \in Ids}

Edit ==
    /\ pc # "done"
    /\ edits < MaxEdits /\ edits' = edits + 1
    /\ nas' \in Edited \ {nas}
    /\ quiet' = FALSE /\ calm' = FALSE
    /\ steady' = (steady /\ nas'.accounts = nas.accounts)
    /\ UNCHANGED <<job, place, readings, result, sent, unsure, faults>>

Command ==
    \/ Start \/ Precheck
    \/ Create \/ Grant \/ Check
    \/ LoadBefore \/ Save \/ Load
    \/ ReadScalars \/ ReadBin \/ SetQuota
    \/ Delete \/ ListShares \/ OpenApis \/ ReadRows \/ ReadRules
    \/ Fail

Next == Command \/ Kill \/ Edit

\* A call is answered or refused, and the command takes its next step; no
\* fault has to come to its help.
GoOn == Command /\ UNCHANGED faults
Spec == Init /\ [][Next]_vars /\ WF_vars(GoOn)

----------------------------------------------------------------------------
(* Properties.                                                             *)

TypeOK ==
    /\ nas \in Nas /\ job \in Jobs
    /\ pc \in Calls \cup {"start", "done"}
    /\ at \in Categories /\ offset \in 0..Cardinality(Ids)
    /\ before \in Scalars /\ part \in Scalars
    /\ listed \in [Ids -> Access \cup {Unlisted}] /\ twice \subseteq Ids
    /\ report \in [StepNames -> Statuses]
    /\ missing \subseteq Categories \cup {NfsStep}
    /\ exit \in {0, 10, 11, 20, 30, 40, 60, 70, Running, Killed}
    /\ sent \subseteq Mutations /\ unsure \in BOOLEAN
    /\ quiet \in BOOLEAN /\ calm \in BOOLEAN /\ steady \in BOOLEAN
    /\ edits \in 0..MaxEdits /\ faults \in 0..MaxFaults

GrantsAsAsked == GrantsExactly(job.rules, nas.nfs)
Shown == {i \in Ids : listed[i] # Unlisted}
Outcome ==
    CASE job.kind = "create" ->
            /\ nas.live
            /\ \A i \in AskedIds : nas.acl[i] = job.want[i]
            /\ job.rules # <<>> => GrantsAsAsked
      [] job.kind = "quota" -> nas.live /\ nas.scalars.quota = AskedQuota
      [] job.kind = "nfs" -> nas.live /\ GrantsAsAsked
      [] job.kind = "delete" -> ~ nas.live
      [] job.kind = "list" ->
            nas.live => \A i \in nas.accounts : listed[i] = nas.acl[i]

\* Exit code 0 means what it says, unless somebody has edited the folder
\* since the command began its last reading: the grants, the rules or the
\* quota asked for are there; the folder is gone; the listing shows every
\* grant there is.  A listing shows everybody once even while grants change:
\* only accounts that come and go between two pages confuse it.
SuccessIsReal ==
    pc = "done" /\ exit = 0 =>
        /\ steady => twice = {} /\ Shown \in {{}, nas.accounts}
        /\ quiet => Outcome

\* README of modify-share: exactly one family per invocation, preserving the
\* known mutable fields.  However it ends, a command nobody disturbs changes
\* nothing else: a new folder replaces none that is there, and the quota is
\* sent with a reading of the other fields that is put together from two
\* calls.
OneFamilyChanges ==
    [][edits' = edits /\ calm =>
        CASE job.kind = "create" -> nas.live /\ sent = {} => nas' = nas
          [] job.kind = "quota" ->
                nas' = [nas EXCEPT !.scalars.quota = nas'.scalars.quota]
          [] job.kind = "nfs" -> nas' = [nas EXCEPT !.nfs = nas'.nfs]
          [] job.kind = "delete" -> nas' = [nas EXCEPT !.live = nas'.live]
          [] job.kind = "list" -> nas' = nas]_vars

\* The exit code and the steps tell what was sent.  10, 11 and a skipped
\* step mean nothing was; a code of 20 to 40 or 70 comes before anything
\* but the one request it is about; 60 comes with exactly one step that
\* failed or is unknown, and what comes after that step was not sent.
Troubled == {s \in StepNames : report[s] \in {"FAILED", "UNKNOWN"}}
ReportIsTrue ==
    pc = "done" =>
        /\ exit \in {10, 11} => sent = {}
        /\ report["set"] = "SKIPPED" \/ report["nfs"] = "SKIPPED" => sent = {} /\ exit = 0
        /\ exit \in {20, 30, 40, 70} =>
              sent \subseteq {IF job.kind = "quota" THEN "set" ELSE job.kind}
        /\ exit = 60 /\ job.kind # "list" =>
              /\ Cardinality(Troubled) = 1
              /\ job.kind = "create" =>
                    /\ report["create"] = "SUCCEEDED" /\ "create" \in sent
                    /\ report["permissions"] \in {"FAILED", "UNKNOWN"} =>
                          "save" \notin sent
              /\ job.kind # "create" => sent # {}
        /\ exit = 0 => Troubled = {} /\ ~ unsure

\* What the commands promise together: a command that nobody disturbs and
\* whose calls are answered succeeds, but for the reasons it has in the
\* request and the folder.  create-share looks for the grants it has made
\* only on the first page of a category: asked for an identity beyond it, or
\* one that does not exist, it ends with 60 with the folder made.
FirstPage(i) ==
    i \in Page(Rank, {j \in nas.accounts : Category[j] = Category[i]}, 0)
CalmRunsSucceed ==
    pc = "done" /\ calm /\ faults = 0 /\ exit \notin {0, 11} =>
        CASE exit = 10 -> ~ Valid \/ ~ nas.service
          [] exit = 40 ->
                \/ job.kind = "create" /\ nas.live
                \/ job.kind # "create" /\ ~ nas.live
                \/ job.kind = "quota" /\ nas.scalars.quota = Unavailable
                \/ job.kind = "nfs" /\ ~ Loadable(nas.nfs)
          [] exit = 60 ->
                job.kind = "create" /\ \E i \in AskedIds : ~ FirstPage(i)
          [] OTHER -> FALSE

\* Every command ends.
Terminates == <>(pc = "done")

\* README of modify-share: failed or uncertain writes exit 60, and a lost
\* connection leaves a quota request unknown.  It does not hold: a lost
\* connection that is an exception of the library exits 40.
UncertainWriteIsReported ==
    pc = "done" /\ job.kind = "quota" /\ unsure => exit = 60
=============================================================================
