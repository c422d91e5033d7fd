# Formal models of syn-cli

`syn-cli` (package `synology`) administers the shared folders of a Synology NAS:
one process per command, one NAS, every remote call synchronous. Nothing is
locked and nothing is remembered between commands, while other people administer
the same NAS and edit the same configuration files. What makes the program hard
is therefore not its own concurrency but the world's: a command is a sequence of
reads, decisions, writes and read-backs, and anything may happen between two of
them. The models take one remote call (or file operation) per step and let
others write, calls fail, answers get lost and processes die in between.

Paths below are those of the repository; `apply_config.py` and the like are in
`src/synology/`.

## 1. Inventory

| Component | State | Operations | Models |
| --- | --- | --- | --- |
| **apply-config** (`apply_config.py`) | the parsed document; inventory, details and directory preflights read while planning; a status per operation | `build_apply_plan`, `execute_apply_plan` | `ShareData`, `ApplyConfig`, `SerialPlan`, `ApplySerial` |
| **Shares client** (`shares.py`, `SynShareClient`) | none of its own: the NAS's shares (volume, description, quota, visibility, four permission categories, NFS rules) | list, create, modify (quota, permissions, NFS), delete; the calls apply-config makes | `ShareCommands` over `AclRules`, `NfsRules`, `Paging`; `AclModify`, `AclSerial`; for apply-config in `ApplyConfig` |
| **Directories client** (`subshares.py`, `SynSubshareClient`) | none of its own: immediate children of a share | list-dirs, add-dir, rm-dir; preflight, create, delete for apply-config | `DirCommands` over `Paging`; for apply-config in `ApplyConfig` |
| **Configuration import** (`config_import.py`) | the document on disk, its temporary file | `load_config_import_document`, `import_share_config`, `atomic_write` | `ConfigImport` |
| **Validation** (`config.py`) | none | checks of one request, NFS client normalisation | partly: quota ranges, NFS clients (`NfsRules`) |
| **Command line** (`cli.py`) | none | arguments to requests, exceptions to exit codes | the branch of every command and its exit codes |
| **Output, logging** (`output.py`, `logging.py`) | none | rendering, redaction | not modelled |
| **Data types** (`models.py`, `exceptions.py`) | none | declarations | the sets of records of the modules |

How they interact: `cli.run` parses a request, validates it with `config.py`,
builds one `SynShareClient` and calls it. `SynShareClient` hands directory
operations to a `SynSubshareClient`, made anew and logged in for every call. apply-config plans with the
clients' read methods and executes with their write methods. config-import uses
`list_shares` and `read_apply_details` and the parser of apply-config. Clients
talk to each other only through the NAS and through files.

What is hard, and the property that makes each component correct:

* **apply-config**: a plan is built from many reads and executed much later, one
  operation after another, each of them several calls. Exit 0 must mean the NAS
  is as the document says, 60 must come with a report that tells truly what was
  done, any earlier exit must have done nothing, nothing outside the document may
  change, and repeating the command must get there after any interruption.
* **Permissions**: set category by category, by patches computed from an earlier
  reading. Success must be real, a partial result true, and administrators must
  keep their access through every interleaving.
* **Quota and NFS**: the set call of the quota rewrites the whole share as it was
  read, by two calls where the first does not tell the recycle bin; NFS saves the
  whole list, whose clients are told apart by network and not by text; both are
  verified by reading again. Undisturbed, no other field may change.
* **Creation**: a share, then its permissions, then its NFS rules. What exists when
  a later step fails has to be reported.
* **Directories**: looked at page by page, then created or deleted by a path that
  does not name the volume. No child may be lost, what was shown is what is removed,
  and no code that means "nothing done" may follow a change.
* **Import**: read, merge, replace. The file is always one complete document,
  keeps what it should keep, and agrees with what apply-config will compare.

`PROJECT.json` lists the hazards at their lines, those no property covers yet
with the reason.

## 2. Modules

Module | Role
--- | ---
`ShareData` | Live shares, documents, and the comparisons that decide what differs. No state.
`ApplyConfig` | The apply-config process against a NAS that others edit.
`SerialPlan` | Abstract: what a command promises that carries out a plan of operations, whatever the operations do. Implemented by apply-config and by the replacement of permissions.
`ApplySerial` | The refinement mapping from `ApplyConfig` to `SerialPlan`.
`AclRules` | What a replacement of permissions sets, revokes and tolerates. No state.
`AclModify` | Clients that replace the permissions of one folder, call by call.
`AclSerial` | The refinement mapping from `AclModify` to `SerialPlan`, for any one client.
`Paging` | How the NAS hands out a listing page by page. No state; external.
`NfsRules` | Which NFS requests are accepted, and when live rules are as requested. No state.
`ShareCommands` | create-share, modify-share of quota and NFS rules, delete-share, list-shares `--permissions`, on one folder others edit. Extends `AclRules`, `NfsRules`, `Paging`.
`DirCommands` | add-dir, rm-dir, list-dirs on one share whose children others change. Extends `Paging`.
`ConfigImport` | config-import commands on one file, down to fsync and rename. Extends `ShareData`.
`MCApplyConfig`, `MCAclModify`, `MCConfigImport`, `MCShareCommands`, `MCDirCommands` | Values for the model checker.
`ApplyTypeProofs`, `ApplyReportProofs`, `ApplyEffectProofs`, `AclModifyProofs`, `PagingProofs`, `ShareProofs`, `DirProofs`, `ImportProofs` | Theorems.

Operators marked "Mutant" are plausible mistakes next to the definition they
would replace. No specification uses them; they show that each property notices
at least one.

### ApplyConfig and the code

`pc` follows `build_apply_plan` (apply_config.py:194) in its order: `List`, then
for each name `SkipShare`, `PlanNewShare`, `RejectVolume` or the three readings of
`read_apply_details` (`ReadState`, `ReadAcl`, `ReadNfs`) and one `ReadDir` per managed
child; then `PreflightCreate`, `LookupPrincipals`, `Build`. Operations live in fixed
slots per share (main, ACL, NFS, one per child), whose order is that of the code;
`InPlan` is `_create_operations`, `_existing_operations` and
`_directory_operations`. `inv`, `seen`, `pre` are the code's `inventory`, `existing`,
`directory_preflights`. Every client that is made logs in, also for the children
of a share that does not exist yet (`MakesClient`); an answer to it that makes no
sense is exit 10 instead of 20, 30 or 40.

`execute_apply_plan` (317) is `StartOp`, `FinishPlan` and, per family, a path of
`stage`s, one per remote call: for example scalars are `scalarRead`, `scalarSet`,
`scalarInner` (the client's read-back), `scalarVerify` (the read-back of
apply-config). A write that is answered chooses from `Effects`, the shares the NAS
may hold afterwards; `WriteRefused` is the refusal when there is none; `WriteLost` is
a failed call or lost answer, after which any of `Possible` may be true. `Fail` is the
exception path: this operation FAILED or UNKNOWN, the remaining ones SKIPPED,
exit 60. `Abort` is `ScalarUpdatePreflightError`, which `execute_apply_plan`
re-raises (323). `Edit` is somebody else replacing, creating or deleting a share;
`Kill`, `KillInWrite` the end of the process; `Rerun` the next command.

Abstractions: names are integers so that "sorted" is their order; a set of
permissions goes out in one step here (`AclModify` has the four calls, and the
partial results are in `AclPartly`); a page-wise directory listing is one read.
Deletion of a share is not read back, as in the code, and `state: absent` names no
volume, as in the code.

### AclModify and the code

`_modify_permissions` (shares.py:550) for modify-share and apply-config. `mode` tells
the three callers apart: a replacement, a clearing (one empty value), and
apply-config's with authority over the administrators. `ReadCategory` is one
`get_folder_permissions`; `RejectUnknown`, `NothingToDo`, `StartWriting` the decision
(exit 41, all steps skipped, or `_permission_deltas`); `SkipCategory`/`SetCategory` the
four set calls, which patch; `ReadBack`, `ReadCategory`, `Verify` the verification.
`Revocable` is the code of `_permission_deltas` (1922), `Tolerated` that of
`_compare_modify_permissions` (2219): two functions that have to agree.
`Inventory` holds the identities the NAS lists; those it does not know exit 41.

### ShareCommands and the code

One command (`job`) on one folder. `pc` is the next remote call; `Start` is validation
and the local plan (exit 10, 11). `Create`, `Grant`, `Check` are `create_share`
(shares.py:261) with `_apply_permissions` and `_verify_permissions`, four calls each, also
for a category that names nobody; `Precheck`, `LoadBefore`, `Save`, `Load` the NFS family,
alone (693) or of a new share; `ReadScalars`, `ReadBin`, `SetQuota` are `_modify_quota` (404),
whose `_read_mutable_share_state` may need a second call for the recycle bin (`part` is
what the first has told); `Delete` is `delete_share`, without a look before or after, as
in the code; `ListShares`, `OpenApis`, `ReadRows`, `ReadRules` are `list_share_details` (1026),
whose categories are read page by page (`at`, `offset`) and dropped when they cannot be
read to the end. The `Fail...` actions are the exception paths, one per way the code
ends: mapped to the code of the cause (`FailEarly`), partial (`FailPermissions`, `FailNfs`,
`FailVerifyQuota`), both (`FailSetQuota`), not mapped at all (`FailApis`), or noted and passed over
(`FailRows`, `FailRules`). `Trouble` is what they share: a refusal, or a fault after which the
NAS may have done any of `Possible`, for a grant any part of it.

A set request carries every field as it was read (`ScalarsSet`), so an edit since is
undone; a new folder may come without the description or quota asked for, since
nothing of them is looked at (`Created`). In `NfsRules` a client is taken apart into
form, version, bits, prefix and spelling; `Identity` is the triple `normalize_nfs_client`
compares, `Canonical` the text it writes. Live rules have a `copy` number, by which a set
of them can hold the same rule twice, as the NAS can; nothing in the code looks at it
(`AsText`), only the number of rules gives the second away.

### DirCommands and the code

`phase` says what the calls are for: to look, to look again (a second client, which
logs in anew), to verify. `ReadFolder` is `get_folder`, which names the volume;
`ReadMapping` is `_virtual_share` (subshares.py:683), which needs File Station to list the share
on that volume; `ReadPage` one turn of `_list_children` (743), with the total that must not
change between pages; `ReadInside` the listing of the target that must be empty;
`Change` is `create_folder` or the deletion, on wherever the virtual path is by then;
`ReadInfo` is `_file_info_path` and the comparison of the real path. `Looked`, `Verified` and
`ListingFails` are what the code does at the end of a listing, by phase. The listing of
shares in `_virtual_share` is one step, and of the target's children only whether
there are any matters.

### ConfigImport and the code

`Load` and `Validate` are the two readings of the file in
`load_config_import_document` (the second gives the host, but a document without volumes
is not read again: `Validated`), `ListShares` and three
readings fetch the share, `ShowDiff`/`WriteTemp` merge, `SyncTemp`, `Replace`,
`SyncDirectory` are `atomic_write`. `text` is what was loaded and is not looked at
again. A file is its host, the entries per volume in order, and whether its text is
what the serializer would write (`tidy`), which decides no-change. `onDisk` is the
set of documents a power failure may leave at the path: a rename that is not
flushed may or may not survive, content that is not flushed does not. `EditFile` is
an edit somebody saves safely, and may fall between any two steps.

## 3. Runs

Bounds: `MaxFaults` and `MaxEdits` are budgets for the whole behaviour, reruns
included. Commands repeat without bound.

Run | Question | Instance
--- | --- | ---
`apply_faults` | With faults, an edit and reruns: is the report true, is a clean exit 0 convergence, does the next plan hold only what is left, do runs end, do reruns converge? | 2 shares with 2 children each, 6 documents over all families, 19 starting states, 2 faults, 1 edit
`apply_races` | With edits: what still holds? Do operations run serially? | 3 documents, 2 starts, 2 edits out of 4 shares or a deletion, 1 fault
`acl_alone` | One replacement in each mode; safety and liveness | 5 identities over 3 categories, 4 requests, 3 starts, 1 edit of one grant, 2 faults
`acl_together` | Two replacements interleaved: does exit 0 mean something, and is each still a run of the serial plan? | 3 requests each, 1 fault
`import_files` | Two imports of one file | 2 hosts, 2 shares, 3 files, 8 kinds of live shares, 1 edit, 2 faults; symmetric commands
`share_commands` | Every other command on a folder; safety and liveness | 15 requests, 7 folders, 5 identities in pages of 2, 7 NFS clients of 4 bits, 2 edits, 1 fault
`dir_commands` | The commands on directories; safety and liveness | 9 requests, 5 starts, 3 names in pages of 2, 2 volumes, 3 edits, 1 fault
`apply_report_lost`, `apply_external_quota`, `apply_stale_description`, `import_lost_update`, `share_quota_unknown` | Statements of the documentation that the code does not keep (section 6) | the smallest instance each

What they show, in words:

* `ReportMatchesWork`, `EarlyExitWroteNothing`: the report of apply-config names one
  operation to blame, everything before it succeeded, everything after it was
  skipped; what it disowns was not sent; an exit before execution wrote nothing.
* `CleanMeansConverged`, `RerunResumes`: exit 0 with nobody interfering means every
  entry of the document holds, and the next plan is empty. After any other end the next plan has
  only what is left: no operation is planned, or still pending, whose goal holds already. `SucceededHolds` says
  the first per operation: a later operation, in particular the scalar update that
  rewrites the whole share, does not undo an earlier one.
* `UntouchedOutside`, `NoChildrenLost`, `AdministratorsKept`: with edits at any point,
  apply-config never touches a share or child the document does not list, never
  deletes a file or a nonempty directory, never takes away the administrators'
  read-write grant. `QuietRunKeepsFields` holds only while nobody edits, and
  `apply_stale_description` shows why.
* `SuccessIsReal`: exit 0 of a replacement of permissions means the folder matches,
  unless somebody has changed it since the last reading began; a call that failed, or set what
  was there, is no excuse. `acl_together` checks it where clients disturb each other.
  `UndisturbedRunSucceeds`: alone, without faults, it ends with 60 only when the
  request is unattainable (the administrators group without its `is_admin` flag,
  which a replacement neither revokes nor accepts).
* `PartialReportIsTrue`, `EarlyExitSentNothing`, `AdministratorsPreserved`: the same
  discipline, category by category and client by client.
* `ImplementsSerialPlan`, `ReplacesSerially`: operations of apply-config, and categories of a
  replacement, are carried out one at a time in their order; nothing is sent for one before the
  one before is done, nothing after a failure; what is reported is what happened.
* `FileIsWhole`, `EndedImportSurvives`: kills and power failures leave a complete
  document, and do not take back a finished import whose directory was flushed.
  `ExitTellsWrite`: 0/imported with `--yes` if and only if the file was replaced.
  `OnlyTargetChanges`: over a file nobody else has changed, other entries, their order,
  the host and the target's directories stay. `ImportSettles`: what was imported
  parses, converts back to the same quota, and gives apply-config nothing to
  do; importing again changes nothing. Where the directory could not be flushed (a second
  fault after the first) this holds until the power fails.
* `ShareCommands!SuccessIsReal`: exit 0 means the grants, rules or quota asked for are
  there, the folder is gone, or the listing shows every grant, unless somebody has
  edited the folder since the last reading began; and a page-wise listing shows
  everybody exactly once as long as no account comes or goes.
  `ReportIsTrue`: no code that means "nothing sent" follows a write, and a partial result
  names one step, after which nothing was sent. `CalmRunsSucceed`: undisturbed and
  answered, a command fails only for a reason in the request or the folder; one of
  them is a grant beyond the first page. `OneFamilyChanges`: undisturbed, whatever fails,
  nothing but the family asked for changes, although the whole share is sent.
* `DirCommands!RemovesWhatItShowed`: with children renamed and replaced, the share
  moved or made anew at any point, a step touches the target alone, never a file or a
  nonempty directory, and removes it on the volume the plan named unless the share
  moves after the second look. `ExitTellsWork`: 10, 20 and 40 mean the share was not
  changed; a change behind 30 is one whose answer was lost, behind 70 a directory
  add-dir could not read back.
* `Terminates`, `RerunsConverge`: below.

Why the bounds are enough. Two shares are the smallest number with an order, a
"first failure" with something before and after it, and a share outside the document.
Two children separate managed from unmanaged and give the directory loop a
second turn. One fault interrupts any step; the second hits the rerun that repairs
the first. One edit can fall at any point; the second covers delete-and-create-again
between the inventory and the operation. Three categories in use with an empty
fourth make set calls happen, be skipped, and fail in the middle. A GiB of 4 MiB and
a limit of 11 MiB put aligned, unaligned, largest and too large quotas within 12.
Three users in pages of two give a listing a second page, a user who comes in front
of it and one who goes; three names do the same for directories, where a rename keeps
the total. Four address bits hold an address, its one-address network, a network around
it, one with stray host bits, and another spelling.

Deadlock is checked except in the runs of `ConfigImport`, `ShareCommands` and `DirCommands`,
whose commands end for good.

### Fairness

`FairSpec` assumes weak fairness of the client's steps: a call returns or
raises, and the process goes on; in `ShareCommands` and `DirCommands` it is part of `Spec`,
of the steps of the command that spend no fault (`GoOn`): a loop must end by itself, not because
one of its calls fails at last. No fairness is assumed of faults or edits, and
their budgets are finite: "once faults and edits have stopped". `PersistentSpec`
adds weak fairness of `Rerun`, an operator who runs the command again after each
end; only `RerunsConverge` needs it (`Terminates` does not, but is checked in the
same run). `RerunsConverge` excepts what no repetition can cure: a plan that refuses
(exit 10, 40, 41 without a write), an unattainable request.

## 4. Proofs

TLAPS proves these for every value of the constants that meets the named
assumptions (`SizeAssumption`, `DocumentAssumption`, ... in the modules that declare
the constants: types of the data, `Documents \subseteq Document` and so on). No
bound of section 3 is used.

* `ApplyTypeProofs!TypeCorrect`: `TypeOK` of `ApplyConfig`. `TypeOK` is not inductive:
  a directory operation indexes the children by its slot, and a planned share must
  be one of the document's. `TypeInv` adds that the share being read
  is one of the document's, that a running operation is one of the plan's, and that
  a directory stage belongs to a directory operation.
* `ApplyReportProofs!ReportCorrect`, `EarlyExitCorrect`: from `ReportInv`, three parts
  along the phases. `PlanningInv`: nothing has a status or was sent. `ExecutionInv`: what
  has run succeeded and precedes what has not, the current operation is the first
  planned one, only these have sent. `OutcomeInv`: what the report says at the end. The
  middle part is the one needed: when an operation fails, "everything before it
  succeeded" follows only from the order kept so far. That the order is total
  is the lemma `BeforeOrder`.
* `ApplyReportProofs!SerialRefinement`: `Spec => ImplementsSerialPlan`. The mapping reads
  the phase from `pc` and the verdict from the exit code; each step of ApplyConfig is
  a step of SerialPlan or a stutter, using `ReportInv` to see that what sends is
  the first pending operation. The report of a killed run is lost with it.
* `ApplyReportProofs!ApplyWorkIsBounded`: `StepsLeft` counts what a run can still do, from the
  stage it is in, the operations that are not done and the shares and children not yet
  looked at. Every step of the client, also one that fails, makes it smaller, an edit leaves it, and it is zero
  exactly at the end. It is the safety part of `Terminates`: a run that does not end is one whose
  client stands still, which is what fairness excludes.
* `ApplyEffectProofs!UntouchedOutsideCorrect`, `NoChildrenLostCorrect`, `AdministratorsKeptCorrect`:
  what no step of apply-config does to the NAS, whatever others edit and whatever fails. They
  need `NeedInv`: an operation runs only where the document asks for its effect.
* `ApplyEffectProofs!SucceededHoldsCorrect`, `CleanMeansConvergedCorrect`, `RerunResumesCorrect`,
  `QuietRunKeepsFieldsCorrect`: convergence, under one hypothesis that is named in the theorems,
  `NoExternalQuotas` (no share outside the canonical volumes has a quota). Without it they are false:
  finding 2 is the counterexample, and the passing runs meet it. The invariant follows a run that nobody
  disturbs. `CalmPlanInv`: the plan is built from what the NAS holds. `StageInv`, `CursorInv`: which
  calls an operation makes, and how far planning has come. `MeterInv`: shares without quotas stay
  without. `HoldsInv`: every operation that is done holds, and what the plan left out held already. A
  later operation leaves it so because each writes fields of its own (`WriteFields`, `SlotKept`), the
  scalar update too, although it sends the whole share. `DescInv` adds the omitted descriptions, and
  `CleanInv` turns `HoldsInv` at the end into what the next plan will read. `WorkIsNeeded`, the converse of
  `HoldsInv` for what is still to come, is inductive with the others: `PlannedIsNeeded` for the plan that is
  built, and no write on a share brings about what another operation is for, but for a share that is made first.
* `AclModifyProofs!DeltaSuffices`: for every attainable request and all permissions,
  patching what `Delta` names gives something `Matches` accepts. It is the agreement of
  the two functions of the code, proved from their definitions alone.
* `AclModifyProofs!SuccessIsRealCorrect`, `EarlyExitCorrect`, `PartialReportCorrect`,
  `AdministratorsPreservedCorrect`, for any number of clients. The invariant `Inv` holds client by
  client: `CurrentInv` (what was read is what there is, as long as nobody else
  wrote; without it the verdict says nothing about the folder), `WritingInv` and
  `VerifyingInv` (categories behind the client are handled, those ahead untried, and
  the changes it carries are ones its mode allows), `EndedInv` (the properties). A step of one
  client keeps the part of another because every write that changes anything ends the others' quiet
  (`OthersKept`).
* `AclModifyProofs!UndisturbedRunCorrect`: alone and answered, a replacement fails only where
  `Attainable` does. `OnCourse` says that what is set is in place and what is still to be set is
  what is missing; `DeltaSuffices` does the rest.
* `AclModifyProofs!AclSerialRefinement`: `Spec => ReplacesSerially`, for any one client among any number. The
  operations are the four categories and the read-back. A category that needs nothing is done with, and one
  that fails leaves the later ones skipped, which the code's report does not list. The
  mapping reads the verdict from the exit code; that exit 60 comes only after a plan, and 0 with
  the read-back reported only after one that was carried out, is from `WritingInv`, `VerifyingInv`
  and `EndedInv`.
* `AclModifyProofs!NothingIsUndone`, `RerunCompletes`: the safety part of `RerunsConverge`. What the folder
  lacks for a request never grows by a step of the client that has it, and what is computed anew after an
  interruption is the rest of what was computed before. Only other writers can keep a replacement from
  getting there.
* `AclModifyProofs!AclWorkIsBounded`, `ShareProofs!ShareWorkIsBounded`, `DirProofs!DirWorkIsBounded`: the safety part of
  `Terminates` for the other commands. In the two with listings every page but the last moves the offset
  forward, and never beyond the names there can be, however many rows others add. The steps of an
  import are a straight line.
* `PagingProofs!PageExtends`, `BeforeEnds`: a listing that holds still is handed out whole, without
  repetition, for any page size. Positions are a bijection from the rows to 1..n (injective since the
  rank orders them, onto by the pigeonhole facts of the library), so a page is an interval of them and what
  was read is the interval from 1; no induction is needed.
* `ShareProofs!ShareReportIsTrue`: `ReportIsTrue` of `ShareCommands`. The invariant says
  what each call is for (`KindInv`), what was sent by the time it is made (`SentInv`) and
  that a command that still runs has no trouble to report (`GoingInv`). The lemmas
  `GoesOn`, `Ends` and `EndsPartial` are the three ways a step can come out; every action
  is shown to be one of them.
* `ShareProofs!ShareOneFamilyChanges`: `OneFamilyChanges`. It needs `CalmInv`: what was
  read for a quota request, also by two calls, is what the NAS has as long as nobody
  has edited the folder. Only then is the whole folder sent back the quota alone.
* `ShareProofs!MatchGrantsExactly`: an accepted request and live rules that match by text and
  number (`RulesMatch`) agree client by client (`GrantsExactly`, the part of `SuccessIsReal`
  about NFS). Requests that name a client once give as many texts as rules; the
  live rules are as many, so no two share a text, by the pigeonhole facts of the
  library. Without the count the implication would be false.
* `ShareProofs!ShareTypeCorrect`, `ShareSuccessIsReal`: `ListInv` (while no account comes or goes, who is
  listed is who is on the pages read, category by category), `GrantsInv` (and with the grants there are,
  while nobody edits), `CheckedInv` (the grants of the categories checked are there), `PartInv` (what the first
  of two calls has told still holds at the second), `QuietInv`. Where rules were compared
  `MatchGrantsExactly` says what they grant.
* `ShareProofs!ShareCalmRunsSucceed`: `AloneInv`, as long as nobody edits and nothing fails: the folder
  stays, what was set is there until it is read back, and no listing is cut short. So a refusal has
  its reason in the folder as found, and a read-back fails only for a grant beyond the first page.
* `DirProofs!DirExitTellsWork`, `DirRemovesWhatItShowed`: for any page size and number of
  children. `ProgressInv` (before the change nothing was sent or reported, after it the
  report has it), `CallInv` (a deletion follows two looks that agree) and `HomeInv`
  (`get_folder`'s volume holds until the share moves). The last two together say
  why the path deleted by is the one that was shown.
* `DirProofs!DirTypeCorrect`, `DirSuccessIsReal`, `DirCalmRunsSucceed`: `RangeInv`, `ListInv` (what was listed
  is what comes before the offset, while no child comes, goes or is renamed; as it is, while nobody
  edits) and `CalmInv`.
* `ImportProofs!ImportFileIsWhole`, `ImportExitTellsWrite`, `ImportSurvives`, for any number of imports:
  `WholeInv` (what the path may name after a power failure has been flushed, and so has what is about to replace it), `WrittenInv` (how
  far a command is tells whether it has replaced the file) and `DurableInv` (once the directory is flushed and
  nobody has written since, the disk can only hold the file as it is).
* `ImportProofs!ImportTypeCorrect`, `ImportSettlesCorrect`, `ImportOnlyTargetChanges`, by `FullInv`: `MergeInv` (what is about
  to be written has been accepted by the parser), `FileInv` (as long as nobody else replaces the file it is what
  was loaded, then what was made of it) and `NasInv` (as long as nobody edits the NAS, what was read in three
  calls is the share as it is). They rest on what the merge does to a document of any
  length: `MergeIdempotent` and `ImportedShareIsSettled`, and the lemmas before them about `Without`, the
  entries of other shares in their order. `Without` is stated by positions, since nothing can be proved of the library's
  recursive `SelectSeq`; `WithoutAssumption` in `MCConfigImport` lets TLC compare the two.

These theorems also assume that the names in play (`Ids`, `Names`) and the NFS rules of a folder are
finite: cardinalities, and so counting pages and rules, mean nothing otherwise.

Only model-checked: liveness under fairness (`Terminates`, `RerunsConverge`), which is beyond the
prover; its safety parts are the theorems on bounded work and on reruns above. Every other property of the
passing runs is a theorem.

## 5. Not modelled

* Output rendering, logging and redaction, argument parsing and credentials:
  no state. Exit 50 (the result cannot be written after the work is done) is left out,
  so statements about exit codes are about commands whose output could be written.
* The text of documents: YAML, comments, duplicate keys; `tidy` stands for formatting.
  The import's checks of file kind, symbolic links and mode.
* Paging in `AclModify` and `ApplyConfig`, where a category or a directory is one read, and
  of the listing of shares; versions and capabilities of the API beyond the quota.
* Visibility, compression and copy-on-write, which every command carries along as it
  does the description; the plain list-shares and the lookup of principals by
  themselves, which only read.

## 6. Where documentation and code disagree

1. `apply_report_lost`: a scalar operation whose own preflight fails (the share is
   gone, or lost its quota capability) ends the command with 40 and no list of
   operations after earlier operations have changed the NAS (apply_config.py:323);
   README.md:437-438 promises 60 and operations to inspect.
2. `apply_external_quota`: on a noncanonical volume that does report a finite quota, an
   omitted quota is planned as unlimited (553-555) but neither requested nor verified
   (422-438): exit 0, quota unchanged, planned again forever. README.md:436-437 says
   changed families are verified by read-back. The converging runs therefore give
   shares on external volumes no quota.
3. `apply_stale_description`: an omitted description is sent as it was when the plan was
   built (231-235), over an edit made since; README.md:394-395 says it is preserved.
4. `import_lost_update`: two imports of different shares into one file both report success,
   and the second to write takes back the first (config_import.py:137);
   README.md:349-350 says the merge preserves the other shares.

5. `share_quota_unknown`: a lost connection during the set request of modify-share `--quota`
   is an exception of the library and ends with 40 and no result (shares.py:515-528),
   although `_quota_failure_status` counts it as unknown; README.md:320-322 promises 60 and
   an outcome marked unknown.

Noticed in passing, modelled as the code has it, without a run of their own:

* The same exception during rm-dir's deletion or add-dir's creation ends with 30
  (subshares.py:312-320, 512-520); README.md:167-168 says an uncertain deletion exits 60.
* After add-dir has made the directory, a library or transport error of the read-back
  is not caught: exit 70, no result (560-575). The first looks of rm-dir map nothing
  either: a lost connection or a rejected request is 70, not 30 or 40.
* `list-shares --permissions` makes two more clients outside any mapping (1028-1029): a
  rejected login there is 70, not 20.
* create-share verifies permissions as a subset of the first page of the listing, so
  that on a NAS with many accounts grants that were set are reported as failed.
* A lost answer to create-share or delete-share ends with 30 or 40 like a failure before it.
* The import reads a file with volumes twice, so an edit in between can pair the host of one version
  with the document of the other; and since an imported entry moves to the end of its
  volume, importing two shares in turn rewrites the file although nothing changed.

## 7. Plan

Done: apply-config with its abstract plan, its convergence and its effects; the replacement of permissions,
which implements the same abstract plan; the commands on shares and on directories; the import. Every safety
property of the passing runs is a theorem, and so is the bound on the work of every command that loops.
Left, in this order:

1. The remaining refinements: `ShareCommands` and `DirCommands` against an abstract specification of one verified write
   (look, write, read back, report).
2. Reruns of a partial create-share and of add-dir and rm-dir, which the documentation leaves to the
   operator: which of them a second command can repair.
