----------------------------- MODULE AclModify -----------------------------
(***************************************************************************)
(* _modify_permissions of src/synology/shares.py, the replacement of the   *)
(* permissions of one shared folder: by modify-share, or by an operation   *)
(* of apply-config.                                                        *)
(*                                                                         *)
(* Several clients may work on the folder at once, and administrators edit *)
(* it by other means.  A client reads the four categories one after the    *)
(* other, computes what to change, sets the categories that need it one    *)
(* after the other, and reads all four again.  A step of a client is one   *)
(* call, or the decision between two.                                      *)
(***************************************************************************)
EXTENDS AclRules

CONSTANTS
    Clients,    \* the processes that replace permissions
    Requests,   \* what they may be asked for
    StartAcls,  \* the permissions the folder may start with
    MaxEdits,   \* bound: edits by other means
    MaxFaults   \* bound: failed calls, lost answers, kills

ASSUME RequestAssumption ==
    /\ Requests \subseteq Request
    /\ \A req \in Requests : WellFormed(req)
ASSUME AclAssumption == StartAcls \subseteq Acls
ASSUME BoundsAssumption == MaxEdits \in Nat /\ MaxFaults \in Nat

VARIABLES
    acl,     \* the permissions of the folder
    req,     \* the request of every client, fixed
    pc,      \* "read", "set", "verify" or "done"
    at,      \* the category a client has reached
    seen,    \* the active permissions it has read
    delta,   \* the entries its set calls name
    report,  \* the status of every step: four categories and the read-back
    exit,    \* exit code
    wrote,   \* ghost: entries it has sent in this run
    quiet,   \* ghost: nobody else has written since it began to read
    edits, faults  \* budgets spent

clientVars == <<pc, at, seen, delta, report, exit>>
ghosts == <<wrote, quiet>>
vars == <<acl, req, clientVars, ghosts, edits, faults>>

Running == -1
Killed == -2
VerifyStep == 5
Steps == Categories \cup {VerifyStep}
Past == 5     \* at, when the four categories are through
Statuses == {"none", "SUCCEEDED", "SKIPPED", "FAILED", "UNKNOWN"}
NoSteps == [s \in Steps |-> "none"]
Nothing == [i \in Ids |-> "none"]

\* Mutant: the loop over the categories does not end.
InAnyway(c, phase) == pc[c] = phase
In(c, phase) == pc[c] = phase /\ at[c] # Past
Through(c, phase) == pc[c] = phase /\ at[c] = Past
NextCategory(c) == at' = [at EXCEPT ![c] = @ + 1]
Stop(c, code) ==
    pc' = [pc EXCEPT ![c] = "done"] /\ exit' = [exit EXCEPT ![c] = code]
Step(c, step, status) == report' = [report EXCEPT ![c][step] = status]

\* The entries of the current category that its call names.
Due(c) == {i \in delta[c] : Category[i] = at[c]}

\* A write of client c; when it changes something the others have been
\* disturbed.
Written(c, done) ==
    /\ acl' = Patched(req[c], acl, done)
    /\ wrote' = [wrote EXCEPT ![c] = @ \cup done]
    /\ quiet' = [d \in Clients |-> quiet[d] /\ (d = c \/ acl' = acl)]

Init ==
    /\ acl \in StartAcls
    /\ req \in [Clients -> Requests]
    /\ pc = [c \in Clients |-> "read"] /\ at = [c \in Clients |-> LocalUser]
    /\ seen = [c \in Clients |-> Nothing] /\ delta = [c \in Clients |-> {}]
    /\ report = [c \in Clients |-> NoSteps]
    /\ exit = [c \in Clients |-> Running]
    /\ wrote = [c \in Clients |-> {}] /\ quiet = [c \in Clients |-> TRUE]
    /\ edits = 0 /\ faults = 0

----------------------------------------------------------------------------
(* The steps of a client.                                                  *)

ReadCategory(c) ==
    /\ In(c, "read") \/ In(c, "verify")
    /\ seen' = [seen EXCEPT ![c] =
          [i \in Ids |-> IF Category[i] = at[c] THEN acl[i] ELSE @[i]]]
    /\ NextCategory(c)
    /\ UNCHANGED <<acl, req, pc, delta, report, exit, ghosts, edits, faults>>

\* Somebody the request names is not in the inventory.
RejectUnknown(c) ==
    /\ Through(c, "read")
    /\ ~ Asked(req[c]) \subseteq Inventory
    /\ Stop(c, 41)
    /\ UNCHANGED <<acl, req, at, seen, delta, report, ghosts, edits, faults>>

NothingToDo(c) ==
    /\ Through(c, "read")
    /\ Asked(req[c]) \subseteq Inventory
    /\ Matches(req[c], seen[c])
    /\ report' = [report EXCEPT ![c] =
          [s \in Steps |-> IF s \in Categories THEN "SKIPPED" ELSE "none"]]
    /\ Stop(c, 0)
    /\ UNCHANGED <<acl, req, at, seen, delta, ghosts, edits, faults>>

StartWriting(c) ==
    /\ Through(c, "read")
    /\ Asked(req[c]) \subseteq Inventory
    /\ ~ Matches(req[c], seen[c])
    /\ delta' = [delta EXCEPT ![c] = Delta(req[c], seen[c])]
    /\ pc' = [pc EXCEPT ![c] = "set"] /\ at' = [at EXCEPT ![c] = LocalUser]
    /\ UNCHANGED <<acl, req, seen, report, exit, ghosts, edits, faults>>

SkipCategory(c) ==
    /\ In(c, "set") /\ Due(c) = {}
    /\ Step(c, at[c], "SKIPPED")
    /\ NextCategory(c)
    /\ UNCHANGED <<acl, req, pc, seen, delta, exit, ghosts, edits, faults>>

SetCategory(c) ==
    /\ In(c, "set") /\ Due(c) # {}
    /\ Written(c, Due(c))
    /\ Step(c, at[c], "SUCCEEDED")
    /\ NextCategory(c)
    /\ UNCHANGED <<req, pc, seen, delta, exit, edits, faults>>

\* Mutants: the next category is set although one has failed; a call that
\* fails leaves no step in the result.
SetFailsAndGoesOn(c) ==
    /\ In(c, "set") /\ Due(c) # {}
    /\ faults < MaxFaults /\ faults' = faults + 1
    /\ \E done \in SUBSET Due(c) : Written(c, done)
    /\ \E how \in {"FAILED", "UNKNOWN"} : Step(c, at[c], how)
    /\ NextCategory(c)
    /\ UNCHANGED <<req, pc, seen, delta, exit, edits>>
SetFailsSilently(c) ==
    /\ In(c, "set") /\ Due(c) # {}
    /\ faults < MaxFaults /\ faults' = faults + 1
    /\ \E done \in SUBSET Due(c) : Written(c, done)
    /\ Stop(c, 60)
    /\ UNCHANGED <<req, at, seen, delta, report, edits>>

\* The call fails or its answer is lost: some of it may have been done.
SetFails(c) ==
    /\ In(c, "set") /\ Due(c) # {}
    /\ faults < MaxFaults /\ faults' = faults + 1
    /\ \E done \in SUBSET Due(c) : Written(c, done)
    /\ \E how \in {"FAILED", "UNKNOWN"} : Step(c, at[c], how)
    /\ Stop(c, 60)
    /\ UNCHANGED <<req, at, seen, delta, edits>>

ReadBack(c) ==
    /\ Through(c, "set")
    /\ pc' = [pc EXCEPT ![c] = "verify"] /\ at' = [at EXCEPT ![c] = LocalUser]
    /\ quiet' = [quiet EXCEPT ![c] = TRUE]
    /\ UNCHANGED <<acl, req, seen, delta, report, exit, wrote, edits, faults>>

\* Mutants: the read-back looks for what was asked and no further, as
\* create-share does; it is repeated until it agrees.
VerifyAsked(c) ==
    /\ Through(c, "verify")
    /\ IF \A i \in Asked(req[c]) : seen[c][i] = req[c].want[i]
       THEN Step(c, VerifyStep, "SUCCEEDED") /\ Stop(c, 0)
       ELSE Step(c, VerifyStep, "FAILED") /\ Stop(c, 60)
    /\ UNCHANGED <<acl, req, at, seen, delta, ghosts, edits, faults>>
VerifyInTheEnd(c) ==
    /\ Through(c, "verify")
    /\ IF Matches(req[c], seen[c])
       THEN Step(c, VerifyStep, "SUCCEEDED") /\ Stop(c, 0) /\ UNCHANGED at
       ELSE at' = [at EXCEPT ![c] = LocalUser] /\ UNCHANGED <<pc, report, exit>>
    /\ UNCHANGED <<acl, req, seen, delta, ghosts, edits, faults>>

Verify(c) ==
    /\ Through(c, "verify")
    /\ IF Matches(req[c], seen[c])
       THEN Step(c, VerifyStep, "SUCCEEDED") /\ Stop(c, 0)
       ELSE Step(c, VerifyStep, "FAILED") /\ Stop(c, 60)
    /\ UNCHANGED <<acl, req, at, seen, delta, ghosts, edits, faults>>

Client(c) ==
    \/ ReadCategory(c) \/ RejectUnknown(c) \/ NothingToDo(c) \/ StartWriting(c)
    \/ SkipCategory(c) \/ SetCategory(c) \/ ReadBack(c) \/ Verify(c)

----------------------------------------------------------------------------
(* What goes wrong around it.                                              *)

\* Mutant: the read-back fails as the first reading does.
ReadFailsAlike(c) ==
    /\ In(c, "read") \/ In(c, "verify")
    /\ faults < MaxFaults /\ faults' = faults + 1
    /\ \E code \in {20, 30, 40} : Stop(c, code)
    /\ UNCHANGED <<acl, req, at, seen, delta, report, ghosts, edits>>

\* Before the first write a failed read ends the command with the code of
\* its cause.
ReadFails(c) ==
    /\ In(c, "read")
    /\ faults < MaxFaults /\ faults' = faults + 1
    /\ \E code \in {20, 30, 40} : Stop(c, code)
    /\ UNCHANGED <<acl, req, at, seen, delta, report, ghosts, edits>>

ReadBackFails(c) ==
    /\ In(c, "verify")
    /\ faults < MaxFaults /\ faults' = faults + 1
    /\ \E how \in {"FAILED", "UNKNOWN"} : Step(c, VerifyStep, how)
    /\ Stop(c, 60)
    /\ UNCHANGED <<acl, req, at, seen, delta, ghosts, edits>>

\* Killed between two calls, or while one is being answered.
Kill(c) ==
    /\ pc[c] # "done"
    /\ faults < MaxFaults /\ faults' = faults + 1
    /\ \/ UNCHANGED <<acl, wrote, quiet>>
       \/ In(c, "set") /\ \E done \in (SUBSET Due(c)) \ {{}} : Written(c, done)
    /\ Stop(c, Killed)
    /\ UNCHANGED <<req, at, seen, delta, report, edits>>

Fault(c) == SetFails(c) \/ ReadFails(c) \/ ReadBackFails(c) \/ Kill(c)

\* Somebody else grants, changes or revokes one entry.
Edit ==
    /\ edits < MaxEdits /\ edits' = edits + 1
    /\ \E i \in Inventory, a \in Access :
          a # acl[i] /\ acl' = [acl EXCEPT ![i] = a]
    /\ quiet' = [c \in Clients |-> FALSE]
    /\ UNCHANGED <<req, clientVars, wrote, faults>>

\* The command is run again.
Rerun(c) ==
    /\ pc[c] = "done"
    /\ pc' = [pc EXCEPT ![c] = "read"] /\ at' = [at EXCEPT ![c] = LocalUser]
    /\ seen' = [seen EXCEPT ![c] = Nothing]
    /\ delta' = [delta EXCEPT ![c] = {}]
    /\ report' = [report EXCEPT ![c] = NoSteps]
    /\ exit' = [exit EXCEPT ![c] = Running]
    /\ wrote' = [wrote EXCEPT ![c] = {}]
    /\ quiet' = [quiet EXCEPT ![c] = TRUE]
    /\ UNCHANGED <<acl, req, edits, faults>>

Next ==
    \/ \E c \in Clients : Client(c) \/ Fault(c) \/ Rerun(c)
    \/ Edit

Spec == Init /\ [][Next]_vars

\* A call returns or raises, so a client goes on until it ends.
FairSpec == Spec /\ \A c \in Clients : WF_vars(Client(c))

\* Somebody runs the command again each time it has ended.
PersistentSpec == FairSpec /\ \A c \in Clients : WF_vars(Rerun(c))

----------------------------------------------------------------------------
(* Properties.                                                             *)

\* Every variable has its type.
TypeOK ==
    /\ acl \in Acls
    /\ req \in [Clients -> Requests]
    /\ pc \in [Clients -> {"read", "set", "verify", "done"}]
    /\ at \in [Clients -> Categories \cup {Past}]
    /\ seen \in [Clients -> Acls]
    /\ delta \in [Clients -> SUBSET Ids]
    /\ report \in [Clients -> [Steps -> Statuses]]
    /\ exit \in [Clients -> {0, 20, 30, 40, 41, 60, Running, Killed}]
    /\ wrote \in [Clients -> SUBSET Ids]
    /\ quiet \in [Clients -> BOOLEAN]
    /\ edits \in 0..MaxEdits /\ faults \in 0..MaxFaults

\* Exit code 0 means what it says: the permissions are as requested, unless
\* somebody else has written since the client began its last reading.  The
\* reading is not atomic, and the write before it came from another reading.
SuccessIsReal ==
    \A c \in Clients :
        pc[c] = "done" /\ exit[c] = 0 /\ quiet[c] => Matches(req[c], acl)

\* What is sent and what is accepted are computed by two functions that
\* agree: a client nobody disturbed fails its read-back only for the
\* administrators group, which it may neither revoke nor accept.
UndisturbedRunSucceeds ==
    \A c \in Clients :
        /\ pc[c] = "done" /\ exit[c] = 60
        /\ edits = 0 /\ faults = 0 /\ Clients = {c}
        => ~ Attainable(req[c], acl)

\* An exit code below 60 other than 0 means nothing was sent, and so does
\* a report in which all categories are skipped.
EarlyExitSentNothing ==
    \A c \in Clients : pc[c] = "done" =>
        /\ exit[c] \notin {0, 60, Killed} => wrote[c] = {}
        /\ (\A k \in Categories : report[c][k] = "SKIPPED") => wrote[c] = {}

\* The steps of a partial result tell how far the replacement came: one of
\* them failed or is unknown, nothing after it was tried, all categories
\* before it are done or needed nothing, and what it does not own up to was
\* not sent.
PartialReportIsTrue ==
    \A c \in Clients : pc[c] = "done" /\ exit[c] = 60 =>
        \E s \in Steps :
            /\ report[c][s] \in {"FAILED", "UNKNOWN"}
            /\ \A r \in Steps : r > s => report[c][r] = "none"
            /\ \A r \in Steps : r < s =>
                  \/ /\ report[c][r] = "SUCCEEDED"
                     /\ {i \in delta[c] : Category[i] = r} \subseteq wrote[c]
                  \/ report[c][r] = "SKIPPED"
            /\ \A i \in wrote[c] :
                  report[c][Category[i]] \in {"SUCCEEDED", "FAILED", "UNKNOWN"}

\* README of modify-share: local administrator groups are preserved, other
\* administrators too unless everything is cleared.  No client takes an
\* entry away that its request does not name and its mode protects, however
\* the clients interleave.
Protected(r, i) ==
    /\ r.mode # "authoritative" /\ i \notin Asked(r)
    /\ \/ i = Administrators
       \/ i \in AdminFlagged /\ (r.mode = "clear" => Category[i] = LocalGroup)
AdministratorsPreserved ==
    [][edits' = edits =>
        \A i \in Ids : acl'[i] # acl[i] =>
            \E c \in Clients :
                acl'[i] = req[c].want[i] /\ ~ Protected(req[c], i)]_vars

\* Every run of the command ends.
Terminates == \A c \in Clients : pc[c] # "done" ~> pc[c] = "done"

\* A command that is run again after every failure gets what it asks for,
\* unless it names somebody unknown or the administrators stand in its way;
\* a half-made replacement needs no repair by hand.
RerunsConverge ==
    \A c \in Clients :
        Asked(req[c]) \subseteq Inventory
          ~> \/ Matches(req[c], acl)
             \/ ~ Attainable(req[c], acl)
=============================================================================
