--------------------------- MODULE ConfigImport ---------------------------
(***************************************************************************)
(* config-import (src/synology/config_import.py): the live state of one    *)
(* share is merged into a configuration document and, with --yes, the      *)
(* document is replaced on disk.                                           *)
(*                                                                         *)
(* Several commands may work on one file, which people edit meanwhile; the *)
(* NAS changes; calls and file operations fail; processes are killed and   *)
(* the power fails.  The values of a share and the rules by which          *)
(* apply-config compares a document with the NAS are those of ShareData.   *)
(***************************************************************************)
EXTENDS ShareData, Sequences

CONSTANTS
    Imports,     \* the running commands
    Jobs,        \* what they may be asked to do
    Hosts,       \* NAS hosts
    NoHost,      \* a document without host
    QUOTA_MIB_PER_GIB, MAX_QUOTA_API_MIB,
    StartFiles,  \* documents the file may hold at first
    StartLives,  \* live shares the hosts may have at first
    FileEdits,   \* documents people save over it
    LiveEdits,   \* live shares somebody else makes of one
    MaxEdits,    \* bound: edits of the file or of a NAS
    MaxFaults    \* bound: failed calls, failed file operations, kills
                 \* and power failures

MAX_QUOTA_GIB == MAX_QUOTA_API_MIB \div QUOTA_MIB_PER_GIB

\* An entry of a document; quota is in GiB.  What it says about children is
\* kept as it stands.
Node ==
    [name: Shares, state: {"present", "absent"}, desc: Descs \cup {Omitted},
     quota: {Unavailable} \cup Nat, acl: [Accounts -> Access], nfs: NfsRules,
     dirs: [Dirs -> {"unmanaged", "present", "absent"}]]

\* A document: tidy when its text is what the serializer makes of it.
File == [host: Hosts \cup {NoHost}, vols: [Volumes -> Seq(Node)], tidy: BOOLEAN]

Job == [target: Shares, host: Hosts, yes: BOOLEAN]

ASSUME HostAssumption == NoHost \notin Hosts
ASSUME JobAssumption == Jobs \subseteq Job
ASSUME FilesAssumption == StartFiles \cup FileEdits \subseteq File
ASSUME LivesAssumption ==
    StartLives \subseteq [Hosts -> [Shares -> LiveShare]] /\ LiveEdits \subseteq LiveShare
ASSUME NumbersAssumption ==
    /\ QUOTA_MIB_PER_GIB \in Nat \ {0} /\ MAX_QUOTA_API_MIB \in Nat
    /\ MaxEdits \in Nat /\ MaxFaults \in Nat

VARIABLES
    file,    \* the document the path names
    data,    \* its content: "safe" on disk, "volatile" in memory, "partial"
    onDisk,  \* what it may name after a power failure: documents and content
    live,    \* the shares of the hosts
    job,     \* what every command is asked to do, fixed
    pc,      \* the step it is at
    text,    \* the document it has loaded
    host,    \* the host it reads from
    seen,    \* the share it has read
    temp,    \* content of its temporary file
    exit,    \* exit code
    action,  \* the action it reports
    written, synced,  \* ghost: it has replaced the file, and the directory
    fileQuiet, nasQuiet,  \* ghost: nobody else has since it began
    edits, faults  \* budgets spent

world == <<file, data, onDisk, live>>
command == <<job, pc, text, host, seen, temp, exit, action>>
ghosts == <<written, synced, fileQuiet, nasQuiet>>
vars == <<world, command, ghosts, edits, faults>>

Running == -1
Killed == -2

----------------------------------------------------------------------------
(* The document.                                                           *)

\* What strict parsing accepts: a name once, quotas in range, no entry for
\* the administrators group.
Strict(doc) ==
    /\ \A v, w \in Volumes : \A i \in DOMAIN doc.vols[v], j \in DOMAIN doc.vols[w] :
          doc.vols[v][i].name = doc.vols[w][j].name => v = w /\ i = j
    /\ \A v \in Volumes : \A i \in DOMAIN doc.vols[v] :
          /\ doc.vols[v][i].quota \in {Unavailable} \cup 0..MAX_QUOTA_GIB
          /\ doc.vols[v][i].acl[Administrators] = "none"

Nodes(doc, s) ==
    {n \in UNION {{doc.vols[v][i] : i \in DOMAIN doc.vols[v]} : v \in Volumes} :
        n.name = s}

\* Mutant: any quota is taken, rounded down.
RepresentableRounded(share) == TRUE

Representable(share) ==
    \/ share.quota = Unavailable
    \/ /\ share.quota <= MAX_QUOTA_API_MIB
       /\ share.quota % QUOTA_MIB_PER_GIB = 0

\* The entry for a live share.
ShareNode(s, share, dirs) ==
    [name |-> s, state |-> "present", desc |-> share.desc,
     quota |-> IF share.quota = Unavailable THEN Unavailable
               ELSE share.quota \div QUOTA_MIB_PER_GIB,
     acl |-> [a \in Accounts |->
                IF a = Administrators /\ share.acl[a] = "rw" THEN "none"
                ELSE share.acl[a]],
     nfs |-> share.nfs, dirs |-> dirs]

KeptDirs(doc, s) ==
    IF Nodes(doc, s) = {} THEN [d \in Dirs |-> "unmanaged"]
    ELSE (CHOOSE n \in Nodes(doc, s) : TRUE).dirs

\* The entries of other shares, in their order.
Without(nodes, s) ==
    LET kept == {i \in DOMAIN nodes : nodes[i].name # s}
        Place(i) == Cardinality({j \in kept : j <= i})
    IN  [k \in 1..Cardinality(kept) |-> nodes[CHOOSE i \in kept : Place(i) = k]]

\* Mutant: the other entries of the volume are dropped.
MergeAlone(doc, s, share, h) ==
    [host |-> IF doc.host = NoHost THEN h ELSE doc.host, tidy |-> TRUE,
     vols |-> [doc.vols EXCEPT ![share.volume] =
        <<ShareNode(s, share, KeptDirs(doc, s))>>]]

\* The entry moves to the end of the share's volume; all others stay.
Merge(doc, s, share, h) ==
    [host |-> IF doc.host = NoHost THEN h ELSE doc.host, tidy |-> TRUE,
     vols |-> [v \in Volumes |->
        Without(doc.vols[v], s)
            \o (IF v = share.volume
                THEN <<ShareNode(s, share, KeptDirs(doc, s))>> ELSE <<>>)]]

Rendered(p) == Merge(text[p], job[p].target, seen[p], host[p])

----------------------------------------------------------------------------
(* The steps of a command.                                                 *)

\* The document the path names, as it is in memory.
Held == [doc |-> file, data |-> data]

Init ==
    /\ file \in StartFiles /\ data = "safe" /\ onDisk = {Held}
    /\ live \in StartLives
    /\ job \in [Imports -> Jobs]
    /\ pc = [p \in Imports |-> "load"]
    /\ text = [p \in Imports |-> file]
    /\ host = [p \in Imports |-> job[p].host]
    /\ seen = [p \in Imports |-> Vacant]
    /\ temp = [p \in Imports |-> "none"]
    /\ exit = [p \in Imports |-> Running] /\ action = [p \in Imports |-> "none"]
    /\ written = [p \in Imports |-> FALSE] /\ synced = [p \in Imports |-> FALSE]
    /\ fileQuiet = [p \in Imports |-> TRUE] /\ nasQuiet = [p \in Imports |-> TRUE]
    /\ edits = 0 /\ faults = 0

Go(p, from, to) == pc[p] = from /\ pc' = [pc EXCEPT ![p] = to]
Stop(p, code, what) ==
    /\ pc' = [pc EXCEPT ![p] = "done"]
    /\ exit' = [exit EXCEPT ![p] = code]
    /\ action' = [action EXCEPT ![p] = what]

Load(p) ==
    /\ Go(p, "load", "validate")
    /\ text' = [text EXCEPT ![p] = file]
    /\ fileQuiet' = [fileQuiet EXCEPT ![p] = TRUE]
    /\ UNCHANGED <<world, job, host, seen, temp, exit, action, written, synced,
                   nasQuiet, edits, faults>>

\* The file is read a second time to be validated, and the host is taken from
\* that reading; a document without volumes is validated as it was loaded.
\* One without entries may or may not have them.
Bare(doc) == \A v \in Volumes : doc.vols[v] = <<>>
Validated(p) == {file} \cup {doc \in {text[p]} : Bare(doc)}

Validate(p) ==
    /\ Go(p, "validate", "list")
    /\ \E doc \in Validated(p) :
          /\ Strict(doc)
          /\ host' = [host EXCEPT ![p] =
                IF doc.host = NoHost THEN job[p].host ELSE doc.host]
    /\ nasQuiet' = [nasQuiet EXCEPT ![p] = TRUE]
    /\ UNCHANGED <<world, job, text, seen, temp, exit, action, written, synced,
                   fileQuiet, edits, faults>>

\* The second reading has to find volumes.
RejectFile(p) ==
    /\ pc[p] = "validate"
    /\ ~ Strict(file) \/ (Bare(file) /\ file # text[p])
    /\ Stop(p, 10, "none")
    /\ UNCHANGED <<world, job, text, host, seen, temp, ghosts, edits, faults>>

Target(p) == live[host[p]][job[p].target]

ListShares(p) ==
    /\ Target(p).live
    /\ Go(p, "list", "state")
    /\ UNCHANGED <<world, job, text, host, seen, temp, exit, action, ghosts,
                   edits, faults>>

\* The three readings of read_apply_details.
Read(p, from, to, share) ==
    /\ Target(p).live
    /\ Go(p, from, to)
    /\ seen' = [seen EXCEPT ![p] = share]
    /\ UNCHANGED <<world, job, text, host, temp, exit, action, ghosts, edits,
                   faults>>
ReadState(p) ==
    Read(p, "state", "acl", [Target(p) EXCEPT !.acl = seen[p].acl, !.nfs = seen[p].nfs])
ReadAcl(p) ==
    Read(p, "acl", "nfs", [seen[p] EXCEPT !.acl = Target(p).acl])
\* Mutant: rules a document cannot say are read like others.
ReadNfsAny(p) == Read(p, "nfs", "merge", [seen[p] EXCEPT !.nfs = Target(p).nfs])
ReadNfs(p) ==
    /\ Target(p).nfs # BadRules
    /\ Read(p, "nfs", "merge", [seen[p] EXCEPT !.nfs = Target(p).nfs])

\* The share is gone, or has what a document cannot say.
RejectLive(p) ==
    /\ \/ pc[p] \in {"list", "state", "acl", "nfs"} /\ ~ Target(p).live
       \/ pc[p] = "nfs" /\ Target(p).nfs = BadRules
       \/ pc[p] = "merge" /\ ~ Representable(seen[p])
    /\ Stop(p, 40, "none")
    /\ UNCHANGED <<world, job, text, host, seen, temp, ghosts, edits, faults>>

\* The merged document is validated as the file was.
RejectMerged(p) ==
    /\ pc[p] = "merge" /\ Representable(seen[p])
    /\ ~ Strict(Rendered(p))
    /\ Stop(p, 10, "none")
    /\ UNCHANGED <<world, job, text, host, seen, temp, ghosts, edits, faults>>

\* Nothing to write, or not asked to.
ShowDiff(p) ==
    /\ pc[p] = "merge" /\ Representable(seen[p]) /\ Strict(Rendered(p))
    /\ ~ job[p].yes \/ Rendered(p) = text[p]
    /\ Stop(p, 0, IF Rendered(p) = text[p] THEN "no-change" ELSE "imported")
    /\ UNCHANGED <<world, job, text, host, seen, temp, ghosts, edits, faults>>

\* atomic_write begins: a temporary file beside the document.
WriteTemp(p) ==
    /\ Representable(seen[p]) /\ Strict(Rendered(p))
    /\ job[p].yes /\ Rendered(p) # text[p]
    /\ Go(p, "merge", "fsync")
    /\ temp' = [temp EXCEPT ![p] = "volatile"]
    /\ UNCHANGED <<world, job, text, host, seen, exit, action, ghosts, edits, faults>>

\* Mutant: the content is not flushed to the disk.
SyncTempLater(p) ==
    /\ Go(p, "fsync", "replace")
    /\ UNCHANGED <<world, job, text, host, seen, temp, exit, action, ghosts,
                   edits, faults>>

SyncTemp(p) ==
    /\ Go(p, "fsync", "replace")
    /\ temp' = [temp EXCEPT ![p] = "safe"]
    /\ UNCHANGED <<world, job, text, host, seen, exit, action, ghosts, edits, faults>>

Replace(p) ==
    /\ Go(p, "replace", "syncdir")
    /\ file' = Rendered(p) /\ data' = temp[p]
    /\ onDisk' = onDisk \cup {Held'}
    /\ temp' = [temp EXCEPT ![p] = "none"]
    /\ written' = [written EXCEPT ![p] = TRUE]
    /\ fileQuiet' = [q \in Imports |-> fileQuiet[q] /\ q = p]
    /\ UNCHANGED <<live, job, text, host, seen, exit, action, synced, nasQuiet,
                   edits, faults>>

\* Mutant: success is reported without waiting for the directory.
SyncDirectoryLater(p) ==
    /\ pc[p] = "syncdir"
    /\ synced' = [synced EXCEPT ![p] = TRUE]
    /\ Stop(p, 0, "imported")
    /\ UNCHANGED <<world, job, text, host, seen, temp, written, fileQuiet,
                   nasQuiet, edits, faults>>

SyncDirectory(p) ==
    /\ pc[p] = "syncdir"
    /\ onDisk' = {Held}
    /\ synced' = [synced EXCEPT ![p] = TRUE]
    /\ Stop(p, 0, "imported")
    /\ UNCHANGED <<file, data, live, job, text, host, seen, temp, written,
                   fileQuiet, nasQuiet, edits, faults>>

Command(p) ==
    \/ Load(p) \/ Validate(p) \/ RejectFile(p) \/ ListShares(p)
    \/ ReadState(p) \/ ReadAcl(p) \/ ReadNfs(p) \/ RejectLive(p)
    \/ RejectMerged(p) \/ ShowDiff(p)
    \/ WriteTemp(p) \/ SyncTemp(p) \/ Replace(p) \/ SyncDirectory(p)

----------------------------------------------------------------------------
(* What goes wrong around it.                                              *)

Spend == faults < MaxFaults /\ faults' = faults + 1

\* A call to the NAS fails; an answer to the login, which comes before the
\* first of them, that makes no sense passes for wrong settings.
CallFails(p) ==
    /\ Spend
    /\ pc[p] \in {"list", "state", "acl", "nfs"}
    /\ \/ \E code \in {20, 30, 40} : Stop(p, code, "none")
       \/ pc[p] = "list" /\ Stop(p, 10, "none")
    /\ UNCHANGED <<world, job, text, host, seen, temp, ghosts, edits>>

\* A file operation fails before the file is replaced; the temporary file
\* is removed.
WriteFails(p) ==
    /\ Spend
    /\ pc[p] \in {"fsync", "replace"}
    /\ temp' = [temp EXCEPT ![p] = "none"]
    /\ Stop(p, 12, "none")
    /\ UNCHANGED <<world, job, text, host, seen, ghosts, edits>>

\* Mutant: a directory that cannot be flushed is reported as a failure.
SyncDirectoryRaises(p) ==
    /\ Spend
    /\ pc[p] = "syncdir"
    /\ Stop(p, 12, "none")
    /\ UNCHANGED <<world, job, text, host, seen, temp, ghosts, edits>>

\* The directory cannot be flushed, which is ignored.
SyncDirectoryFails(p) ==
    /\ Spend
    /\ pc[p] = "syncdir"
    /\ Stop(p, 0, "imported")
    /\ UNCHANGED <<world, job, text, host, seen, temp, ghosts, edits>>

Kill(p) ==
    /\ Spend
    /\ pc[p] # "done"
    /\ Stop(p, Killed, "none")
    /\ UNCHANGED <<world, job, text, host, seen, temp, ghosts, edits>>

\* The path names one of the documents that may have reached the disk; content
\* that was in memory is lost.
PowerFailure ==
    /\ Spend
    /\ \E kept \in onDisk :
          /\ file' = kept.doc
          /\ data' = IF kept.data = "safe" THEN "safe" ELSE "partial"
    /\ onDisk' = {Held'}
    /\ pc' = [p \in Imports |-> "done"]
    /\ exit' = [p \in Imports |-> IF pc[p] = "done" THEN exit[p] ELSE Killed]
    /\ UNCHANGED <<live, job, text, host, seen, temp, action, ghosts, edits>>

\* Somebody saves the file, safely.
EditFile ==
    /\ edits < MaxEdits /\ edits' = edits + 1
    /\ \E doc \in FileEdits : doc # file /\ file' = doc
    /\ data' = "safe" /\ onDisk' = {Held'}
    /\ fileQuiet' = [p \in Imports |-> FALSE]
    /\ UNCHANGED <<live, command, written, synced, nasQuiet, faults>>

EditNas ==
    /\ edits < MaxEdits /\ edits' = edits + 1
    /\ \E h \in Hosts, s \in Shares, share \in LiveEdits \cup {Vacant} :
          share # live[h][s] /\ live' = [live EXCEPT ![h][s] = share]
    /\ nasQuiet' = [p \in Imports |-> FALSE]
    /\ UNCHANGED <<file, data, onDisk, command, written, synced, fileQuiet, faults>>

Next ==
    \/ \E p \in Imports :
          \/ Command(p)
          \/ CallFails(p) \/ WriteFails(p) \/ SyncDirectoryFails(p) \/ Kill(p)
    \/ PowerFailure \/ EditFile \/ EditNas

Spec == Init /\ [][Next]_vars

----------------------------------------------------------------------------
(* Properties.                                                             *)

\* Every variable has its type.
TypeOK ==
    /\ file \in File /\ data \in {"safe", "volatile", "partial"}
    /\ \A held \in onDisk : held.doc \in File /\ held.data \in {"safe", "volatile"}
    /\ live \in [Hosts -> [Shares -> LiveShare]]
    /\ job \in [Imports -> Jobs]
    /\ pc \in [Imports -> {"load", "validate", "list", "state", "acl", "nfs",
                           "merge", "fsync", "replace", "syncdir", "done"}]
    /\ text \in [Imports -> File] /\ host \in [Imports -> Hosts]
    /\ seen \in [Imports -> LiveShare]
    /\ temp \in [Imports -> {"none", "volatile", "safe"}]
    /\ exit \in [Imports -> {0, 10, 12, 20, 30, 40, Running, Killed}]
    /\ action \in [Imports -> {"none", "no-change", "imported"}]
    /\ \A flag \in {written, synced, fileQuiet, nasQuiet} :
          flag \in [Imports -> BOOLEAN]
    /\ edits \in 0..MaxEdits /\ faults \in 0..MaxFaults

\* README: "the same-directory atomic write".  Whenever processes are killed
\* or the power fails, the path names a complete document.
FileIsWhole == data # "partial"

\* An import writes what it has loaded with one entry exchanged: over a file
\* nobody has changed since, the entries of the other shares stay, in their
\* order, and what the document says about children of the target stays.
Others(doc, s) ==
    [v \in Volumes |-> Without(doc.vols[v], s)]
OnlyTargetChanges ==
    [][\A p \in Imports :
          written'[p] # written[p] /\ fileQuiet[p] =>
             LET s == job[p].target
             IN  /\ Others(file', s) = Others(file, s)
                 /\ file.host # NoHost => file'.host = file.host
                 /\ \A n \in Nodes(file, s), m \in Nodes(file', s) : m.dirs = n.dirs]_vars

\* Import and apply-config agree: what an import writes, if nobody disturbed
\* its reading or replaced it since, apply-config accepts and finds nothing to
\* do for the share, and importing it again changes nothing.  Of a file whose
\* directory could not be flushed this holds as long as the power is on.
Parsed(n, v) ==
    [state |-> n.state, volume |-> v, desc |-> n.desc,
     quota |-> IF n.quota = Unavailable THEN Unavailable
               ELSE n.quota * QUOTA_MIB_PER_GIB,
     acl |-> [a \in Principals |-> n.acl[a]], nfs |-> n.nfs, dirs |-> n.dirs]
ImportSettles ==
    \A p \in Imports :
        /\ action[p] = "imported" /\ written[p] /\ fileQuiet[p] /\ nasQuiet[p]
        /\ synced[p] \/ file = Rendered(p)
        => LET s == job[p].target
                share == Target(p)
            IN  /\ Strict(file)
                /\ Merge(file, s, share, host[p]) = file
                /\ \A n \in Nodes(file, s) :
                      /\ Parsed(n, share.volume).quota = share.quota
                      /\ ~ ScalarsDiffer(Parsed(n, share.volume), share)
                      /\ AclMatches(Parsed(n, share.volume), share.acl)
                      /\ n.nfs = share.nfs

\* The exit code tells whether the file was replaced: every failure comes
\* before, and without --yes, or when nothing changes, it is not touched.
ExitTellsWrite ==
    \A p \in Imports : pc[p] = "done" /\ exit[p] # Killed =>
        (written[p] <=> exit[p] = 0 /\ action[p] = "imported" /\ job[p].yes)

\* README: "fsyncs data/directory when supported".  A power failure does not
\* take back an import that has ended, if its directory could be flushed.
EndedImportSurvives ==
    [][\A p \in Imports :
          pc[p] = "done" /\ written[p] /\ synced[p] /\ fileQuiet[p] /\ fileQuiet'[p]
             => file' = file]_vars

\* README: the merge "preserves supported root fields, volumes, shares".  An
\* import leaves the entries of the other shares in the file as they are.
OthersPreserved ==
    [][\A p \in Imports :
          written'[p] # written[p] =>
             Others(file', job[p].target) = Others(file, job[p].target)]_vars
=============================================================================
