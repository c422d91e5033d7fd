----------------------------- MODULE ShareData -----------------------------
(***************************************************************************)
(* The values apply-config reasons about: a live shared folder as the NAS  *)
(* reports it, the desired entry of the configuration document, and the    *)
(* comparisons that decide which operation families a share needs          *)
(* (src/synology/apply_config.py, models.py, shares.py).                   *)
(*                                                                         *)
(* Share and directory names are the integers 1..N and 1..D, so that the   *)
(* code's "sorted by name" is the order of the integers.                   *)
(***************************************************************************)
EXTENDS Integers, FiniteSets

CONSTANTS
    N,               \* number of share names in play
    D,               \* number of immediate child names in play
    Volumes,         \* volume paths
    Canonical,       \* the internal "/volume<n>" ones
    Descs,           \* description texts
    NoDesc,          \* the empty description
    Omitted,         \* a description the document does not give
    Finite,          \* finite quotas, in MiB
    Principals,      \* <category, name> identities a document may name
    Known,           \* the identities the NAS inventory holds
    Administrators,  \* local_group:administrators
    NfsRules,        \* complete supported NFS rule sets
    NoRules,         \* the empty rule set
    BadRules         \* live rules the client cannot represent safely

ASSUME SizeAssumption == N \in Nat /\ D \in Nat
ASSUME VolumeAssumption == Volumes # {} /\ Canonical \subseteq Volumes
ASSUME DescAssumption == NoDesc \in Descs /\ Omitted \notin Descs
ASSUME QuotaAssumption == Finite \subseteq Nat \ {0}
ASSUME PrincipalAssumption ==
    Known \subseteq Principals /\ Administrators \notin Principals
ASSUME RulesAssumption == NoRules \in NfsRules /\ BadRules \notin NfsRules

Shares == 1..N
Dirs == 1..D

(***************************************************************************)
(* Quotas in MiB.  0 is "unlimited"; Unavailable is Python's None: a live  *)
(* share without the capability, or a document that omits quota.           *)
(***************************************************************************)
Unavailable == -1
Unlimited == 0
Quotas == Finite \cup {Unlimited, Unavailable}

\* "none" is a principal listed without an active grant.
Access == {"none", "deny", "ro", "rw"}
Accounts == Principals \cup {Administrators}
DirKinds == {"missing", "file", "empty", "full"}

LiveShare ==
    [live: BOOLEAN, volume: Volumes, desc: Descs, quota: Quotas,
     hidden: BOOLEAN, acl: [Accounts -> Access],
     nfs: NfsRules \cup {BadRules}, dirs: [Dirs -> DirKinds]]

\* A name no share has, and the record nothing has been read into.
Vacant ==
    [live |-> FALSE, volume |-> CHOOSE v \in Volumes : TRUE, desc |-> NoDesc,
     quota |-> Unavailable, hidden |-> FALSE,
     acl |-> [a \in Accounts |-> "none"], nfs |-> NoRules,
     dirs |-> [d \in Dirs |-> "missing"]]

DesiredShare ==
    [state: {"unmanaged", "present", "absent"}, volume: Volumes,
     desc: Descs \cup {Omitted}, quota: Quotas,
     acl: [Principals -> Access], nfs: NfsRules,
     dirs: [Dirs -> {"unmanaged", "present", "absent"}]]

\* A parsed document, and the --yes flag of the command line.  lookup is
\* principal_lookup_share, 0 when the document does not give one.
Document ==
    [yes: BOOLEAN, lookup: {0} \cup Shares, shares: [Shares -> DesiredShare]]

----------------------------------------------------------------------------
\* Mutant: an omitted description is sent as it stands.
DescAsGiven(want, exists, seen) == want.desc

\* A new share that omits its description gets the empty one; an existing
\* share keeps the one that was read.
EffectiveDesc(want, exists, seen) ==
    IF want.desc # Omitted THEN want.desc
    ELSE IF exists THEN seen ELSE NoDesc

\* Mutant: an omitted quota is left alone everywhere.
QuotaLeftAlone(want) == want.quota

\* The quota an execution asks for: an omitted one is unlimited on a
\* canonical volume and left alone elsewhere.
QuotaRequest(want) ==
    IF want.quota # Unavailable THEN want.quota
    ELSE IF want.volume \in Canonical THEN Unlimited ELSE Unavailable

\* Mutant: an omitted quota is planned without looking at the capability.
QuotaAlwaysPlanned(want, seen) ==
    IF want.quota = Unavailable THEN Unlimited ELSE want.quota

\* The quota a plan asks for: an omitted one is unlimited on every share
\* that was read with a quota.
QuotaPlanned(want, seen) ==
    IF want.quota = Unavailable /\ seen # Unavailable THEN Unlimited
    ELSE want.quota

QuotaSupported(want, exists, seen) ==
    want.quota # Unavailable =>
        IF exists THEN seen # Unavailable ELSE want.volume \in Canonical

ScalarsDiffer(want, seen) ==
    \/ seen.desc # EffectiveDesc(want, TRUE, seen.desc)
    \/ LET q == QuotaPlanned(want, seen.quota)
       IN  q # Unavailable /\ seen.quota # q

\* The mutable entries are all the active ones but a read-write grant of
\* the administrators group; any other grant of that group is an entry like
\* another, and a document cannot ask for it.
AclMatches(want, acl) ==
    /\ \A p \in Principals : acl[p] = want.acl[p]
    /\ acl[Administrators] \in {"none", "rw"}

\* Mutant: administrators treated as a grant the document did not give.
AclGoalAsWritten(want) ==
    [a \in Accounts |-> IF a = Administrators THEN "none" ELSE want.acl[a]]

AclGoal(want) ==
    [a \in Accounts |-> IF a = Administrators THEN "rw" ELSE want.acl[a]]

Requested(doc) ==
    {p \in Principals : \E s \in Shares :
        doc.shares[s].state = "present" /\ doc.shares[s].acl[p] # "none"}

\* A target an item of directories may be planned for.
DirAcceptable(item, kind) ==
    /\ kind # "file"
    /\ ~ (item = "absent" /\ kind = "full")

DirOperation(item, kind) ==
    \/ item = "present" /\ kind = "missing"
    \/ item = "absent" /\ kind = "empty"

\* What it means for the NAS to agree with one entry of the document.
Agrees(want, live) ==
    CASE want.state = "unmanaged" -> TRUE
      [] want.state = "absent" -> ~ live.live
      [] OTHER ->
           /\ live.live
           /\ live.volume = want.volume
           /\ want.desc # Omitted => live.desc = want.desc
           /\ want.quota # Unavailable => live.quota = want.quota
           /\ QuotaPlanned(want, live.quota) = live.quota
           /\ AclMatches(want, live.acl)
           /\ live.nfs = want.nfs
           /\ \A d \in Dirs :
                /\ want.dirs[d] = "present" =>
                       live.dirs[d] \in {"empty", "full"}
                /\ want.dirs[d] = "absent" => live.dirs[d] = "missing"
=============================================================================
