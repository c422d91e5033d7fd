------------------------------ MODULE AclRules ------------------------------
(***************************************************************************)
(* Which permissions of a shared folder a replacement sets, revokes and    *)
(* leaves alone, and which it accepts afterwards (_permission_deltas and   *)
(* _compare_modify_permissions of src/synology/shares.py).                 *)
(*                                                                         *)
(* The NAS keeps the permissions in four categories, read and set one      *)
(* category per call; a set call is a patch: it changes the entries it     *)
(* names and no other.                                                     *)
(***************************************************************************)
EXTENDS Integers, FiniteSets

CONSTANTS
    Ids,             \* <category, name> identities
    Category,        \* the category of each
    Administrators,  \* local_group:administrators
    AdminFlagged,    \* those the NAS reports with is_admin
    Inventory        \* those the NAS lists, with a grant or without

\* PERMISSION_USER_GROUP_TYPES, in the order they are read and set.
LocalUser == 1
LocalGroup == 2
LdapUser == 3
LdapGroup == 4
Categories == {LocalUser, LocalGroup, LdapUser, LdapGroup}

ASSUME CategoryAssumption == Category \in [Ids -> Categories]
ASSUME AdministratorsAssumption ==
    Administrators \in Ids /\ Category[Administrators] = LocalGroup
ASSUME InventoryAssumption == AdminFlagged \subseteq Ids /\ Inventory \subseteq Ids

\* "none" is an identity listed without an active grant.
Access == {"none", "deny", "ro", "rw"}
Acls == [Ids -> Access]

(***************************************************************************)
(* modify-share replaces the permissions by the ones it is given; with an  *)
(* empty value it clears them; apply-config replaces them with authority   *)
(* over the administrators as well, whose grant it always asks for.        *)
(***************************************************************************)
Modes == {"replace", "clear", "authoritative"}
Request == [mode: Modes, want: Acls]
Asked(req) == {i \in Ids : req.want[i] # "none"}
WellFormed(req) ==
    /\ req.mode = "clear" => Asked(req) = {}
    /\ req.mode = "authoritative" => req.want[Administrators] = "rw"

\* Mutants: every active entry is revoked, as in the authoritative mode;
\* nothing is ever revoked.
RevocableAlways(req, i) == i \notin Asked(req)
RevocableNever(req, i) == FALSE

\* An entry the request does not name that is revoked when it is active.
Revocable(req, i) ==
    /\ i \notin Asked(req)
    /\ \/ req.mode = "authoritative"
       \/ /\ i # Administrators
          /\ \/ i \notin AdminFlagged
             \/ req.mode = "clear" /\ Category[i] # LocalGroup

\* An active entry the request does not name that the comparison accepts.
Tolerated(req, i) ==
    CASE req.mode = "authoritative" -> FALSE
      [] req.mode = "clear" ->
            /\ Category[i] = LocalGroup
            /\ i = Administrators \/ i \in AdminFlagged
      [] req.mode = "replace" -> i \in AdminFlagged

\* The entries the calls name.
Delta(req, acl) ==
    {i \in Ids : \/ i \in Asked(req) /\ acl[i] # req.want[i]
                 \/ acl[i] # "none" /\ Revocable(req, i)}

\* A patch: the entries of done are as the request has them.
Patched(req, acl, done) ==
    [i \in Ids |-> IF i \in done THEN req.want[i] ELSE acl[i]]

Matches(req, acl) ==
    \A i \in Ids :
        /\ i \in Asked(req) => acl[i] = req.want[i]
        /\ i \notin Asked(req) /\ acl[i] # "none" => Tolerated(req, i)

\* Outside the authoritative mode the administrators group is never revoked,
\* but a replacement accepts it only with its is_admin flag: without it the
\* replacement reports a mismatch that no run removes.
Attainable(req, acl) ==
    \/ req.mode # "replace"
    \/ Administrators \in AdminFlagged \cup Asked(req)
    \/ acl[Administrators] = "none"
=============================================================================
