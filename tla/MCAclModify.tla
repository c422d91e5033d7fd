---------------------------- MODULE MCAclModify ----------------------------
(* Instances of AclModify for TLC. *)
EXTENDS AclSerial

\* An ordinary user, an administrator user, the administrators group, an
\* ordinary LDAP user, and somebody the NAS does not know.
MCIds == {"user", "synadmin", "administrators", "ldap", "ghost"}
MCCategory ==
    [i \in MCIds |-> CASE i \in {"user", "synadmin", "ghost"} -> LocalUser
                       [] i = "administrators" -> LocalGroup
                       [] i = "ldap" -> LdapUser]
MCInventory == MCIds \ {"ghost"}

Grants(user, synadmin, administrators, ldap) ==
    [i \in MCIds |-> CASE i = "user" -> user
                       [] i = "synadmin" -> synadmin
                       [] i = "administrators" -> administrators
                       [] i = "ldap" -> ldap
                       [] i = "ghost" -> "none"]
Ask(mode, user, administrators, ldap) ==
    [mode |-> mode, want |-> Grants(user, "none", administrators, ldap)]

ReplaceUser == Ask("replace", "rw", "none", "none")
ReplaceLdap == Ask("replace", "none", "none", "ro")
ClearAll == Ask("clear", "none", "none", "none")
Apply == Ask("authoritative", "rw", "rw", "none")
ReplaceGhost == [ReplaceUser EXCEPT !.want["ghost"] = "ro"]

OneRequests == {ReplaceUser, ClearAll, Apply, ReplaceGhost}
TwoRequests == {ReplaceLdap, ClearAll, Apply}
MCStartAcls ==
    {Grants("none", "none", "none", "none"), Grants("ro", "rw", "rw", "none"),
     Grants("rw", "none", "ro", "deny")}
OneStart == {Grants("ro", "rw", "rw", "ro")}
=============================================================================
