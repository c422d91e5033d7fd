-------------------------- MODULE MCShareCommands --------------------------
(* Instances of ShareCommands for TLC. *)
EXTENDS ShareCommands

\* Four local users and the administrators group; two users fill a page.
\* aaron is listed first, and does not exist at first.
MCIds == {"aaron", "alice", "bob", "carol", "administrators"}
MCCategory ==
    [i \in MCIds |-> IF i = "administrators" THEN LocalGroup ELSE LocalUser]
MCRank ==
    [i \in MCIds |-> CASE i = "aaron" -> 1 [] i = "alice" -> 2
                       [] i = "bob" -> 3 [] i = "carol" -> 4
                       [] i = "administrators" -> 5]
MCInventory == MCIds \ {"aaron"}

\* Addresses of four bits: an address, its network, another spelling of it,
\* a network with host bits set, "*" and a name.
MCWidth == [v \in {4, 6} |-> 4]
Client(form, bits, prefix, spelling) ==
    [form |-> form, version |-> 6, bits |-> bits, prefix |-> prefix,
     spelling |-> spelling]
Host == Client("address", 5, 4, 0)
HostSpelt == Client("address", 5, 4, 1)
HostNet == Client("network", 5, 4, 0)
Net == Client("network", 4, 2, 0)
Strayed == Client("network", 5, 2, 0)
Everyone == Client("any", 0, 0, 0)
Hostname == Client("other", 0, 0, 0)
MCNfsClients == {Host, HostSpelt, HostNet, Net, Strayed, Everyone, Hostname}

Grant1(who, a) == [i \in MCIds |-> IF i \in who THEN a ELSE "none"]
Ask(client, flags) == [client |-> client, flags |-> flags]
Live(client, flags, flavor) ==
    [client |-> client, flags |-> flags, flavor |-> flavor, copy |-> 0]

Settings(volume, desc, bin, quota) ==
    [volume |-> volume, desc |-> desc, bin |-> bin, quota |-> quota]
Plain(quota) == Settings("v1", "new", "admin", quota)
Order(kind, quota, who, rules) ==
    [kind |-> kind, yes |-> TRUE, scalars |-> Plain(quota),
     want |-> Grant1(who, "rw"), rules |-> rules]

MCUnavailable == -1
NoRules == <<>>
TwoRules == <<Ask(HostSpelt, "rw"), Ask(Net, "ro")>>
Overlap == <<Ask(Host, "rw"), Ask(HostNet, "ro")>>
MCJobs ==
    {Order("create", Unavailable, {}, NoRules),
     Order("create", 5, {"alice"}, TwoRules),
     Order("create", Unavailable, {"alice", "carol"}, NoRules),
     Order("create", 0, {"alice"}, NoRules),
     Order("quota", 5, {}, NoRules), Order("quota", MAX_QUOTA_GIB, {}, NoRules),
     Order("quota", MAX_QUOTA_GIB + 1, {}, NoRules),
     Order("quota", 0, {}, NoRules),
     [Order("quota", 5, {}, NoRules) EXCEPT !.yes = FALSE],
     Order("nfs", Unavailable, {}, NoRules), Order("nfs", Unavailable, {}, TwoRules),
     Order("nfs", Unavailable, {}, Overlap),
     Order("nfs", Unavailable, {}, <<Ask(Strayed, "rw")>>),
     Order("delete", Unavailable, {}, NoRules),
     Order("list", Unavailable, {}, NoRules)}
QuotaJobs == {Order("quota", 5, {}, NoRules)}

Folder(live, scalars, acl, nfs) ==
    [live |-> live, scalars |-> scalars, acl |-> acl, nfs |-> nfs,
     accounts |-> MCInventory, service |-> TRUE]
Nobody == Grant1({}, "none")
Some == Grant1({"alice", "carol", "administrators"}, "ro")
Absent == Folder(FALSE, Plain(Unavailable), Nobody, {})
Used == Folder(TRUE, Settings("v1", "old", "all", 0), Some,
               {Live(HostSpelt, "rw", "sys"), Live(Net, "ro", "sys")})
Limited == Folder(TRUE, Settings("v1", "old", "off", 5120), Nobody,
                  {Live(Everyone, "ro", "sys")})
Doubled == [Used EXCEPT !.nfs = @ \cup {[r EXCEPT !.copy = 1] : r \in @}]
Usb == Folder(TRUE, Settings("usb", "old", "admin", Unavailable), Nobody,
              {Live(Hostname, "ro", "sys")})
Kerberos == [Limited EXCEPT !.nfs = {Live(Net, "rw", "kerberos")}]
NoService == [Limited EXCEPT !.service = FALSE]
MCStartStates == {Absent, Used, Doubled, Limited, Usb, Kerberos, NoService}
MCEditRules == {{}, {Live(Host, "ro", "sys")}}
MCFreshAcls == {Grant1({"administrators"}, "rw")}
=============================================================================
