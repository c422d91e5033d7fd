-------------------------- MODULE MCConfigImport --------------------------
(* Instances of ConfigImport for TLC. *)
EXTENDS ConfigImport, TLC

\* Live shares: representable, with an unaligned quota, with a quota beyond
\* the range, with a restricted administrators group, with foreign NFS rules.
Acl(alice, admins) ==
    [a \in Accounts |-> IF a = Administrators THEN admins ELSE alice]
Share(volume, desc, quota, acl, nfs) ==
    [live |-> TRUE, volume |-> volume, desc |-> desc, quota |-> quota,
     hidden |-> FALSE, acl |-> acl, nfs |-> nfs, dirs |-> [d \in Dirs |-> "missing"]]
Plain == Share("v1", "a", 4, Acl("rw", "rw"), "r1")
Largest == Share("v1", "", 8, Acl("none", "none"), "none")
Open == Share("v1", "a", 0, Acl("deny", "rw"), "none")
OnUsb == Share("usb", "a", Unavailable, Acl("ro", "rw"), "none")
Uneven == Share("v1", "a", 6, Acl("rw", "rw"), "r1")
Oversize == Share("v1", "a", 12, Acl("rw", "rw"), "r1")
Restricted == Share("v1", "a", 4, Acl("rw", "ro"), "r1")
Kerberos == Share("v1", "a", 4, Acl("rw", "rw"), BadRules)

\* Documents.
Item(s, desc, quota, admins, dirs) ==
    [name |-> s, state |-> "present", desc |-> desc, quota |-> quota,
     acl |-> Acl("none", admins), nfs |-> "none", dirs |-> [d \in Dirs |-> dirs]]
Absent(s) == [Item(s, Omitted, Unavailable, "none", "unmanaged") EXCEPT !.state = "absent"]
One == Item(1, "b", 2, "none", "present")
Two == Item(2, Omitted, Unavailable, "none", "unmanaged")
Doc(h, v1, usb) ==
    [host |-> h, tidy |-> FALSE,
     vols |-> [v \in Volumes |-> IF v = "v1" THEN v1 ELSE usb]]
Empty == Doc(NoHost, <<>>, <<>>)
Ordered == Doc("nas1", <<One, Two>>, <<>>)
Moved == Doc("nas2", <<Two>>, <<One>>)
Gone == Doc("nas1", <<Absent(1), Two>>, <<>>)
Invalid == Doc("nas1", <<One, Item(2, "b", 1, "rw", "unmanaged")>>, <<>>)

Task(s, yes) == [target |-> s, host |-> "nas1", yes |-> yes]
MCJobs == {Task(1, TRUE), Task(2, TRUE), Task(1, FALSE)}
WritingJobs == {Task(1, TRUE), Task(2, TRUE)}

MCFiles == {Empty, Moved, Invalid}
Nas(first1, first2, second1, second2) ==
    [h \in Hosts |-> [s \in Shares |->
        IF h = "nas1" THEN IF s = 1 THEN first1 ELSE first2
        ELSE IF s = 1 THEN second1 ELSE second2]]
MCLives ==
    {Nas(Largest, Restricted, OnUsb, Kerberos), Nas(Uneven, OnUsb, Open, Oversize)}
MCFileEdits == {Gone}
MCLiveEdits == {Plain}

OneFile == {Ordered}
OneLives == {[h \in Hosts |-> [s \in Shares |-> IF s = 1 THEN Plain ELSE OnUsb]]}
None == {}

\* Without is the library's SelectSeq.
ASSUME WithoutAssumption ==
    \A n \in 0..4 : \A names \in [1..n -> 1..2] :
        LET nodes == [i \in 1..n |-> [name |-> names[i], at |-> i]]
        IN  Without(nodes, 1) = SelectSeq(nodes, LAMBDA node : node.name # 1)

Interchangeable == Permutations(Imports)
=============================================================================
