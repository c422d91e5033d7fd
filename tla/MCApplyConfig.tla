--------------------------- MODULE MCApplyConfig ---------------------------
(* Instances of ApplyConfig for TLC. *)
EXTENDS ApplySerial

\* Live shares.  alice is the identity the documents name, bob one the NAS
\* does not know.
Acl(alice, admins) ==
    [a \in Accounts |-> CASE a = Administrators -> admins
                          [] a = "alice" -> alice
                          [] OTHER -> "none"]
Children(kind) == [d \in Dirs |-> kind]
Share(volume, desc, quota, acl, nfs, kind) ==
    [live |-> TRUE, volume |-> volume, desc |-> desc, quota |-> quota,
     hidden |-> TRUE, acl |-> acl, nfs |-> nfs, dirs |-> Children(kind)]

\* Entries of a document.
Entry(volume, desc, quota, alice, nfs, item) ==
    [state |-> "present", volume |-> volume, desc |-> desc, quota |-> quota,
     acl |-> [p \in Principals |-> IF p = "alice" THEN alice ELSE "none"],
     nfs |-> nfs,
     dirs |-> [d \in Dirs |-> item]]
Bare(state) ==
    [Entry("v1", Omitted, Unavailable, "none", NoRules, "unmanaged")
        EXCEPT !.state = state]
Two(yes, lookup, first, second) ==
    [yes |-> yes, lookup |-> lookup,
     shares |-> [s \in Shares |-> IF s = 1 THEN first ELSE second]]

Full == Entry("v1", "new", 1024, "rw", "r1", "present")
Sparse == Entry("v1", Omitted, Unavailable, "none", NoRules, "absent")
Usb == Entry("usb", "new", Unavailable, "ro", NoRules, "present")
UsbQuota == Entry("usb", Omitted, 1024, "none", NoRules, "unmanaged")
Stranger == [Full EXCEPT !.acl["bob"] = "ro"]

\* Live states: as Full wants it, off in every family, on the other volume,
\* not representable, with a child in the way.
AsFull == Share("v1", "new", 1024, Acl("rw", "rw"), "r1", "full")
Drifted == Share("v1", "old", 1024, Acl("ro", "none"), "none", "empty")
Crowded == Share("v1", "old", 0, Acl("deny", "ro"), "r1", "full")
Kerberos == Share("v1", "old", 0, Acl("none", "rw"), BadRules, "missing")
WithFile == Share("v1", "", 0, Acl("none", "rw"), "none", "file")
OnUsb == Share("usb", "old", Unavailable, Acl("none", "rw"), "r1", "missing")
UsbExposed == [OnUsb EXCEPT !.quota = 1024]

MCFreshAcls == {Acl("none", "rw"), Acl("ro", "none")}
Both(states) == [Shares -> states]
NoEdits == {}

\* Failed calls, lost answers and kills, one share deleted or replaced by
\* somebody else, and the command run again until it succeeds.
FaultDocuments ==
    {Two(TRUE, 0, Full, Sparse), Two(TRUE, 2, Full, Bare("unmanaged")),
     Two(TRUE, 0, Bare("absent"), Usb), Two(FALSE, 0, Full, Bare("absent")),
     Two(TRUE, 1, UsbQuota, Sparse), Two(TRUE, 0, Sparse, Stranger)}
FaultStates ==
    Both({Vacant, AsFull, Drifted, OnUsb})
    \cup {[s \in Shares |-> x] : x \in {Crowded, Kerberos, WithFile}}
FaultEdits == {Crowded}

\* Edits at any point of the plan and of its execution.
KeepDesc == [Full EXCEPT !.desc = Omitted]
Mixed == [KeepDesc EXCEPT !.dirs[1] = "absent"]
RaceDocuments ==
    {Two(TRUE, 0, KeepDesc, Bare("unmanaged")),
     Two(TRUE, 2, Mixed, Bare("absent")),
     Two(TRUE, 0, Sparse, Bare("absent"))}
RaceStates ==
    {[s \in Shares |-> IF s = 1 THEN x ELSE AsFull] : x \in {Vacant, Drifted}}
RaceEdits == {AsFull, Crowded, Kerberos, OnUsb}

\* A share on an external volume that does report a quota.
ExposedDocuments == {Two(TRUE, 0, Usb, Bare("unmanaged"))}
ExposedStates == {[s \in Shares |-> UsbExposed]}
=============================================================================
