------------------------------ MODULE NfsRules ------------------------------
(***************************************************************************)
(* NFS rules of a shared folder: which requests are accepted               *)
(* (src/synology/config.py), which live rules can be compared at all, and  *)
(* when they are as requested (src/synology/shares.py).                    *)
(*                                                                         *)
(* A client is the text of a rule, taken apart: "*", an address, a network *)
(* or something else; the bits of its address; the length of its prefix;   *)
(* and its spelling, 0 for the canonical one.                              *)
(***************************************************************************)
EXTENDS Integers, FiniteSets

CONSTANTS
    NfsClients,  \* the client texts in play
    Width,       \* the number of address bits of IPv4 and IPv6
    Flags        \* access, async, insecure, crossmnt and root_squash

NfsClient ==
    [form: {"any", "address", "network", "other"}, version: {4, 6},
     bits: Nat, prefix: Nat, spelling: Nat]

\* The text normalize_nfs_client makes of a client.
Canonical(c) == [c EXCEPT !.spelling = 0]

ASSUME WidthAssumption == Width \in [{4, 6} -> Nat]
ASSUME ClientAssumption ==
    /\ NfsClients \subseteq NfsClient
    /\ \A c \in NfsClients :
          Canonical(c) \in NfsClients /\ c.prefix <= Width[c.version]

\* ip_network is strict: no bit is set beyond the prefix.
ValidClient(c) ==
    /\ c.form # "other"
    /\ c.form = "network" =>
          c.bits % (2 ^ (Width[c.version] - c.prefix)) = 0

\* What tells two clients apart: an address is the network of that address
\* alone, and no spelling of "*" is another client.
Identity(c) ==
    CASE c.form = "any" -> <<0, 0, 0>>
      [] c.form = "address" -> <<c.version, c.bits, Width[c.version]>>
      [] OTHER -> <<c.version, c.bits, c.prefix>>

\* Mutant: the texts of the clients differ.
AcceptedTexts(specs) ==
    /\ \A i \in DOMAIN specs : ValidClient(specs[i].client)
    /\ \A i, j \in DOMAIN specs :
          Canonical(specs[i].client) = Canonical(specs[j].client) => i = j

\* A complete list of rules as it is requested.
Accepted(specs) ==
    /\ \A i \in DOMAIN specs : ValidClient(specs[i].client)
    /\ \A i, j \in DOMAIN specs :
          Identity(specs[i].client) = Identity(specs[j].client) => i = j

\* A rule of the NAS; a request asks for AUTH_SYS.  Rules of one content are
\* told apart by a number: the NAS may have several.
Rule ==
    [client: NfsClients, flags: Flags, flavor: {"sys", "kerberos"}, copy: Nat]
AsRule(spec) ==
    [client |-> Canonical(spec.client), flags |-> spec.flags, flavor |-> "sys",
     copy |-> 0]
RuleSet(specs) == {AsRule(specs[i]) : i \in DOMAIN specs}

\* Live rules the client can compare and replace.
Loadable(rules) ==
    \A r \in rules : ValidClient(r.client) /\ r.flavor = "sys"

\* What is compared of a rule.
AsText(r) ==
    [client |-> Canonical(r.client), flags |-> r.flags,
     flavor |-> r.flavor, copy |-> 0]

\* Both lists, sorted by text and flags, are equal.
RulesMatch(specs, live) ==
    /\ RuleSet(specs) = {AsText(r) : r \in live}
    /\ Cardinality(live) = Cardinality(DOMAIN specs)

\* What a rule set grants, by identity and not by text: every client that was
\* asked for has one rule, which grants what was asked; no other has one.
RulesFor(live, id) == {r \in live : Identity(r.client) = id}
GrantsExactly(specs, live) ==
    /\ \A i \in DOMAIN specs : \E r \in live :
          /\ RulesFor(live, Identity(specs[i].client)) = {r}
          /\ r.flags = specs[i].flags /\ r.flavor = "sys"
    /\ \A r \in live : \E i \in DOMAIN specs :
          Identity(r.client) = Identity(specs[i].client)
=============================================================================
