---------------------------- MODULE ImportProofs ----------------------------
(***************************************************************************)
(* Any number of config-import commands on one file: the file is always a  *)
(* complete document, exit codes tell whether it was replaced, and what an *)
(* ended import wrote survives a power failure.  A merge exchanges one     *)
(* entry and no other, merging again changes nothing, and apply-config     *)
(* agrees with what it finds.                                              *)
(***************************************************************************)
EXTENDS ConfigImport, FiniteSetTheorems, SequenceTheorems, TLAPS

(***************************************************************************)
(* The document: what a merge keeps of a list of entries.                  *)
(***************************************************************************)

\* Where i comes among the numbers of K.
Place(K, i) == Cardinality({j \in K : j <= i})

\* A place is a number up to the size of K, and grows.
LEMMA PlaceType ==
    ASSUME NEW n \in Nat, NEW K \in SUBSET (1..n)
    PROVE  /\ IsFiniteSet(K) /\ Cardinality(K) \in Nat
           /\ \A i \in K : Place(K, i) \in 1..Cardinality(K)
           /\ \A i, j \in K : i < j => Place(K, i) < Place(K, j)
<1> DEFINE upTo(i) == {j \in K : j <= i}
<1>1. IsFiniteSet(1..n) /\ \A j \in K : j \in Int
  BY FS_Interval
<1>2. IsFiniteSet(K) /\ Cardinality(K) \in Nat
  BY <1>1, FS_Subset, FS_CardinalityType
<1>3. ASSUME NEW i \in K
      PROVE  /\ IsFiniteSet(upTo(i)) /\ Cardinality(upTo(i)) \in Nat
             /\ Cardinality(upTo(i)) <= Cardinality(K)
             /\ Place(K, i) = Cardinality(upTo(i))
  <2>1. upTo(i) \in SUBSET K
    OBVIOUS
  <2> QED
    BY <1>2, <2>1, FS_Subset, FS_CardinalityType DEF Place
<1>4. ASSUME NEW i \in K
      PROVE  Place(K, i) \in 1..Cardinality(K)
  <2>1. {i} \in SUBSET upTo(i)
    BY <1>1
  <2>2. Cardinality({i}) <= Cardinality(upTo(i)) /\ Cardinality({i}) = 1
    BY <1>3, <2>1, FS_Subset, FS_Singleton
  <2> HIDE DEF upTo
  <2> QED
    BY <1>2, <1>3, <2>2
<1>5. ASSUME NEW i \in K, NEW j \in K, i < j
      PROVE  Place(K, i) < Place(K, j)
  <2>1. \A w \in K : w <= i => w <= j
    BY <1>1, <1>5
  <2>2. j <= j /\ ~ j <= i
    BY <1>1, <1>5
  <2>3. upTo(i) \in SUBSET upTo(j) /\ j \in upTo(j) /\ j \notin upTo(i)
    BY <2>1, <2>2
  <2>4. /\ Cardinality(upTo(i)) <= Cardinality(upTo(j))
        /\ Cardinality(upTo(i)) # Cardinality(upTo(j))
    BY <1>3, <2>3, FS_Subset
  <2> HIDE DEF upTo
  <2> QED
    BY <1>3, <2>4
<1> QED
  BY <1>2, <1>4, <1>5

\* Every place up to the size of K is taken, by one number.
LEMMA PlaceOnto ==
    ASSUME NEW n \in Nat, NEW K \in SUBSET (1..n), NEW k \in 1..Cardinality(K)
    PROVE  \E i \in K : /\ Place(K, i) = k
                        /\ i = CHOOSE j \in K : Place(K, j) = k
<1> DEFINE m == Cardinality(K)
           f == [i \in K |-> Place(K, i)]
<1>1. f \in [K -> 1..m] /\ m \in Nat /\ IsFiniteSet(K)
  BY PlaceType
<1>2. ASSUME NEW i \in K, NEW j \in K, f[i] = f[j] PROVE i = j
  <2>1. f[i] \in Int /\ f[j] \in Int /\ i \in Int /\ j \in Int
    BY <1>1
  <2>2. \A a, b \in K : a < b => Place(K, a) < Place(K, b)
    BY PlaceType
  <2>3. ~ i < j /\ ~ j < i
    BY <1>2, <2>1, <2>2
  <2> QED
    BY <2>1, <2>3
<1>3. f \in Injection(K, 1..m)
  BY <1>1, <1>2 DEF Injection, IsInjective
<1>4. IsFiniteSet(1..m) /\ Cardinality(1..m) = m
  BY <1>1, FS_Interval
<1>5. f \in Surjection(K, 1..m)
  BY <1>3, <1>4, FS_Injection
<1>6. PICK i \in K : Place(K, i) = k
  BY <1>5 DEF Surjection
<1> QED
  BY <1>2, <1>6

\* Without leaves the entries of other names, and all of them.
LEMMA WithoutKeeps ==
    ASSUME NEW S, NEW nodes \in Seq(S), NEW s
    PROVE  LET left == Without(nodes, s)
           IN  /\ left \in Seq(S)
               /\ \A k \in DOMAIN left :
                     /\ left[k].name # s
                     /\ \E i \in DOMAIN nodes : left[k] = nodes[i]
               /\ \A i \in DOMAIN nodes :
                     nodes[i].name # s => \E k \in DOMAIN left : left[k] = nodes[i]
<1> DEFINE n == Len(nodes)
           kept == {i \in DOMAIN nodes : nodes[i].name # s}
           m == Cardinality(kept)
           at(k) == CHOOSE i \in kept : Place(kept, i) = k
           left == [k \in 1..m |-> nodes[at(k)]]
<1>1. n \in Nat /\ DOMAIN nodes = 1..n /\ nodes \in [1..n -> S]
  BY LenProperties
<1>2. kept \in SUBSET (1..n)
  BY <1>1
<1>3. Without(nodes, s) = left
  BY DEF Without, Place
<1>4. m \in Nat /\ \A i \in kept : Place(kept, i) \in 1..m
  BY <1>1, <1>2, PlaceType
<1>5. \A k \in 1..m : at(k) \in kept /\ Place(kept, at(k)) = k
  BY <1>1, <1>2, PlaceOnto
<1>6. \A i \in kept : at(Place(kept, i)) = i
  <2> TAKE i \in kept
  <2>1. /\ at(Place(kept, i)) \in kept
        /\ Place(kept, at(Place(kept, i))) = Place(kept, i)
    BY <1>4, <1>5
  <2>2. \A j \in kept : j \in Int
    BY <1>1, <1>2
  <2>3. \A a, b \in kept : a < b => Place(kept, a) < Place(kept, b)
    BY <1>1, <1>2, PlaceType
  <2>4. \A a \in kept : Place(kept, a) \in Int
    BY <1>4
  <2> HIDE DEF at, kept
  <2> QED
    BY <2>1, <2>2, <2>3, <2>4
<1>7. left \in [1..m -> S]
  BY <1>1, <1>2, <1>5
<1>8. left \in Seq(S)
  BY <1>4, <1>7, SeqDef
<1>9. \A k \in 1..m : left[k].name # s /\ \E i \in DOMAIN nodes : left[k] = nodes[i]
  BY <1>5
<1>10. \A i \in kept : \E k \in 1..m : left[k] = nodes[i]
  BY <1>4, <1>6
<1>11. DOMAIN left = 1..m
  OBVIOUS
<1> HIDE DEF left, m, kept
<1> QED
  BY <1>3, <1>8, <1>9, <1>10, <1>11 DEF kept

\* Of a list without s, with entries of s behind it, Without leaves the list.
LEMMA WithoutOfMerged ==
    ASSUME NEW S, NEW list \in Seq(S), NEW tail \in Seq(S), NEW s,
           \A k \in DOMAIN list : list[k].name # s,
           \A k \in DOMAIN tail : tail[k].name = s
    PROVE  Without(list \o tail, s) = list
<1> DEFINE n == Len(list)
           t == Len(tail)
           all == list \o tail
           kept == {i \in DOMAIN all : all[i].name # s}
<1>1. /\ n \in Nat /\ DOMAIN list = 1..n /\ list = [k \in 1..n |-> list[k]]
      /\ t \in Nat /\ DOMAIN tail = 1..t
  BY LenProperties
<1>2. /\ all \in Seq(S) /\ Len(all) = n + t
      /\ \A i \in 1..(n + t) : all[i] = IF i <= n THEN list[i] ELSE tail[i - n]
  BY ConcatProperties
<1>3. DOMAIN all = 1..(n + t)
  BY <1>2, LenProperties
<1>4. \A i \in 1..(n + t) : i \in 1..n \/ (~ i <= n /\ i - n \in 1..t)
  BY <1>1
<1>5. \A i \in 1..n : i \in 1..(n + t) /\ i <= n
  BY <1>1
<1> HIDE DEF all, n, t
<1>6. kept = 1..n
  BY <1>1, <1>2, <1>3, <1>4, <1>5
<1>7. Cardinality(kept) = n
  <2>1. 1 \in Int /\ n \in Int /\ n >= 0
    BY <1>1
  <2>2. Cardinality(1..n) = IF 1 > n THEN 0 ELSE n - 1 + 1
    BY <2>1, FS_Interval
  <2>3. Cardinality(1..n) = n
    BY <2>1, <2>2
  <2> QED
    BY <1>6, <2>3
<1>8. \A k \in 1..n : Cardinality({j \in kept : j <= k}) = k
  <2> TAKE k \in 1..n
  <2>1. {j \in kept : j <= k} = 1..k /\ k \in Nat
    BY <1>1, <1>6
  <2>2. Cardinality(1..k) = k
    BY <2>1, FS_Interval
  <2> QED
    BY <2>1, <2>2
<1>9. \A k \in 1..n : (CHOOSE i \in kept : Cardinality({j \in kept : j <= i}) = k) = k
  BY <1>6, <1>8
<1>10. Without(all, s) =
         [k \in 1..n |-> all[CHOOSE i \in kept : Cardinality({j \in kept : j <= i}) = k]]
  BY <1>7 DEF Without
<1>11. \A k \in 1..n : all[k] = list[k]
  BY <1>2, <1>5
<1>12. Without(all, s) = [k \in 1..n |-> list[k]]
  BY <1>9, <1>10, <1>11
<1> QED
  BY <1>1, <1>12 DEF all

\* What a merge may be asked to write: a share that was read to the end.
Readable(share) == share \in LiveShare /\ share.nfs # BadRules

Kept == [Dirs -> {"unmanaged", "present", "absent"}]

\* The quota of an entry is a number of GiB.
LEMMA QuotaInGib ==
    ASSUME NEW q \in Nat
    PROVE  q \div QUOTA_MIB_PER_GIB \in Nat
  BY NumbersAssumption

\* The entry made for a share is an entry, with the share's name.
LEMMA ShareNodeType ==
    ASSUME NEW s \in Shares, NEW share, Readable(share), NEW dirs \in Kept
    PROVE  /\ ShareNode(s, share, dirs) \in Node
           /\ ShareNode(s, share, dirs).name = s
<1> DEFINE quota == IF share.quota = Unavailable THEN Unavailable
                    ELSE share.quota \div QUOTA_MIB_PER_GIB
           acl == [a \in Accounts |->
                     IF a = Administrators /\ share.acl[a] = "rw" THEN "none"
                     ELSE share.acl[a]]
<1>1. /\ share.quota \in Quotas /\ share.desc \in Descs /\ share.nfs \in NfsRules
      /\ share.acl \in [Accounts -> Access]
  BY DEF Readable, LiveShare
<1>2. quota \in {Unavailable} \cup Nat
  <2>1. share.quota = Unavailable \/ share.quota = 0 \/ share.quota \in Finite
    BY <1>1 DEF Quotas, Unlimited
  <2>2. share.quota \in Finite => share.quota \in Nat
    BY QuotaAssumption, Zenon
  <2>3. share.quota = Unavailable \/ share.quota \in Nat
    BY <2>1, <2>2
  <2> QED
    BY <2>3, QuotaInGib
<1>3. acl \in [Accounts -> Access]
  BY <1>1 DEF Access
<1>4. ShareNode(s, share, dirs) =
        [name |-> s, state |-> "present", desc |-> share.desc, quota |-> quota,
         acl |-> acl, nfs |-> share.nfs, dirs |-> dirs]
  BY DEF ShareNode
<1> HIDE DEF quota, acl
<1>5. ShareNode(s, share, dirs) \in Node
  BY <1>1, <1>2, <1>3, <1>4 DEF Node, Kept
<1> QED
  BY <1>4, <1>5

\* What a document says about children is kept.
LEMMA KeptDirsType ==
    ASSUME NEW doc \in File, NEW s
    PROVE  KeptDirs(doc, s) \in Kept
<1>1. ASSUME NEW n \in Nodes(doc, s) PROVE n \in Node
  <2>1. PICK v \in Volumes : \E i \in DOMAIN doc.vols[v] : n = doc.vols[v][i]
    BY DEF Nodes
  <2>2. doc.vols[v] \in Seq(Node)
    BY DEF File
  <2> QED
    BY <2>1, <2>2, LenProperties
<1>2. CASE Nodes(doc, s) = {}
  BY <1>2 DEF KeptDirs, Kept
<1>3. CASE Nodes(doc, s) # {}
  <2>1. (CHOOSE n \in Nodes(doc, s) : TRUE) \in Nodes(doc, s)
    BY <1>3
  <2> QED
    BY <1>1, <1>3, <2>1 DEF KeptDirs, Node, Kept
<1> QED
  BY <1>2, <1>3

\* One volume of a merged document: the others in their order, then the entry.
LEMMA MergedVolume ==
    ASSUME NEW doc \in File, NEW s \in Shares, NEW share, Readable(share), NEW h,
           NEW v \in Volumes
    PROVE  LET merged == Merge(doc, s, share, h).vols[v]
               node == ShareNode(s, share, KeptDirs(doc, s))
           IN  /\ merged \in Seq(Node)
               /\ Without(merged, s) = Without(doc.vols[v], s)
               /\ \A i \in DOMAIN merged : merged[i].name = s => merged[i] = node
               /\ v = share.volume => \E i \in DOMAIN merged : merged[i] = node
<1> DEFINE merged == Merge(doc, s, share, h).vols[v]
           node == ShareNode(s, share, KeptDirs(doc, s))
           list == Without(doc.vols[v], s)
           tail == IF v = share.volume THEN <<node>> ELSE <<>>
<1>1. node \in Node /\ node.name = s
  BY KeptDirsType, ShareNodeType
<1>2. doc.vols[v] \in Seq(Node)
  BY DEF File
<1>3. list \in Seq(Node) /\ \A k \in DOMAIN list : list[k].name # s
  BY <1>2, WithoutKeeps
<1>4. /\ tail \in Seq(Node) /\ \A k \in DOMAIN tail : tail[k] = node
      /\ v = share.volume => Len(tail) = 1 /\ tail[1] = node
  BY <1>1
<1>5. merged = list \o tail
  BY DEF Merge
<1> HIDE DEF list, tail, node, merged
<1>6. merged \in Seq(Node)
  BY <1>3, <1>4, <1>5, ConcatProperties
<1>7. Without(merged, s) = list
  BY <1>1, <1>3, <1>4, <1>5, WithoutOfMerged
<1>8. /\ DOMAIN list = 1..Len(list) /\ Len(list) \in Nat
      /\ DOMAIN tail = 1..Len(tail) /\ Len(tail) \in Nat
      /\ DOMAIN merged = 1..Len(merged) /\ Len(merged) = Len(list) + Len(tail)
  BY <1>3, <1>4, <1>5, <1>6, LenProperties, ConcatProperties
<1>9. \A i \in 1..Len(merged) :
        merged[i] = IF i <= Len(list) THEN list[i] ELSE tail[i - Len(list)]
  BY <1>3, <1>4, <1>5, <1>8, ConcatProperties
<1>10. ASSUME NEW i \in DOMAIN merged, merged[i].name = s
       PROVE  merged[i] = node
  <2>1. i \in 1..Len(list) \/ (~ i <= Len(list) /\ i - Len(list) \in 1..Len(tail))
    BY <1>8
  <2>2. i \notin 1..Len(list)
    BY <1>3, <1>8, <1>9, <1>10
  <2> QED
    BY <1>4, <1>8, <1>9, <2>1, <2>2
<1>11. ASSUME v = share.volume
       PROVE  \E i \in DOMAIN merged : merged[i] = node
  <2>1. /\ Len(list) + 1 \in 1..Len(merged) /\ ~ Len(list) + 1 <= Len(list)
        /\ Len(list) + 1 - Len(list) = 1
    BY <1>4, <1>8, <1>11
  <2> QED
    BY <1>4, <1>8, <1>9, <1>11, <2>1
<1> QED
  BY <1>6, <1>7, <1>10, <1>11 DEF merged, node, list

\* A merged document is a document, with the entries of the others in their
\* order and one entry of the share.
LEMMA MergeDoes ==
    ASSUME NEW doc \in File, NEW s \in Shares, NEW share, Readable(share),
           NEW h \in Hosts
    PROVE  LET merged == Merge(doc, s, share, h)
               node == ShareNode(s, share, KeptDirs(doc, s))
           IN  /\ merged \in File
               /\ Others(merged, s) = Others(doc, s)
               /\ Nodes(merged, s) = {node}
               /\ KeptDirs(merged, s) = KeptDirs(doc, s)
               /\ merged.host = IF doc.host = NoHost THEN h ELSE doc.host
<1> DEFINE merged == Merge(doc, s, share, h)
           node == ShareNode(s, share, KeptDirs(doc, s))
           host1 == IF doc.host = NoHost THEN h ELSE doc.host
           vols == [v \in Volumes |->
                      Without(doc.vols[v], s)
                         \o (IF v = share.volume
                             THEN <<ShareNode(s, share, KeptDirs(doc, s))>> ELSE <<>>)]
<1>1. merged = [host |-> host1, tidy |-> TRUE, vols |-> vols]
  BY DEF Merge
<1>2. \A v \in Volumes :
         /\ merged.vols[v] \in Seq(Node)
         /\ Without(merged.vols[v], s) = Without(doc.vols[v], s)
         /\ \A i \in DOMAIN merged.vols[v] :
               merged.vols[v][i].name = s => merged.vols[v][i] = node
         /\ v = share.volume => \E i \in DOMAIN merged.vols[v] : merged.vols[v][i] = node
  BY MergedVolume
<1>3. host1 \in Hosts \cup {NoHost}
  BY DEF File
<1>4. vols \in [Volumes -> Seq(Node)]
  <2>1. merged.vols = vols
    BY <1>1
  <2> HIDE DEF merged
  <2>2. \A v \in Volumes : vols[v] \in Seq(Node)
    BY <1>2, <2>1
  <2> QED
    BY <2>2
<1>5. share.volume \in Volumes
  BY DEF Readable, LiveShare
<1>6. node.name = s
  BY KeptDirsType, ShareNodeType
<1> HIDE DEF merged, node, host1, vols
<1>7. merged \in File
  BY <1>1, <1>3, <1>4 DEF File
<1>8. Others(merged, s) = Others(doc, s)
  BY <1>2 DEF Others
<1>9. Nodes(merged, s) = {node}
  <2>1. ASSUME NEW n \in Nodes(merged, s) PROVE n = node
    <3>1. PICK v \in Volumes : \E i \in DOMAIN merged.vols[v] :
             n = merged.vols[v][i] /\ n.name = s
      BY DEF Nodes
    <3> QED
      BY <1>2, <3>1
  <2>2. node \in Nodes(merged, s)
    <3>1. PICK i \in DOMAIN merged.vols[share.volume] :
             merged.vols[share.volume][i] = node
      BY <1>2, <1>5
    <3> QED
      BY <1>5, <1>6, <3>1 DEF Nodes
  <2> QED
    BY <2>1, <2>2
<1>10. KeptDirs(merged, s) = KeptDirs(doc, s)
  <2>1. (CHOOSE n \in Nodes(merged, s) : TRUE) = node
    BY <1>9
  <2>2. node.dirs = KeptDirs(doc, s)
    BY DEF node, ShareNode
  <2> QED
    BY <1>9, <2>1, <2>2 DEF KeptDirs
<1>11. merged.host = host1
  BY <1>1
<1> QED
  BY <1>7, <1>8, <1>9, <1>10, <1>11 DEF merged, node, host1

\* _merge: importing the same share again leaves the document as it is.
THEOREM MergeIdempotent ==
    ASSUME NEW doc \in File, NEW s \in Shares, NEW share, Readable(share),
           NEW h \in Hosts
    PROVE  Merge(Merge(doc, s, share, h), s, share, h) = Merge(doc, s, share, h)
<1> DEFINE merged == Merge(doc, s, share, h)
<1>1. /\ Others(merged, s) = Others(doc, s) /\ KeptDirs(merged, s) = KeptDirs(doc, s)
      /\ merged.host = IF doc.host = NoHost THEN h ELSE doc.host
  BY MergeDoes
<1>2. \A v \in Volumes : Without(merged.vols[v], s) = Without(doc.vols[v], s)
  BY MergedVolume
<1>3. merged.host # NoHost
  BY <1>1, HostAssumption
<1> HIDE DEF merged
<1>4. Merge(merged, s, share, h) = Merge(doc, s, share, h)
  BY <1>1, <1>2, <1>3 DEF Merge
<1> QED
  BY <1>4 DEF merged

\* A quota of whole GiB comes back from GiB as it was.
LEMMA WholeGib ==
    ASSUME NEW q \in Nat, q % QUOTA_MIB_PER_GIB = 0
    PROVE  (q \div QUOTA_MIB_PER_GIB) * QUOTA_MIB_PER_GIB = q
<1>1. QUOTA_MIB_PER_GIB \in Int /\ QUOTA_MIB_PER_GIB > 0
  BY NumbersAssumption
<1> QED
  BY <1>1, SMTT(30)

\* config-import and apply-config agree: of the entry an import writes, once
\* the document is accepted, apply-config finds nothing to do for the share.
THEOREM ImportedShareIsSettled ==
    ASSUME NEW doc \in File, NEW s \in Shares, NEW share, Readable(share),
           Representable(share), NEW h \in Hosts, Strict(Merge(doc, s, share, h))
    PROVE  \A n \in Nodes(Merge(doc, s, share, h), s) :
              /\ Parsed(n, share.volume).quota = share.quota
              /\ ~ ScalarsDiffer(Parsed(n, share.volume), share)
              /\ AclMatches(Parsed(n, share.volume), share.acl)
              /\ n.nfs = share.nfs
<1> DEFINE merged == Merge(doc, s, share, h)
           n == ShareNode(s, share, KeptDirs(doc, s))
           want == Parsed(n, share.volume)
<1>1. Nodes(merged, s) = {n}
  BY MergeDoes
<1>2. /\ share.quota \in Quotas /\ share.desc \in Descs
      /\ share.acl \in [Accounts -> Access]
  BY DEF Readable, LiveShare
<1>3. /\ n.desc = share.desc /\ n.nfs = share.nfs
      /\ n.quota = IF share.quota = Unavailable THEN Unavailable
                   ELSE share.quota \div QUOTA_MIB_PER_GIB
      /\ n.acl = [a \in Accounts |->
                    IF a = Administrators /\ share.acl[a] = "rw" THEN "none"
                    ELSE share.acl[a]]
  BY DEF ShareNode
<1>4. n.acl[Administrators] = "none"
  <2>1. \E v \in Volumes : \E i \in DOMAIN merged.vols[v] : merged.vols[v][i] = n
    BY <1>1 DEF Nodes
  <2> HIDE DEF n, merged
  <2> QED
    BY <2>1 DEF Strict, merged
<1>5. /\ want.desc = n.desc /\ want.acl = [a \in Principals |-> n.acl[a]]
      /\ want.quota = IF n.quota = Unavailable THEN Unavailable
                      ELSE n.quota * QUOTA_MIB_PER_GIB
  BY DEF Parsed
<1> HIDE DEF n, want, merged
<1>6. want.quota = share.quota
  <2>1. CASE share.quota = Unavailable
    BY <1>3, <1>5, <2>1
  <2>2. CASE share.quota # Unavailable
    <3>1. share.quota = 0 \/ share.quota \in Finite
      BY <1>2, <2>2 DEF Quotas, Unlimited
    <3>2. share.quota \in Finite => share.quota \in Nat
      BY QuotaAssumption, Zenon
    <3>3. share.quota \in Nat
      BY <3>1, <3>2
    <3>4. share.quota % QUOTA_MIB_PER_GIB = 0
      BY <2>2 DEF Representable
    <3>5. n.quota = share.quota \div QUOTA_MIB_PER_GIB /\ n.quota \in Nat
      BY <1>3, <2>2, <3>3, QuotaInGib
    <3>6. n.quota # Unavailable
      BY <3>5 DEF Unavailable
    <3> QED
      BY <1>5, <3>3, <3>4, <3>5, <3>6, WholeGib
  <2> QED
    BY <2>1, <2>2
<1>7. ~ ScalarsDiffer(want, share)
  <2>1. want.desc = share.desc /\ want.desc # Omitted
    BY <1>2, <1>3, <1>5, DescAssumption
  <2> QED
    BY <1>6, <2>1 DEF ScalarsDiffer, EffectiveDesc, QuotaPlanned
<1>8. AclMatches(want, share.acl)
  <2>1. \A a \in Principals : want.acl[a] = share.acl[a]
    BY <1>3, <1>5, PrincipalAssumption DEF Accounts
  <2>2. share.acl[Administrators] \in {"none", "rw"}
    BY <1>3, <1>4 DEF Accounts
  <2> QED
    BY <2>1, <2>2 DEF AclMatches
<1> QED
  BY <1>1, <1>3, <1>6, <1>7, <1>8 DEF want, merged

(***************************************************************************)
(* The commands.                                                           *)
(***************************************************************************)

\* The variables of the commands are functions, and exit codes are codes.
ShapeInv ==
    /\ pc \in [Imports -> {"load", "validate", "list", "state", "acl", "nfs",
                           "merge", "fsync", "replace", "syncdir", "done"}]
    /\ temp \in [Imports -> {"none", "volatile", "safe"}]
    /\ exit \in [Imports -> {0, 10, 12, 20, 30, 40, Running, Killed}]
    /\ action \in [Imports -> {"none", "no-change", "imported"}]
    /\ written \in [Imports -> BOOLEAN] /\ synced \in [Imports -> BOOLEAN]
    /\ fileQuiet \in [Imports -> BOOLEAN]
    /\ job \in [Imports -> Jobs]

\* What is about to replace the file has been flushed, and so has all the path
\* may name after a power failure.
WholeInv ==
    /\ data = "safe" /\ \A held \in onDisk : held.data = "safe"
    /\ \A p \in Imports : pc[p] = "replace" => temp[p] = "safe"

\* How far a command is tells whether it has replaced the file.
WrittenInv(p) ==
    /\ pc[p] \notin {"syncdir", "done"} => ~ written[p]
    /\ pc[p] \in {"fsync", "replace", "syncdir"} => job[p].yes
    /\ pc[p] = "syncdir" => written[p]
    /\ pc[p] = "done" /\ exit[p] # Killed =>
          (written[p] <=> exit[p] = 0 /\ action[p] = "imported" /\ job[p].yes)

\* After the directory is flushed a power failure can bring back nothing else,
\* until somebody replaces the file.
DurableInv(p) ==
    /\ pc[p] # "done" => ~ synced[p]
    /\ written[p] /\ synced[p] /\ fileQuiet[p] => onDisk = {Held}

ImportInv == \A p \in Imports : WrittenInv(p) /\ DurableInv(p)

Inv == ShapeInv /\ WholeInv /\ ImportInv

\* No command has begun, and the file is on the disk.
LEMMA InitInv == Init => Inv
<1> SUFFICES ASSUME Init PROVE Inv
  OBVIOUS
<1>1. ShapeInv
  BY DEF Init, ShapeInv
<1>2. WholeInv
  BY DEF Init, WholeInv, Held
<1>3. ImportInv
  BY DEF Init, ImportInv, WrittenInv, DurableInv
<1> QED
  BY <1>1, <1>2, <1>3 DEF Inv

\* A command that reads, or goes on without touching the file.
LEMMA ReadingStep ==
    ASSUME Inv, NEW p \in Imports,
           \/ Load(p) \/ Validate(p) \/ ListShares(p) \/ ReadState(p) \/ ReadAcl(p)
           \/ ReadNfs(p) \/ WriteTemp(p) \/ SyncTemp(p)
    PROVE  Inv'
<1>1. UNCHANGED <<file, data, onDisk, job, exit, action, written, synced>>
  BY DEF Load, Validate, ListShares, ReadState, ReadAcl, ReadNfs, Read, WriteTemp,
     SyncTemp, world, ghosts
<1>2. \E next \in {"validate", "list", "state", "acl", "nfs", "merge", "fsync", "replace"} :
         /\ pc[p] \notin {"syncdir", "done"} /\ pc' = [pc EXCEPT ![p] = next]
         /\ next = "fsync" => job[p].yes
         /\ next = "replace" => pc[p] = "fsync" /\ temp' = [temp EXCEPT ![p] = "safe"]
  BY DEF Load, Validate, ListShares, ReadState, ReadAcl, ReadNfs, Read, WriteTemp,
     SyncTemp, Go
<1>3. \/ temp' = temp \/ \E t \in {"volatile", "safe"} : temp' = [temp EXCEPT ![p] = t]
  BY DEF Load, Validate, ListShares, ReadState, ReadAcl, ReadNfs, Read, WriteTemp,
     SyncTemp
<1>4. fileQuiet' = fileQuiet \/ (pc[p] = "load" /\ fileQuiet' = [fileQuiet EXCEPT ![p] = TRUE])
  BY DEF Load, Validate, ListShares, ReadState, ReadAcl, ReadNfs, Read, WriteTemp,
     SyncTemp, Go, ghosts
<1>5. ShapeInv'
  <2>1. pc' \in [Imports -> {"load", "validate", "list", "state", "acl", "nfs",
                             "merge", "fsync", "replace", "syncdir", "done"}]
    BY <1>2 DEF Inv, ShapeInv
  <2>2. temp' \in [Imports -> {"none", "volatile", "safe"}]
    BY <1>3 DEF Inv, ShapeInv
  <2>3. fileQuiet' \in [Imports -> BOOLEAN]
    BY <1>4 DEF Inv, ShapeInv
  <2> QED
    BY <1>1, <2>1, <2>2, <2>3 DEF Inv, ShapeInv
<1>6. WholeInv'
  BY <1>1, <1>2, <1>3 DEF Inv, ShapeInv, WholeInv
<1>7. ASSUME NEW q \in Imports
      PROVE  WrittenInv(q)' /\ DurableInv(q)'
  <2>1. CASE q = p
    BY <1>1, <1>2, <2>1 DEF Inv, ShapeInv, ImportInv, WrittenInv, DurableInv
  <2>2. CASE q # p
    <3>1. pc'[q] = pc[q] /\ fileQuiet'[q] = fileQuiet[q] /\ Held' = Held
      BY <1>1, <1>2, <1>4, <2>2 DEF Inv, ShapeInv, Held
    <3> QED
      BY <1>1, <3>1 DEF Inv, ImportInv, WrittenInv, DurableInv
  <2> QED
    BY <2>1, <2>2
<1> QED
  BY <1>5, <1>6, <1>7 DEF Inv, ImportInv

\* A command that ends without another change.
LEMMA EndingStep ==
    ASSUME Inv, NEW p \in Imports, pc[p] # "done",
           UNCHANGED <<file, data, job, written, fileQuiet>>,
           \/ onDisk' = onDisk /\ synced' = synced
           \/ /\ onDisk' = {Held} /\ synced' = [synced EXCEPT ![p] = TRUE],
           temp' = temp \/ temp' = [temp EXCEPT ![p] = "none"],
           NEW code \in {0, 10, 12, 20, 30, 40, Killed},
           NEW what \in {"none", "no-change", "imported"}, Stop(p, code, what),
           code # Killed =>
              (written[p] <=> code = 0 /\ what = "imported" /\ job[p].yes)
    PROVE  Inv'
<1>1. /\ pc' = [pc EXCEPT ![p] = "done"] /\ exit' = [exit EXCEPT ![p] = code]
      /\ action' = [action EXCEPT ![p] = what]
  BY DEF Stop
<1>2. ShapeInv'
  BY <1>1 DEF Inv, ShapeInv
<1>3. WholeInv'
  BY <1>1 DEF Inv, ShapeInv, WholeInv, Held
<1>4. ASSUME NEW q \in Imports
      PROVE  WrittenInv(q)' /\ DurableInv(q)'
  <2>1. Held' = Held
    BY DEF Held
  <2>2. WrittenInv(q)'
    BY <1>1 DEF Inv, ShapeInv, ImportInv, WrittenInv
  <2>3. DurableInv(q)'
    BY <1>1, <2>1 DEF Inv, ShapeInv, ImportInv, DurableInv
  <2> QED
    BY <2>2, <2>3
<1> QED
  BY <1>2, <1>3, <1>4 DEF Inv, ImportInv

\* The ends of a command, well or badly.
LEMMA EndingSteps ==
    ASSUME Inv, NEW p \in Imports,
           \/ RejectFile(p) \/ RejectLive(p) \/ RejectMerged(p) \/ ShowDiff(p)
           \/ SyncDirectory(p) \/ CallFails(p) \/ WriteFails(p) \/ SyncDirectoryFails(p)
           \/ Kill(p)
    PROVE  Inv'
<1>1. CASE RejectFile(p) \/ RejectLive(p) \/ RejectMerged(p) \/ CallFails(p)
  <2>1. /\ pc[p] \notin {"syncdir", "done"}
        /\ UNCHANGED <<file, data, onDisk, job, temp, written, synced, fileQuiet>>
        /\ \E code \in {10, 20, 30, 40} : Stop(p, code, "none")
    BY <1>1 DEF RejectFile, RejectLive, RejectMerged, CallFails, world, ghosts
  <2>2. PICK code \in {10, 20, 30, 40} : Stop(p, code, "none")
    BY <2>1
  <2>3. ~ written[p]
    BY <2>1 DEF Inv, ImportInv, WrittenInv
  <2> QED
    BY <2>1, <2>2, <2>3, EndingStep
<1>2. CASE WriteFails(p)
  <2>1. /\ pc[p] \in {"fsync", "replace"} /\ Stop(p, 12, "none")
        /\ UNCHANGED <<file, data, onDisk, job, written, synced, fileQuiet>>
        /\ temp' = [temp EXCEPT ![p] = "none"]
    BY <1>2 DEF WriteFails, world, ghosts
  <2>2. ~ written[p]
    BY <2>1 DEF Inv, ImportInv, WrittenInv
  <2> QED
    BY <2>1, <2>2, EndingStep
<1>3. CASE ShowDiff(p)
  <2> DEFINE what == IF Rendered(p) = text[p] THEN "no-change" ELSE "imported"
  <2>1. /\ pc[p] = "merge" /\ Stop(p, 0, what)
        /\ UNCHANGED <<file, data, onDisk, job, temp, written, synced, fileQuiet>>
        /\ what = "imported" => ~ job[p].yes
        /\ what \in {"none", "no-change", "imported"}
    BY <1>3 DEF ShowDiff, world, ghosts
  <2>2. ~ written[p]
    BY <2>1 DEF Inv, ImportInv, WrittenInv
  <2> HIDE DEF what
  <2> QED
    BY <2>1, <2>2, EndingStep
<1>4. CASE SyncDirectory(p) \/ SyncDirectoryFails(p)
  <2>1. /\ pc[p] = "syncdir" /\ Stop(p, 0, "imported")
        /\ UNCHANGED <<file, data, job, temp, written, fileQuiet>>
        /\ \/ onDisk' = onDisk /\ synced' = synced
           \/ onDisk' = {Held} /\ synced' = [synced EXCEPT ![p] = TRUE]
    BY <1>4 DEF SyncDirectory, SyncDirectoryFails, world, ghosts
  <2>2. written[p] /\ job[p].yes
    BY <2>1 DEF Inv, ImportInv, WrittenInv
  <2> QED
    BY <2>1, <2>2, EndingStep
<1>5. CASE Kill(p)
  <2>1. /\ pc[p] # "done" /\ Stop(p, Killed, "none")
        /\ UNCHANGED <<file, data, onDisk, job, temp, written, synced, fileQuiet>>
    BY <1>5 DEF Kill, world, ghosts
  <2> QED
    BY <2>1, EndingStep
<1> QED
  BY <1>1, <1>2, <1>3, <1>4, <1>5

\* The file is replaced, by what was flushed; all others are disturbed.
LEMMA ReplaceStep ==
    ASSUME Inv, NEW p \in Imports, Replace(p)
    PROVE  Inv'
<1>1. /\ pc[p] = "replace" /\ pc' = [pc EXCEPT ![p] = "syncdir"]
      /\ data' = temp[p] /\ onDisk' = onDisk \cup {Held'}
      /\ temp' = [temp EXCEPT ![p] = "none"]
      /\ written' = [written EXCEPT ![p] = TRUE]
      /\ fileQuiet' = [q \in Imports |-> fileQuiet[q] /\ q = p]
      /\ UNCHANGED <<job, exit, action, synced>>
  BY DEF Replace, Go
<1>2. data' = "safe"
  BY <1>1 DEF Inv, WholeInv
<1>3. ShapeInv'
  BY <1>1 DEF Inv, ShapeInv
<1>4. WholeInv'
  BY <1>1, <1>2 DEF Inv, ShapeInv, WholeInv, Held
<1>5. ASSUME NEW q \in Imports
      PROVE  WrittenInv(q)' /\ DurableInv(q)'
  <2>1. WrittenInv(q)'
    BY <1>1 DEF Inv, ShapeInv, ImportInv, WrittenInv
  <2>2. pc'[q] # "done" => ~ synced'[q]
    BY <1>1 DEF Inv, ShapeInv, ImportInv, DurableInv
  <2>3. ~ (synced'[q] /\ fileQuiet'[q])
    BY <1>1 DEF Inv, ImportInv, DurableInv
  <2> QED
    BY <2>1, <2>2, <2>3 DEF DurableInv
<1> QED
  BY <1>3, <1>4, <1>5 DEF Inv, ImportInv

\* A power failure, an edit of the file, an edit of a NAS.
LEMMA OutsideStep ==
    ASSUME Inv, PowerFailure \/ EditFile \/ EditNas \/ UNCHANGED vars
    PROVE  Inv'
<1>1. CASE PowerFailure
  <2>1. PICK kept \in onDisk : /\ file' = kept.doc
                               /\ data' = IF kept.data = "safe" THEN "safe" ELSE "partial"
    BY <1>1 DEF PowerFailure
  <2>2. /\ onDisk' = {Held'} /\ pc' = [p \in Imports |-> "done"]
        /\ exit' = [p \in Imports |-> IF pc[p] = "done" THEN exit[p] ELSE Killed]
        /\ UNCHANGED <<job, temp, action, written, synced, fileQuiet>>
    BY <1>1 DEF PowerFailure, ghosts
  <2>3. data' = "safe"
    BY <2>1 DEF Inv, WholeInv
  <2>4. ShapeInv'
    BY <2>2 DEF Inv, ShapeInv
  <2>5. WholeInv'
    BY <2>2, <2>3 DEF WholeInv, Held
  <2>6. ImportInv'
    BY <2>2 DEF Inv, ShapeInv, ImportInv, WrittenInv, DurableInv
  <2> QED
    BY <2>4, <2>5, <2>6 DEF Inv
<1>2. CASE EditFile
  <2>1. /\ data' = "safe" /\ onDisk' = {Held'} /\ fileQuiet' = [p \in Imports |-> FALSE]
        /\ UNCHANGED <<job, pc, temp, exit, action, written, synced>>
    BY <1>2 DEF EditFile, command
  <2>2. ShapeInv'
    BY <2>1 DEF Inv, ShapeInv
  <2>3. WholeInv'
    BY <2>1 DEF Inv, WholeInv, Held
  <2>4. ImportInv'
    BY <2>1 DEF Inv, ImportInv, WrittenInv, DurableInv
  <2> QED
    BY <2>2, <2>3, <2>4 DEF Inv
<1>3. CASE EditNas \/ UNCHANGED vars
  <2>1. UNCHANGED <<file, data, onDisk, job, pc, temp, exit, action, written, synced,
                    fileQuiet>>
    BY <1>3 DEF EditNas, vars, world, command, ghosts
  <2>2. ShapeInv' /\ WholeInv' /\ Held' = Held
    BY <2>1 DEF Inv, ShapeInv, WholeInv, Held
  <2>3. ImportInv'
    BY <2>1, <2>2 DEF Inv, ImportInv, WrittenInv, DurableInv
  <2> QED
    BY <2>2, <2>3 DEF Inv
<1> QED
  BY <1>1, <1>2, <1>3

\* Every step keeps the invariant.
LEMMA StepInv ==
    ASSUME Inv, [Next]_vars
    PROVE  Inv'
<1>1. CASE \E p \in Imports : Command(p) \/ CallFails(p) \/ WriteFails(p)
                              \/ SyncDirectoryFails(p) \/ Kill(p)
  BY <1>1, ReadingStep, EndingSteps, ReplaceStep DEF Command
<1>2. CASE PowerFailure \/ EditFile \/ EditNas \/ UNCHANGED vars
  BY <1>2, OutsideStep
<1> QED
  BY <1>1, <1>2 DEF Next

\* An ended import's document stays until somebody replaces it.
LEMMA StepSurvives ==
    ASSUME Inv, [Next]_vars, NEW p \in Imports,
           pc[p] = "done", written[p], synced[p], fileQuiet[p], fileQuiet'[p]
    PROVE  file' = file
<1>1. CASE PowerFailure
  <2>1. onDisk = {Held}
    BY DEF Inv, ImportInv, DurableInv
  <2>2. PICK kept \in onDisk : file' = kept.doc
    BY <1>1 DEF PowerFailure
  <2> QED
    BY <2>1, <2>2 DEF Held
<1>2. CASE EditFile
  BY <1>2 DEF EditFile
<1>3. ASSUME NEW q \in Imports, Replace(q)
      PROVE  file' = file
  <2>1. pc[q] = "replace" /\ fileQuiet' = [r \in Imports |-> fileQuiet[r] /\ r = q]
    BY <1>3 DEF Replace, Go
  <2> QED
    BY <2>1
<1>4. ASSUME NEW q \in Imports,
             \/ Command(q) /\ ~ Replace(q)
             \/ CallFails(q) \/ WriteFails(q) \/ SyncDirectoryFails(q) \/ Kill(q)
      PROVE  file' = file
  BY <1>4 DEF Command, Load, Validate, RejectFile, ListShares, ReadState, ReadAcl,
     ReadNfs, Read, RejectLive, RejectMerged, ShowDiff, WriteTemp, SyncTemp,
     SyncDirectory, CallFails, WriteFails, SyncDirectoryFails, Kill, world
<1>5. CASE EditNas \/ UNCHANGED vars
  BY <1>5 DEF EditNas, vars, world
<1> QED
  BY <1>1, <1>2, <1>3, <1>4, <1>5 DEF Next

\* atomic_write: whenever processes are killed, file operations fail or the
\* power does, the path names a complete document.
THEOREM ImportFileIsWhole == Spec => []FileIsWhole
<1>1. Init => Inv
  BY InitInv
<1>2. Inv /\ [Next]_vars => Inv'
  BY StepInv
<1>3. Inv => FileIsWhole
  BY DEF Inv, WholeInv, FileIsWhole
<1> QED
  BY <1>1, <1>2, <1>3, PTL DEF Spec

\* config-import: the exit code and the action tell whether the file was
\* replaced.
THEOREM ImportExitTellsWrite == Spec => []ExitTellsWrite
<1>1. Init => Inv
  BY InitInv
<1>2. Inv /\ [Next]_vars => Inv'
  BY StepInv
<1>3. Inv => ExitTellsWrite
  BY DEF Inv, ImportInv, WrittenInv, ExitTellsWrite
<1> QED
  BY <1>1, <1>2, <1>3, PTL DEF Spec

\* config-import: a power failure does not take back an import that has ended
\* and whose directory was flushed.
THEOREM ImportSurvives == Spec => EndedImportSurvives
<1>1. Init => Inv
  BY InitInv
<1>2. Inv /\ [Next]_vars => Inv'
  BY StepInv
<1>3. Inv /\ [Next]_vars =>
        [\A p \in Imports :
            pc[p] = "done" /\ written[p] /\ synced[p] /\ fileQuiet[p] /\ fileQuiet'[p]
               => file' = file]_vars
  BY StepSurvives
<1> QED
  BY <1>1, <1>2, <1>3, PTL DEF Spec, EndedImportSurvives

(***************************************************************************)
(* What a command knows and writes.                                        *)
(***************************************************************************)

\* From the merge on: what was read can be written down, and what is written
\* has been validated.
MergeInv(p) ==
    /\ pc[p] \in {"merge", "fsync", "replace", "syncdir"} \/ written[p] =>
          seen[p].nfs # BadRules
    /\ pc[p] \in {"fsync", "replace", "syncdir"} \/ written[p] =>
          Representable(seen[p]) /\ Strict(Rendered(p))

\* As long as nobody else replaces the file, it is what was loaded, and then
\* what was made of it.
FileInv(p) ==
    fileQuiet[p] =>
       /\ pc[p] \in {"validate", "list", "state", "acl", "nfs", "merge", "fsync",
                     "replace"} => text[p] = file
       /\ pc[p] \in {"list", "state", "acl", "nfs", "merge", "fsync", "replace"} =>
             Strict(file)
       /\ pc[p] = "syncdir" \/ (pc[p] = "done" /\ written[p] /\ synced[p]) =>
             file = Rendered(p)

\* As long as nobody edits the NAS, what was read of the share is what it is.
NasInv(p) ==
    nasQuiet[p] =>
       /\ pc[p] = "acl" =>
             seen[p] = [Target(p) EXCEPT !.acl = seen[p].acl, !.nfs = seen[p].nfs]
       /\ pc[p] = "nfs" => seen[p] = [Target(p) EXCEPT !.nfs = seen[p].nfs]
       /\ pc[p] \in {"merge", "fsync", "replace", "syncdir"} \/ written[p] =>
             seen[p] = Target(p)

KnowInv == \A p \in Imports : MergeInv(p) /\ FileInv(p) /\ NasInv(p)

FullInv == Inv /\ TypeOK /\ KnowInv

\* The record nothing has been read into is one of a share.
LEMMA VacantType == Vacant \in LiveShare
<1>1. (CHOOSE v \in Volumes : TRUE) \in Volumes
  BY VolumeAssumption
<1>2. Unavailable \in Quotas
  BY DEF Quotas
<1>3. [a \in Accounts |-> "none"] \in [Accounts -> Access]
  BY DEF Access
<1>4. [d \in Dirs |-> "missing"] \in [Dirs -> DirKinds]
  BY DEF DirKinds
<1> QED
  BY <1>1, <1>2, <1>3, <1>4, DescAssumption, RulesAssumption DEF Vacant, LiveShare

\* A host's share is a share.
LEMMA TargetType ==
    ASSUME TypeOK, NEW p \in Imports
    PROVE  /\ job[p] \in Job /\ job[p].target \in Shares /\ host[p] \in Hosts
           /\ Target(p) \in LiveShare /\ seen[p] \in LiveShare /\ text[p] \in File
<1>1. job[p] \in Job
  BY JobAssumption DEF TypeOK
<1>2. job[p].target \in Shares /\ host[p] \in Hosts
  BY <1>1 DEF TypeOK, Job
<1> QED
  BY <1>1, <1>2 DEF TypeOK, Target

\* What a command is about to write is a document.
LEMMA RenderedType ==
    ASSUME TypeOK, NEW p \in Imports, seen[p].nfs # BadRules
    PROVE  /\ Readable(seen[p]) /\ Rendered(p) \in File
           /\ Others(Rendered(p), job[p].target) = Others(text[p], job[p].target)
           /\ \A n \in Nodes(Rendered(p), job[p].target) :
                 n.dirs = KeptDirs(text[p], job[p].target)
           /\ text[p].host # NoHost => Rendered(p).host = text[p].host
<1>1. /\ text[p] \in File /\ job[p].target \in Shares /\ Readable(seen[p])
      /\ host[p] \in Hosts
  BY TargetType DEF Readable
<1>2. /\ Rendered(p) \in File
      /\ Others(Rendered(p), job[p].target) = Others(text[p], job[p].target)
      /\ Nodes(Rendered(p), job[p].target) =
           {ShareNode(job[p].target, seen[p], KeptDirs(text[p], job[p].target))}
      /\ Rendered(p).host = IF text[p].host = NoHost THEN host[p] ELSE text[p].host
  BY <1>1, MergeDoes DEF Rendered
<1>3. \A n \in Nodes(Rendered(p), job[p].target) :
         n.dirs = KeptDirs(text[p], job[p].target)
  BY <1>2 DEF ShareNode
<1> QED
  BY <1>1, <1>2, <1>3

\* What Inv says nothing of keeps its type.
LEMMA TypeStep ==
    ASSUME FullInv, [Next]_vars
    PROVE  TypeOK'
<1> DEFINE Rest == /\ file \in File /\ data \in {"safe", "volatile", "partial"}
                   /\ \A held \in onDisk :
                         held.doc \in File /\ held.data \in {"safe", "volatile"}
                   /\ live \in [Hosts -> [Shares -> LiveShare]]
                   /\ text \in [Imports -> File] /\ host \in [Imports -> Hosts]
                   /\ seen \in [Imports -> LiveShare]
                   /\ nasQuiet \in [Imports -> BOOLEAN]
                   /\ edits \in 0..MaxEdits /\ faults \in 0..MaxFaults
<1>1. Inv'
  BY StepInv DEF FullInv
<1>2. Rest' => TypeOK'
  BY <1>1 DEF Inv, ShapeInv, TypeOK
<1>3. Rest
  BY DEF FullInv, TypeOK
<1> USE NumbersAssumption
<1>4. CASE \E p \in Imports : Load(p) \/ Validate(p)
  <2>1. PICK p \in Imports : Load(p) \/ Validate(p)
    BY <1>4
  <2>2. job[p].host \in Hosts
    BY TargetType DEF FullInv, Job
  <2>3. UNCHANGED <<world, seen, edits, faults>>
    BY <2>1 DEF Load, Validate
  <2>4. text' \in [Imports -> File]
    BY <1>3, <2>1 DEF Load, Validate
  <2>5. host' \in [Imports -> Hosts]
    <3>1. ASSUME NEW document \in Validated(p)
          PROVE  document \in File
      BY <1>3 DEF Validated
    <3>2. ASSUME NEW document \in File, document.host # NoHost
          PROVE  document.host \in Hosts
      BY <3>2 DEF File
    <3>3. CASE Load(p)
      BY <1>3, <3>3 DEF Load
    <3>4. CASE Validate(p)
      BY <1>3, <2>2, <3>1, <3>2, <3>4 DEF Validate
    <3> QED
      BY <2>1, <3>3, <3>4
  <2>6. nasQuiet' \in [Imports -> BOOLEAN]
    BY <1>3, <2>1 DEF Load, Validate
  <2> QED
    BY <1>2, <1>3, <2>3, <2>4, <2>5, <2>6 DEF world
<1>5. CASE \E p \in Imports : ReadState(p) \/ ReadAcl(p) \/ ReadNfs(p)
  <2>1. PICK p \in Imports : ReadState(p) \/ ReadAcl(p) \/ ReadNfs(p)
    BY <1>5
  <2>2. Target(p) \in LiveShare /\ seen[p] \in LiveShare
    BY TargetType DEF FullInv
  <2>3. \E share \in LiveShare : seen' = [seen EXCEPT ![p] = share]
    <3>1. /\ [Target(p) EXCEPT !.acl = seen[p].acl, !.nfs = seen[p].nfs] \in LiveShare
          /\ [seen[p] EXCEPT !.acl = Target(p).acl] \in LiveShare
          /\ [seen[p] EXCEPT !.nfs = Target(p).nfs] \in LiveShare
      BY <2>2 DEF LiveShare
    <3> QED
      BY <2>1, <3>1 DEF ReadState, ReadAcl, ReadNfs, Read
  <2>4. UNCHANGED <<world, text, host, nasQuiet, edits, faults>>
    BY <2>1 DEF ReadState, ReadAcl, ReadNfs, Read, ghosts
  <2> QED
    BY <1>2, <1>3, <2>3, <2>4 DEF world
<1>6. CASE \E p \in Imports :
             \/ RejectFile(p) \/ ListShares(p) \/ RejectLive(p) \/ RejectMerged(p)
             \/ ShowDiff(p) \/ WriteTemp(p) \/ SyncTemp(p)
             \/ CallFails(p) \/ WriteFails(p) \/ SyncDirectoryFails(p) \/ Kill(p)
  <2>1. UNCHANGED <<world, text, host, seen, nasQuiet, edits>>
    BY <1>6 DEF RejectFile, ListShares, RejectLive, RejectMerged, ShowDiff, WriteTemp,
       SyncTemp, CallFails, WriteFails, SyncDirectoryFails, Kill, ghosts
  <2>2. faults' = faults \/ (faults < MaxFaults /\ faults' = faults + 1)
    BY <1>6 DEF RejectFile, ListShares, RejectLive, RejectMerged, ShowDiff, WriteTemp,
       SyncTemp, CallFails, WriteFails, SyncDirectoryFails, Kill, Spend
  <2>3. faults' \in 0..MaxFaults
    BY <1>3, <2>2
  <2> QED
    BY <1>2, <1>3, <2>1, <2>3 DEF world
<1>7. CASE \E p \in Imports : Replace(p)
  <2>1. PICK p \in Imports : Replace(p)
    BY <1>7
  <2>2. /\ pc[p] = "replace" /\ file' = Rendered(p) /\ data' = temp[p]
        /\ onDisk' = onDisk \cup {[doc |-> file', data |-> data']}
        /\ UNCHANGED <<live, text, host, seen, nasQuiet, edits, faults>>
    BY <2>1 DEF Replace, Go, Held
  <2>3. data' = "safe"
    BY <2>2 DEF FullInv, Inv, WholeInv
  <2>4. file' \in File
    BY <2>2, RenderedType DEF FullInv, KnowInv, MergeInv
  <2> QED
    BY <1>2, <1>3, <2>2, <2>3, <2>4
<1>8. CASE \E p \in Imports : SyncDirectory(p)
  <2>1. /\ onDisk' = {[doc |-> file, data |-> data]}
        /\ UNCHANGED <<file, data, live, text, host, seen, nasQuiet, edits, faults>>
    BY <1>8 DEF SyncDirectory, Held
  <2>2. data = "safe"
    BY DEF FullInv, Inv, WholeInv
  <2> QED
    BY <1>2, <1>3, <2>1, <2>2
<1>9. CASE PowerFailure
  <2>1. PICK kept \in onDisk : /\ file' = kept.doc
                               /\ data' = IF kept.data = "safe" THEN "safe" ELSE "partial"
    BY <1>9 DEF PowerFailure
  <2>2. /\ onDisk' = {[doc |-> file', data |-> data']}
        /\ UNCHANGED <<live, text, host, seen, nasQuiet, edits>>
        /\ faults < MaxFaults /\ faults' = faults + 1
    BY <1>9 DEF PowerFailure, ghosts, Spend, Held
  <2>3. data' = "safe" /\ file' \in File
    BY <1>3, <2>1 DEF FullInv, Inv, WholeInv
  <2>4. faults' \in 0..MaxFaults
    BY <1>3, <2>2
  <2> QED
    BY <1>2, <1>3, <2>2, <2>3, <2>4
<1>10. CASE EditFile
  <2>1. /\ file' \in FileEdits /\ data' = "safe"
        /\ onDisk' = {[doc |-> file', data |-> data']}
        /\ UNCHANGED <<live, text, host, seen, nasQuiet, faults>>
        /\ edits < MaxEdits /\ edits' = edits + 1
    BY <1>10 DEF EditFile, command, Held
  <2>2. file' \in File
    BY <2>1, FilesAssumption
  <2>3. edits' \in 0..MaxEdits
    BY <1>3, <2>1
  <2> QED
    BY <1>2, <1>3, <2>1, <2>2, <2>3
<1>11. CASE EditNas
  <2>1. PICK h \in Hosts, s \in Shares, share \in LiveEdits \cup {Vacant} :
           live' = [live EXCEPT ![h][s] = share]
    BY <1>11 DEF EditNas
  <2>2. share \in LiveShare
    <3>1. Vacant \in LiveShare
      BY VacantType
    <3> QED
      BY <3>1, LivesAssumption
  <2>3. live' \in [Hosts -> [Shares -> LiveShare]]
    BY <1>3, <2>1, <2>2
  <2>4. /\ UNCHANGED <<file, data, onDisk, text, host, seen, faults>>
        /\ nasQuiet' = [p \in Imports |-> FALSE]
        /\ edits < MaxEdits /\ edits' = edits + 1
    BY <1>11 DEF EditNas, command
  <2>5. edits' \in 0..MaxEdits
    BY <1>3, <2>4
  <2> QED
    BY <1>2, <1>3, <2>3, <2>4, <2>5
<1>12. CASE UNCHANGED vars
  BY <1>2, <1>3, <1>12 DEF vars, world, command, ghosts
<1> QED
  BY <1>4, <1>5, <1>6, <1>7, <1>8, <1>9, <1>10, <1>11, <1>12 DEF Next, Command

\* What a command knows of itself.
Known1(p) == MergeInv(p) /\ FileInv(p) /\ NasInv(p)

\* Of a command that does not move, others can only end the quiet.
LEMMA OthersKnow ==
    ASSUME NEW p \in Imports, Known1(p),
           pc'[p] = pc[p], written'[p] = written[p], synced'[p] = synced[p],
           job'[p] = job[p], text'[p] = text[p], host'[p] = host[p], seen'[p] = seen[p],
           fileQuiet'[p] => fileQuiet[p] /\ file' = file,
           nasQuiet'[p] => nasQuiet[p] /\ live' = live
    PROVE  Known1(p)'
<1>1. Rendered(p)' = Rendered(p)
  BY DEF Rendered
<1>2. MergeInv(p)'
  BY <1>1 DEF Known1, MergeInv
<1>3. FileInv(p)'
  BY <1>1 DEF Known1, FileInv
<1>4. NasInv(p)'
  <2>1. CASE nasQuiet'[p]
    <3>1. Target(p)' = Target(p)
      BY <2>1 DEF Target
    <3> QED
      BY <2>1, <3>1 DEF Known1, NasInv
  <2>2. CASE ~ nasQuiet'[p]
    BY <2>2 DEF NasInv
  <2> QED
    BY <2>1, <2>2
<1> QED
  BY <1>2, <1>3, <1>4 DEF Known1

\* A command that reads, or goes on without touching the file.
LEMMA ReadingKnows ==
    ASSUME FullInv, NEW p \in Imports,
           \/ Load(p) \/ Validate(p) \/ ListShares(p) \/ ReadState(p) \/ ReadAcl(p)
           \/ ReadNfs(p) \/ WriteTemp(p) \/ SyncTemp(p)
    PROVE  KnowInv'
<1>1. /\ pc \in [Imports -> {"load", "validate", "list", "state", "acl", "nfs",
                            "merge", "fsync", "replace", "syncdir", "done"}]
      /\ text \in [Imports -> File] /\ host \in [Imports -> Hosts]
      /\ seen \in [Imports -> LiveShare] /\ fileQuiet \in [Imports -> BOOLEAN]
      /\ nasQuiet \in [Imports -> BOOLEAN]
  BY DEF FullInv, TypeOK
<1>2. Known1(p) /\ ~ written[p]
  BY DEF FullInv, KnowInv, Known1, Inv, ImportInv, WrittenInv, Load, Validate,
     ListShares, ReadState, ReadAcl, ReadNfs, Read, WriteTemp, SyncTemp, Go
<1>3. UNCHANGED <<file, live, job, written, synced>>
  BY DEF Load, Validate, ListShares, ReadState, ReadAcl, ReadNfs, Read, WriteTemp,
     SyncTemp, world, ghosts
<1>4. ASSUME NEW q \in Imports, q # p
      PROVE  Known1(q)'
  <2>1. Known1(q)
    BY DEF FullInv, KnowInv, Known1
  <2>2. /\ pc'[q] = pc[q] /\ text'[q] = text[q] /\ host'[q] = host[q]
        /\ seen'[q] = seen[q] /\ fileQuiet'[q] = fileQuiet[q]
        /\ nasQuiet'[q] = nasQuiet[q]
    BY <1>1, <1>4 DEF Load, Validate, ListShares, ReadState, ReadAcl, ReadNfs, Read,
       WriteTemp, SyncTemp, Go, ghosts
  <2> QED
    BY <1>3, <2>1, <2>2, OthersKnow
<1> SUFFICES Known1(p)'
  BY <1>4 DEF KnowInv, Known1
<1>5. CASE Load(p) \/ Validate(p) \/ ListShares(p)
  <2>1. \/ pc'[p] = "validate" /\ text'[p] = file
        \/ /\ pc'[p] = "list" /\ pc[p] = "validate"
           /\ Strict(file) \/ Strict(text[p])
           /\ text'[p] = text[p] /\ fileQuiet'[p] = fileQuiet[p]
        \/ /\ pc'[p] = "state" /\ pc[p] = "list"
           /\ text'[p] = text[p] /\ fileQuiet'[p] = fileQuiet[p]
    BY <1>1, <1>5 DEF Load, Validate, Validated, ListShares, Go, ghosts
  <2>2. MergeInv(p)' /\ NasInv(p)'
    BY <1>2, <1>3, <2>1 DEF MergeInv, NasInv
  <2>3. FileInv(p)'
    BY <1>2, <1>3, <2>1 DEF Known1, FileInv
  <2> QED
    BY <2>2, <2>3 DEF Known1
<1>6. CASE ReadState(p) \/ ReadAcl(p) \/ ReadNfs(p)
  <2>1. /\ pc[p] \in {"state", "acl", "nfs"} /\ pc'[p] \in {"acl", "nfs", "merge"}
        /\ UNCHANGED <<text, host, fileQuiet, nasQuiet>>
    BY <1>1, <1>6 DEF ReadState, ReadAcl, ReadNfs, Read, Go, ghosts
  <2>2. Target(p)' = Target(p) /\ Target(p) \in LiveShare /\ seen[p] \in LiveShare
    BY <1>3, <2>1, TargetType DEF Target, FullInv
  <2>3. FileInv(p)'
    BY <1>2, <1>3, <2>1 DEF Known1, FileInv
  <2>4. CASE ReadState(p)
    <3>1. /\ pc'[p] = "acl"
          /\ seen'[p] = [Target(p) EXCEPT !.acl = seen[p].acl, !.nfs = seen[p].nfs]
      BY <1>1, <2>4 DEF ReadState, Read, Go
    <3>2. seen'[p] = [Target(p) EXCEPT !.acl = seen'[p].acl, !.nfs = seen'[p].nfs]
      BY <2>2, <3>1 DEF LiveShare
    <3> QED
      BY <1>2, <1>3, <2>2, <2>3, <3>1, <3>2 DEF Known1, MergeInv, NasInv
  <2>5. CASE ReadAcl(p)
    <3>1. /\ pc[p] = "acl" /\ pc'[p] = "nfs"
          /\ seen'[p] = [seen[p] EXCEPT !.acl = Target(p).acl]
      BY <1>1, <2>5 DEF ReadAcl, Read, Go
    <3>2. nasQuiet[p] => seen'[p] = [Target(p) EXCEPT !.nfs = seen'[p].nfs]
      <4>1. nasQuiet[p] =>
              seen[p] = [Target(p) EXCEPT !.acl = seen[p].acl, !.nfs = seen[p].nfs]
        BY <1>2, <3>1 DEF Known1, NasInv
      <4>2. /\ seen'[p] \in LiveShare
            /\ [Target(p) EXCEPT !.nfs = seen'[p].nfs] \in LiveShare
        BY <2>2, <3>1 DEF LiveShare
      <4>3. nasQuiet[p] =>
              /\ seen[p].live = Target(p).live /\ seen[p].volume = Target(p).volume
              /\ seen[p].desc = Target(p).desc /\ seen[p].quota = Target(p).quota
              /\ seen[p].hidden = Target(p).hidden /\ seen[p].dirs = Target(p).dirs
        BY <2>2, <4>1 DEF LiveShare
      <4>4. /\ seen'[p].live = seen[p].live /\ seen'[p].volume = seen[p].volume
            /\ seen'[p].desc = seen[p].desc /\ seen'[p].quota = seen[p].quota
            /\ seen'[p].hidden = seen[p].hidden /\ seen'[p].dirs = seen[p].dirs
            /\ seen'[p].acl = Target(p).acl
        BY <2>2, <3>1 DEF LiveShare
      <4> QED
        BY <2>2, <4>2, <4>3, <4>4 DEF LiveShare
    <3> QED
      BY <1>2, <1>3, <2>1, <2>2, <2>3, <3>1, <3>2 DEF Known1, MergeInv, NasInv
  <2>6. CASE ReadNfs(p)
    <3>1. /\ pc[p] = "nfs" /\ pc'[p] = "merge" /\ Target(p).nfs # BadRules
          /\ seen'[p] = [seen[p] EXCEPT !.nfs = Target(p).nfs]
      BY <1>1, <2>6 DEF ReadNfs, Read, Go
    <3>2. nasQuiet[p] => seen'[p] = Target(p)
      <4>1. nasQuiet[p] => seen[p] = [Target(p) EXCEPT !.nfs = seen[p].nfs]
        BY <1>2, <3>1 DEF Known1, NasInv
      <4> QED
        BY <2>2, <3>1, <4>1 DEF LiveShare
    <3>3. seen'[p].nfs # BadRules
      BY <2>2, <3>1 DEF LiveShare
    <3> QED
      BY <1>2, <1>3, <2>1, <2>2, <2>3, <3>1, <3>2, <3>3 DEF Known1, MergeInv, NasInv
  <2> QED
    BY <1>6, <2>4, <2>5, <2>6
<1>7. CASE WriteTemp(p) \/ SyncTemp(p)
  <2>1. /\ UNCHANGED <<text, host, seen, fileQuiet, nasQuiet>>
        /\ \/ /\ pc[p] = "merge" /\ pc'[p] = "fsync"
              /\ Representable(seen[p]) /\ Strict(Rendered(p))
           \/ pc[p] = "fsync" /\ pc'[p] = "replace"
    BY <1>1, <1>7 DEF WriteTemp, SyncTemp, Go, ghosts
  <2>2. Rendered(p)' = Rendered(p) /\ Target(p)' = Target(p)
    BY <1>3, <2>1 DEF Rendered, Target
  <2>3. MergeInv(p)'
    BY <1>2, <1>3, <2>1, <2>2 DEF Known1, MergeInv
  <2>4. FileInv(p)' /\ NasInv(p)'
    BY <1>2, <1>3, <2>1, <2>2 DEF Known1, FileInv, NasInv
  <2> QED
    BY <2>3, <2>4 DEF Known1
<1> QED
  BY <1>5, <1>6, <1>7

\* A command that ends.
LEMMA EndingKnows ==
    ASSUME FullInv, NEW p \in Imports,
           \/ RejectFile(p) \/ RejectLive(p) \/ RejectMerged(p) \/ ShowDiff(p)
           \/ SyncDirectory(p) \/ CallFails(p) \/ WriteFails(p) \/ SyncDirectoryFails(p)
           \/ Kill(p)
    PROVE  KnowInv'
<1>1. /\ pc \in [Imports -> {"load", "validate", "list", "state", "acl", "nfs",
                            "merge", "fsync", "replace", "syncdir", "done"}]
      /\ synced \in [Imports -> BOOLEAN]
  BY DEF FullInv, TypeOK
<1>2. /\ pc[p] # "done" /\ pc' = [pc EXCEPT ![p] = "done"]
      /\ UNCHANGED <<file, live, job, text, host, seen, written, fileQuiet, nasQuiet>>
      /\ \/ synced' = synced
         \/ pc[p] = "syncdir" /\ synced' = [synced EXCEPT ![p] = TRUE]
  BY DEF RejectFile, RejectLive, RejectMerged, ShowDiff, SyncDirectory, CallFails,
     WriteFails, SyncDirectoryFails, Kill, Stop, world, ghosts
<1>3. ASSUME NEW q \in Imports, q # p
      PROVE  Known1(q)'
  <2>1. Known1(q)
    BY DEF FullInv, KnowInv, Known1
  <2>2. pc'[q] = pc[q] /\ synced'[q] = synced[q]
    BY <1>1, <1>2, <1>3
  <2> QED
    BY <1>2, <2>1, <2>2, OthersKnow
<1>4. Known1(p)'
  <2>1. Known1(p) /\ ~ synced[p] /\ (written[p] => pc[p] = "syncdir")
    BY <1>1, <1>2 DEF FullInv, KnowInv, Known1, Inv, ImportInv, WrittenInv, DurableInv
  <2>2. Rendered(p)' = Rendered(p) /\ Target(p)' = Target(p)
    BY <1>2 DEF Rendered, Target
  <2>3. pc'[p] = "done"
    BY <1>1, <1>2
  <2>4. MergeInv(p)'
    BY <1>2, <2>1, <2>2, <2>3 DEF Known1, MergeInv
  <2>5. FileInv(p)'
    BY <1>1, <1>2, <2>1, <2>2, <2>3 DEF Known1, FileInv
  <2>6. NasInv(p)'
    BY <1>2, <2>1, <2>2, <2>3 DEF Known1, NasInv
  <2> QED
    BY <2>4, <2>5, <2>6 DEF Known1
<1> QED
  BY <1>3, <1>4 DEF KnowInv, Known1

\* The file is replaced by what was made of it; all others are disturbed.
LEMMA ReplaceKnows ==
    ASSUME FullInv, NEW p \in Imports, Replace(p)
    PROVE  KnowInv'
<1>1. /\ pc \in [Imports -> {"load", "validate", "list", "state", "acl", "nfs",
                            "merge", "fsync", "replace", "syncdir", "done"}]
      /\ written \in [Imports -> BOOLEAN]
  BY DEF FullInv, TypeOK
<1>2. /\ pc[p] = "replace" /\ pc' = [pc EXCEPT ![p] = "syncdir"]
      /\ file' = Rendered(p) /\ written' = [written EXCEPT ![p] = TRUE]
      /\ fileQuiet' = [q \in Imports |-> fileQuiet[q] /\ q = p]
      /\ UNCHANGED <<live, job, text, host, seen, synced, nasQuiet>>
  BY DEF Replace, Go
<1>3. ASSUME NEW q \in Imports, q # p
      PROVE  Known1(q)'
  <2>1. Known1(q)
    BY DEF FullInv, KnowInv, Known1
  <2>2. pc'[q] = pc[q] /\ written'[q] = written[q] /\ ~ fileQuiet'[q]
    BY <1>1, <1>2, <1>3
  <2> QED
    BY <1>2, <2>1, <2>2, OthersKnow
<1>4. Known1(p)'
  <2>1. Known1(p)
    BY DEF FullInv, KnowInv, Known1
  <2>2. Rendered(p)' = Rendered(p) /\ Target(p)' = Target(p)
    BY <1>2 DEF Rendered, Target
  <2>3. pc'[p] = "syncdir" /\ written'[p]
    BY <1>1, <1>2
  <2>4. MergeInv(p)'
    BY <1>2, <2>1, <2>2, <2>3 DEF Known1, MergeInv
  <2>5. FileInv(p)'
    BY <1>2, <2>2, <2>3 DEF FileInv
  <2>6. NasInv(p)'
    BY <1>2, <2>1, <2>2, <2>3 DEF Known1, NasInv
  <2> QED
    BY <2>4, <2>5, <2>6 DEF Known1
<1> QED
  BY <1>3, <1>4 DEF KnowInv, Known1

\* A power failure, an edit of the file, an edit of a NAS.
LEMMA OutsideKnows ==
    ASSUME FullInv, PowerFailure \/ EditFile \/ EditNas \/ UNCHANGED vars
    PROVE  KnowInv'
<1>1. CASE PowerFailure
  <2>1. /\ pc' = [p \in Imports |-> "done"]
        /\ UNCHANGED <<live, job, text, host, seen, written, synced, fileQuiet, nasQuiet>>
        /\ \E kept \in onDisk : file' = kept.doc
    BY <1>1 DEF PowerFailure, ghosts
  <2>2. ASSUME NEW p \in Imports
        PROVE  Known1(p)'
    <3>1. /\ Known1(p) /\ (pc[p] # "done" => ~ synced[p])
          /\ pc[p] \in {"load", "validate", "list", "state", "acl", "nfs", "merge",
                        "fsync", "replace", "syncdir", "done"}
          /\ (written[p] /\ synced[p] /\ fileQuiet[p] => onDisk = {Held})
      BY DEF FullInv, TypeOK, KnowInv, Known1, Inv, ImportInv, DurableInv
    <3>2. Rendered(p)' = Rendered(p) /\ Target(p)' = Target(p) /\ pc'[p] = "done"
      BY <2>1 DEF Rendered, Target
    <3>3. MergeInv(p)'
      BY <2>1, <3>1, <3>2 DEF Known1, MergeInv
    <3>4. FileInv(p)'
      <4>1. ASSUME written[p], synced[p], fileQuiet[p]
            PROVE  file' = file /\ file = Rendered(p)
        BY <2>1, <3>1, <4>1 DEF Held, Known1, FileInv
      <4> QED
        BY <2>1, <3>2, <4>1 DEF FileInv
    <3>5. NasInv(p)'
      BY <2>1, <3>1, <3>2 DEF Known1, NasInv
    <3> QED
      BY <3>3, <3>4, <3>5 DEF Known1
  <2> QED
    BY <2>2 DEF KnowInv, Known1
<1>2. CASE EditFile \/ EditNas \/ UNCHANGED vars
  <2>1. /\ UNCHANGED <<job, pc, text, host, seen, written, synced>>
        /\ \/ UNCHANGED <<file, fileQuiet>> \/ fileQuiet' = [p \in Imports |-> FALSE]
        /\ \/ UNCHANGED <<live, nasQuiet>> \/ nasQuiet' = [p \in Imports |-> FALSE]
    BY <1>2 DEF EditFile, EditNas, vars, world, command, ghosts
  <2>2. ASSUME NEW p \in Imports
        PROVE  Known1(p)'
    <3>1. Known1(p)
      BY DEF FullInv, KnowInv, Known1
    <3>2. /\ fileQuiet'[p] => fileQuiet[p] /\ file' = file
          /\ nasQuiet'[p] => nasQuiet[p] /\ live' = live
      BY <2>1
    <3> QED
      BY <2>1, <3>1, <3>2, OthersKnow
  <2> QED
    BY <2>2 DEF KnowInv, Known1
<1> QED
  BY <1>1, <1>2

\* The whole invariant holds at first, and every step keeps it.
LEMMA InitFullInv == Init => FullInv
<1> SUFFICES ASSUME Init PROVE FullInv
  OBVIOUS
<1>1. Inv
  BY InitInv
<1>2. TypeOK
  <2>1. job \in [Imports -> Job]
    BY JobAssumption DEF Init
  <2>2. host \in [Imports -> Hosts]
    BY <2>1 DEF Init, Job
  <2>3. file \in File /\ onDisk = {[doc |-> file, data |-> "safe"]} /\ data = "safe"
    BY FilesAssumption DEF Init, Held
  <2>4. live \in [Hosts -> [Shares -> LiveShare]] /\ seen \in [Imports -> LiveShare]
    BY LivesAssumption, VacantType DEF Init
  <2>5. edits \in 0..MaxEdits /\ faults \in 0..MaxFaults
    BY NumbersAssumption DEF Init
  <2> QED
    BY <2>2, <2>3, <2>4, <2>5 DEF Init, TypeOK
<1>3. KnowInv
  BY DEF Init, KnowInv, MergeInv, FileInv, NasInv
<1> QED
  BY <1>1, <1>2, <1>3 DEF FullInv

LEMMA StepFullInv ==
    ASSUME FullInv, [Next]_vars
    PROVE  FullInv'
<1>1. Inv' /\ TypeOK'
  BY StepInv, TypeStep DEF FullInv
<1>2. CASE \E p \in Imports : Command(p) \/ CallFails(p) \/ WriteFails(p)
                              \/ SyncDirectoryFails(p) \/ Kill(p)
  BY <1>1, <1>2, ReadingKnows, EndingKnows, ReplaceKnows DEF Command, FullInv
<1>3. CASE PowerFailure \/ EditFile \/ EditNas \/ UNCHANGED vars
  BY <1>1, <1>3, OutsideKnows DEF FullInv
<1> QED
  BY <1>2, <1>3 DEF Next

\* A step that sets written is Replace, over what the command has loaded if
\* nobody else has replaced it.
LEMMA WrittenByReplace ==
    ASSUME FullInv, [Next]_vars, NEW p \in Imports, written'[p] # written[p]
    PROVE  Replace(p)
<1>1. written \in [Imports -> BOOLEAN]
  BY DEF FullInv, TypeOK
<1>2. ASSUME NEW q \in Imports, Replace(q)
      PROVE  q = p
  BY <1>1, <1>2 DEF Replace
<1>3. ASSUME NEW q \in Imports,
             \/ Command(q) /\ ~ Replace(q)
             \/ CallFails(q) \/ WriteFails(q) \/ SyncDirectoryFails(q) \/ Kill(q)
      PROVE  FALSE
  BY <1>3 DEF Command, Load, Validate, RejectFile, ListShares, ReadState, ReadAcl,
     ReadNfs, Read, RejectLive, RejectMerged, ShowDiff, WriteTemp, SyncTemp,
     SyncDirectory, CallFails, WriteFails, SyncDirectoryFails, Kill, ghosts
<1>4. CASE PowerFailure \/ EditFile \/ EditNas \/ UNCHANGED vars
  BY <1>4 DEF PowerFailure, EditFile, EditNas, vars, ghosts
<1> QED
  BY <1>2, <1>3, <1>4 DEF Next

\* In a document with strict names a share has one entry at most.
LEMMA OneEntry ==
    ASSUME NEW doc \in File, Strict(doc), NEW s, NEW n \in Nodes(doc, s)
    PROVE  KeptDirs(doc, s) = n.dirs
<1>1. ASSUME NEW m \in Nodes(doc, s) PROVE m = n
  <2>1. PICK v \in Volumes : \E i \in DOMAIN doc.vols[v] :
           n = doc.vols[v][i] /\ n.name = s
    BY DEF Nodes
  <2>2. PICK w \in Volumes : \E j \in DOMAIN doc.vols[w] :
           m = doc.vols[w][j] /\ m.name = s
    BY DEF Nodes
  <2> QED
    BY <2>1, <2>2 DEF Strict
<1>2. (CHOOSE m \in Nodes(doc, s) : TRUE) = n
  BY <1>1
<1> QED
  BY <1>2 DEF KeptDirs

LEMMA StepOnlyTarget ==
    ASSUME FullInv, [Next]_vars, NEW p \in Imports,
           written'[p] # written[p], fileQuiet[p]
    PROVE  LET s == job[p].target
           IN  /\ Others(file', s) = Others(file, s)
               /\ file.host # NoHost => file'.host = file.host
               /\ \A n \in Nodes(file, s), m \in Nodes(file', s) : m.dirs = n.dirs
<1>1. pc[p] = "replace" /\ file' = Rendered(p)
  BY WrittenByReplace DEF Replace, Go
<1>2. /\ text[p] = file /\ Strict(file) /\ file \in File /\ seen[p].nfs # BadRules
  BY <1>1 DEF FullInv, KnowInv, FileInv, MergeInv, TypeOK
<1>3. \A n \in Nodes(file, job[p].target) : KeptDirs(file, job[p].target) = n.dirs
  BY <1>2, OneEntry
<1> QED
  BY <1>1, <1>2, <1>3, RenderedType DEF FullInv

\* What an undisturbed import has written is settled.
LEMMA Settled == FullInv => ImportSettles
<1> SUFFICES ASSUME FullInv, NEW p \in Imports,
                    action[p] = "imported", written[p], fileQuiet[p], nasQuiet[p],
                    synced[p] \/ file = Rendered(p)
             PROVE  LET s == job[p].target
                        share == Target(p)
                    IN  /\ Strict(file)
                        /\ Merge(file, s, share, host[p]) = file
                        /\ \A n \in Nodes(file, s) :
                              /\ Parsed(n, share.volume).quota = share.quota
                              /\ ~ ScalarsDiffer(Parsed(n, share.volume), share)
                              /\ AclMatches(Parsed(n, share.volume), share.acl)
                              /\ n.nfs = share.nfs
  BY DEF ImportSettles
<1>1. /\ text[p] \in File /\ job[p].target \in Shares /\ host[p] \in Hosts
      /\ seen[p].nfs # BadRules
  BY TargetType DEF FullInv, KnowInv, MergeInv
<1>2. /\ Readable(seen[p]) /\ seen[p] = Target(p)
      /\ Representable(seen[p]) /\ Strict(Rendered(p))
  BY <1>1, RenderedType DEF FullInv, KnowInv, MergeInv, NasInv
<1>3. file = Rendered(p)
  <2>1. synced[p] => pc[p] = "done"
    BY DEF FullInv, Inv, ImportInv, DurableInv
  <2> QED
    BY <2>1 DEF FullInv, KnowInv, FileInv
<1>4. Rendered(p) = Merge(text[p], job[p].target, Target(p), host[p])
  BY <1>2 DEF Rendered
<1>5. Merge(file, job[p].target, Target(p), host[p]) = file
  BY <1>1, <1>2, <1>3, <1>4, MergeIdempotent
<1> QED
  BY <1>1, <1>2, <1>3, <1>4, <1>5, ImportedShareIsSettled

\* config-import: every variable keeps its type; in particular what is written
\* is a document again.
THEOREM ImportTypeCorrect == Spec => []TypeOK
<1>1. FullInv => TypeOK
  BY DEF FullInv
<1> QED
  BY <1>1, InitFullInv, StepFullInv, PTL DEF Spec

\* config-import and apply-config agree on an import nobody has disturbed, and
\* importing again changes nothing.
THEOREM ImportSettlesCorrect == Spec => []ImportSettles
  BY InitFullInv, StepFullInv, Settled, PTL DEF Spec

\* config-import: over a file nobody else has changed, an import exchanges the
\* entry of its share and keeps all others in their order, the host, and what
\* the document says about the children of the share.
THEOREM ImportOnlyTargetChanges == Spec => OnlyTargetChanges
<1>1. FullInv /\ [Next]_vars =>
        [\A p \in Imports :
            written'[p] # written[p] /\ fileQuiet[p] =>
               LET s == job[p].target
               IN  /\ Others(file', s) = Others(file, s)
                   /\ file.host # NoHost => file'.host = file.host
                   /\ \A n \in Nodes(file, s), m \in Nodes(file', s) :
                         m.dirs = n.dirs]_vars
  BY StepOnlyTarget
<1> QED
  BY <1>1, InitFullInv, StepFullInv, PTL DEF Spec, OnlyTargetChanges
=============================================================================
