-------------------------- MODULE AclModifyProofs --------------------------
(***************************************************************************)
(* The replacement of permissions, for every number of clients, every set  *)
(* of identities and every budget of edits and faults.                     *)
(***************************************************************************)
EXTENDS AclSerial, TLAPS

LEMMA CategoryType == \A i \in Ids : Category[i] \in Categories
  BY CategoryAssumption

LEMMA RequestType ==
    ASSUME NEW r \in Requests
    PROVE  r \in Request /\ r.want \in Acls /\ r.mode \in Modes /\ WellFormed(r)
  BY RequestAssumption DEF Request

LEMMA PatchedType ==
    ASSUME NEW r \in Requests, NEW a \in Acls, NEW done
    PROVE  Patched(r, a, done) \in Acls
  BY RequestType DEF Patched, Acls

\* What is sent is what the comparison asks for: with every entry of the
\* delta in place the comparison is satisfied, unless the administrators
\* group stands in the way.
THEOREM DeltaSuffices ==
    ASSUME NEW r \in Requests, NEW a \in Acls, Attainable(r, a)
    PROVE  Matches(r, Patched(r, a, Delta(r, a)))
<1> DEFINE p == Patched(r, a, Delta(r, a))
<1> SUFFICES ASSUME NEW i \in Ids
             PROVE  /\ i \in Asked(r) => p[i] = r.want[i]
                    /\ i \notin Asked(r) /\ p[i] # "none" => Tolerated(r, i)
  BY DEF Matches
<1>1. p[i] = IF i \in Delta(r, a) THEN r.want[i] ELSE a[i]
  BY DEF Patched
<1>2. i \in Asked(r) => p[i] = r.want[i]
  BY <1>1 DEF Delta
<1>3. ASSUME i \notin Asked(r), p[i] # "none"
      PROVE  Tolerated(r, i)
  <2>1. i \notin Delta(r, a)
    BY <1>1, <1>3 DEF Asked
  <2>2. a[i] # "none" /\ ~ Revocable(r, i)
    BY <1>1, <1>3, <2>1 DEF Delta
  <2>3. r.mode \in Modes
    BY RequestType
  <2>4. CASE r.mode = "authoritative"
    BY <1>3, <2>2, <2>4 DEF Revocable
  <2>5. CASE r.mode = "clear"
    BY <1>3, <2>2, <2>5, AdministratorsAssumption DEF Revocable, Tolerated
  <2>6. CASE r.mode = "replace"
    <3>1. i = Administrators \/ i \in AdminFlagged
      BY <1>3, <2>2, <2>6 DEF Revocable
    <3>2. i = Administrators => i \in AdminFlagged
      BY <1>3, <2>2, <2>6 DEF Attainable
    <3> QED
      BY <2>6, <3>1, <3>2 DEF Tolerated
  <2> QED
    BY <2>3, <2>4, <2>5, <2>6 DEF Modes
<1> QED
  BY <1>2, <1>3

----------------------------------------------------------------------------
(* Types.                                                                  *)

LEMMA WrittenType ==
    ASSUME TypeOK, NEW c \in Clients, NEW done \in SUBSET Due(c),
           Written(c, done)
    PROVE  /\ acl' \in Acls
           /\ wrote' \in [Clients -> SUBSET Ids]
           /\ quiet' \in [Clients -> BOOLEAN]
<1>1. acl' \in Acls
  BY PatchedType DEF Written, TypeOK
<1>2. wrote' \in [Clients -> SUBSET Ids]
  BY DEF Written, TypeOK, Due
<1>3. quiet' \in [Clients -> BOOLEAN]
  BY Zenon DEF Written, TypeOK
<1> QED
  BY <1>1, <1>2, <1>3

LEMMA InType ==
    ASSUME TypeOK, NEW c \in Clients, NEW phase, In(c, phase)
    PROVE  at[c] \in Categories /\ at[c] + 1 \in Categories \cup {Past}
  BY DEF In, TypeOK, Categories, Past, LocalUser, LocalGroup, LdapUser, LdapGroup

LEMMA StepType ==
    ASSUME TypeOK, NEW c \in Clients, NEW s \in Steps, NEW how \in Statuses,
           Step(c, s, how)
    PROVE  report' \in [Clients -> [Steps -> Statuses]]
  BY DEF TypeOK, Step

LEMMA ClientType ==
    ASSUME TypeOK, NEW c \in Clients, Client(c)
    PROVE  TypeOK'
<1> USE DEF TypeOK, clientVars, ghosts
<1>1. CASE ReadCategory(c)
  <2>1. at[c] + 1 \in Categories \cup {Past}
    BY <1>1, InType DEF ReadCategory
  <2>2. seen' \in [Clients -> Acls]
    BY <1>1 DEF ReadCategory, Acls
  <2> QED
    BY <1>1, <2>1, <2>2 DEF ReadCategory, NextCategory
<1>2. CASE RejectUnknown(c)
  BY <1>2 DEF RejectUnknown, Stop
<1>3. CASE NothingToDo(c)
  BY <1>3 DEF NothingToDo, Stop, Statuses
<1>4. CASE StartWriting(c)
  <2>1. Delta(req[c], seen[c]) \in SUBSET Ids
    BY DEF Delta
  <2> QED
    BY <1>4, <2>1 DEF StartWriting, Categories
<1>5. CASE SkipCategory(c)
  <2>1. at[c] \in Steps /\ at[c] + 1 \in Categories \cup {Past}
    BY <1>5, InType DEF SkipCategory, Steps
  <2>2. report' \in [Clients -> [Steps -> Statuses]]
    BY <1>5, <2>1, StepType DEF SkipCategory, Statuses
  <2> QED
    BY <1>5, <2>1, <2>2 DEF SkipCategory, NextCategory
<1>6. CASE SetCategory(c)
  <2>1. at[c] \in Steps /\ at[c] + 1 \in Categories \cup {Past}
    BY <1>6, InType DEF SetCategory, Steps
  <2>2. report' \in [Clients -> [Steps -> Statuses]]
    BY <1>6, <2>1, StepType DEF SetCategory, Statuses
  <2>3. /\ acl' \in Acls /\ wrote' \in [Clients -> SUBSET Ids]
        /\ quiet' \in [Clients -> BOOLEAN]
    BY <1>6, WrittenType DEF SetCategory
  <2> QED
    BY <1>6, <2>1, <2>2, <2>3 DEF SetCategory, NextCategory
<1>7. CASE ReadBack(c)
  BY <1>7 DEF ReadBack, Categories
<1>8. CASE Verify(c)
  <2>1. report' \in [Clients -> [Steps -> Statuses]]
    BY <1>8, StepType DEF Verify, Steps, Statuses
  <2> QED
    BY <1>8, <2>1 DEF Verify, Stop
<1> QED
  BY <1>1, <1>2, <1>3, <1>4, <1>5, <1>6, <1>7, <1>8 DEF Client

LEMMA FaultType ==
    ASSUME TypeOK, NEW c \in Clients, Fault(c)
    PROVE  TypeOK'
<1> USE DEF TypeOK, clientVars, ghosts
<1>0. ASSUME faults < MaxFaults, faults' = faults + 1
      PROVE  faults' \in 0..MaxFaults
  BY <1>0, BoundsAssumption
<1>1. CASE SetFails(c)
  <2>1. at[c] \in Steps
    BY <1>1, InType DEF SetFails, Steps
  <2>2. report' \in [Clients -> [Steps -> Statuses]]
    BY <1>1, <2>1, StepType DEF SetFails, Statuses
  <2>3. /\ acl' \in Acls /\ wrote' \in [Clients -> SUBSET Ids]
        /\ quiet' \in [Clients -> BOOLEAN]
    BY <1>1, WrittenType DEF SetFails
  <2> QED
    BY <1>0, <1>1, <2>2, <2>3 DEF SetFails, Stop
<1>2. CASE ReadFails(c)
  BY <1>0, <1>2 DEF ReadFails, Stop
<1>3. CASE ReadBackFails(c)
  <2>1. report' \in [Clients -> [Steps -> Statuses]]
    <3>1. PICK how \in {"FAILED", "UNKNOWN"} : Step(c, VerifyStep, how)
      BY <1>3 DEF ReadBackFails
    <3>2. how \in Statuses /\ VerifyStep \in Steps
      BY DEF Statuses, Steps
    <3> QED
      BY <3>1, <3>2, StepType
  <2> QED
    BY <1>0, <1>3, <2>1 DEF ReadBackFails, Stop
<1>4. CASE Kill(c)
  <2>1. /\ acl' \in Acls /\ wrote' \in [Clients -> SUBSET Ids]
        /\ quiet' \in [Clients -> BOOLEAN]
    BY <1>4, WrittenType DEF Kill
  <2> QED
    BY <1>0, <1>4, <2>1 DEF Kill, Stop
<1> QED
  BY <1>1, <1>2, <1>3, <1>4 DEF Fault

LEMMA OtherType ==
    ASSUME TypeOK,
           Edit \/ (\E c \in Clients : Rerun(c)) \/ UNCHANGED vars
    PROVE  TypeOK'
<1> USE DEF TypeOK, clientVars, ghosts
<1>1. CASE Edit
  <2>1. acl' \in Acls
    BY <1>1 DEF Edit, Acls
  <2>2. edits' \in 0..MaxEdits
    BY <1>1, BoundsAssumption DEF Edit
  <2> QED
    BY <1>1, <2>1, <2>2 DEF Edit
<1>2. ASSUME NEW c \in Clients, Rerun(c) PROVE TypeOK'
  <2>1. Nothing \in Acls /\ NoSteps \in [Steps -> Statuses]
    BY DEF Nothing, NoSteps, Acls, Access, Statuses
  <2> QED
    BY <1>2, <2>1 DEF Rerun, Categories
<1>3. CASE UNCHANGED vars
  BY <1>3 DEF vars
<1> QED
  BY <1>1, <1>2, <1>3

\* Every variable keeps its type.
THEOREM AclTypeCorrect == Spec => []TypeOK
<1>1. Init => TypeOK
  BY BoundsAssumption, AclAssumption
  DEF Init, TypeOK, Categories, Nothing, NoSteps, Acls, Access, Statuses
<1>2. TypeOK /\ [Next]_vars => TypeOK'
  <2>1. CASE Next
    BY <2>1, ClientType, FaultType, OtherType DEF Next
  <2> QED
    BY <2>1, OtherType
<1> QED
  BY <1>1, <1>2, PTL DEF Spec

----------------------------------------------------------------------------
(* The inductive invariant, client by client.                              *)

\* A category the client has dealt with was sent or needed nothing.
Handled(c, k) ==
    \/ /\ report[c][k] = "SUCCEEDED"
       /\ {i \in delta[c] : Category[i] = k} \subseteq wrote[c]
    \/ /\ report[c][k] = "SKIPPED"
       /\ \A i \in wrote[c] : Category[i] # k

\* One it has not reached is not in the report and was not sent.
Untried(c, k) ==
    report[c][k] = "none" /\ \A i \in wrote[c] : Category[i] # k

ReadingInv(c) ==
    pc[c] = "read" =>
        \A k \in Categories : Untried(c, k) /\ report[c][VerifyStep] = "none"

\* What it names is what it may change.
WritingInv(c) ==
    pc[c] = "set" =>
        /\ \A k \in Categories : IF k < at[c] THEN Handled(c, k) ELSE Untried(c, k)
        /\ report[c][VerifyStep] = "none"
        /\ \A i \in delta[c] : i \in Asked(req[c]) \/ Revocable(req[c], i)

VerifyingInv(c) ==
    pc[c] = "verify" =>
        /\ \A k \in Categories : Handled(c, k)
        /\ report[c][VerifyStep] = "none"

\* While nobody else writes, what it has read is what there is.
CurrentInv(c) ==
    pc[c] \in {"read", "verify"} /\ quiet[c] =>
        \A i \in Ids : Category[i] < at[c] => seen[c][i] = acl[i]

\* The step a partial result stopped at.
Interrupted(c, s) ==
    /\ report[c][s] \in {"FAILED", "UNKNOWN"}
    /\ \A r \in Steps : r > s => report[c][r] = "none"
    /\ \A r \in Steps : r < s =>
          \/ /\ report[c][r] = "SUCCEEDED"
             /\ {i \in delta[c] : Category[i] = r} \subseteq wrote[c]
          \/ report[c][r] = "SKIPPED"
    /\ \A i \in wrote[c] :
          report[c][Category[i]] \in {"SUCCEEDED", "FAILED", "UNKNOWN"}

EndedInv(c) ==
    pc[c] = "done" =>
        /\ exit[c] = 0 /\ quiet[c] => Matches(req[c], acl)
        /\ exit[c] \notin {0, 60, Killed} => wrote[c] = {}
        /\ (\A k \in Categories : report[c][k] = "SKIPPED") => wrote[c] = {}
        /\ exit[c] = 60 => \E s \in Steps : Interrupted(c, s)

ClientInv(c) ==
    /\ ReadingInv(c) /\ WritingInv(c) /\ VerifyingInv(c)
    /\ CurrentInv(c) /\ EndedInv(c)
Inv == TypeOK /\ \A c \in Clients : ClientInv(c)

\* A client that does nothing keeps its part, whoever writes meanwhile: a
\* write that changes something ends the quiet of all others.
LEMMA OthersKept ==
    ASSUME NEW c \in Clients, ClientInv(c),
           pc'[c] = pc[c], at'[c] = at[c], seen'[c] = seen[c],
           delta'[c] = delta[c], report'[c] = report[c], exit'[c] = exit[c],
           wrote'[c] = wrote[c], req' = req,
           quiet'[c] => quiet[c] /\ acl' = acl
    PROVE  ClientInv(c)'
<1>1. ReadingInv(c)'
  BY DEF ClientInv, ReadingInv, Untried
<1>2. WritingInv(c)'
  BY DEF ClientInv, WritingInv, Handled, Untried, Asked, Revocable
<1>3. VerifyingInv(c)'
  BY DEF ClientInv, VerifyingInv, Handled
<1>4. CurrentInv(c)'
  BY DEF ClientInv, CurrentInv
<1>5. EndedInv(c)'
  <2>1. Matches(req[c], acl)' <=> Matches(req[c], acl')
    BY DEF Matches, Tolerated, Asked
  <2>2. exit'[c] = 0 /\ quiet'[c] /\ pc'[c] = "done" => Matches(req[c], acl)'
    BY <2>1 DEF ClientInv, EndedInv
  <2>3. ASSUME NEW s \in Steps, Interrupted(c, s) PROVE Interrupted(c, s)'
    BY <2>3 DEF Interrupted
  <2> QED
    BY <2>2, <2>3 DEF ClientInv, EndedInv
<1> QED
  BY <1>1, <1>2, <1>3, <1>4, <1>5 DEF ClientInv

LEMMA OthersStep ==
    ASSUME Inv, NEW c \in Clients, Client(c) \/ Fault(c) \/ Rerun(c),
           NEW d \in Clients, d # c
    PROVE  ClientInv(d)'
<1>0. TypeOK
  BY DEF Inv
<1> USE DEF TypeOK, clientVars, ghosts
<1>1. ASSUME NEW done, Written(c, done)
      PROVE  wrote'[d] = wrote[d] /\ (quiet'[d] => quiet[d] /\ acl' = acl)
  BY <1>0, <1>1 DEF Written
<1>2. ASSUME NEW code, Stop(c, code) PROVE pc'[d] = pc[d] /\ exit'[d] = exit[d]
  BY <1>0, <1>2 DEF Stop
<1>3. ASSUME NEW s, NEW how, Step(c, s, how) PROVE report'[d] = report[d]
  BY <1>0, <1>3 DEF Step
<1>4. NextCategory(c) => at'[d] = at[d]
  BY <1>0 DEF NextCategory
<1>5. CASE ReadCategory(c)
  BY <1>0, <1>4, <1>5, OthersKept DEF ReadCategory, Inv
<1>6. CASE RejectUnknown(c)
  BY <1>0, <1>2, <1>6, OthersKept DEF RejectUnknown, Inv
<1>7. CASE NothingToDo(c)
  BY <1>0, <1>2, <1>7, OthersKept DEF NothingToDo, Inv
<1>8. CASE StartWriting(c)
  BY <1>0, <1>8, OthersKept DEF StartWriting, Inv
<1>9. CASE SkipCategory(c)
  BY <1>0, <1>3, <1>4, <1>9, OthersKept DEF SkipCategory, Inv
<1>10. CASE SetCategory(c)
  BY <1>0, <1>1, <1>3, <1>4, <1>10, OthersKept DEF SetCategory, Inv
<1>11. CASE ReadBack(c)
  BY <1>0, <1>11, OthersKept DEF ReadBack, Inv
<1>12. CASE Verify(c)
  <2>1. report'[d] = report[d] /\ pc'[d] = pc[d] /\ exit'[d] = exit[d]
    BY <1>2, <1>3, <1>12 DEF Verify
  <2> QED
    BY <1>0, <1>12, <2>1, OthersKept DEF Verify, Inv
<1>13. CASE SetFails(c)
  <2>1. report'[d] = report[d] /\ pc'[d] = pc[d] /\ exit'[d] = exit[d]
    BY <1>2, <1>3, <1>13 DEF SetFails
  <2>2. wrote'[d] = wrote[d] /\ (quiet'[d] => quiet[d] /\ acl' = acl)
    BY <1>1, <1>13 DEF SetFails
  <2> QED
    BY <1>0, <1>13, <2>1, <2>2, OthersKept DEF SetFails, Inv
<1>14. CASE ReadFails(c)
  <2>1. pc'[d] = pc[d] /\ exit'[d] = exit[d]
    BY <1>2, <1>14 DEF ReadFails
  <2> QED
    BY <1>0, <1>14, <2>1, OthersKept DEF ReadFails, Inv
<1>15. CASE ReadBackFails(c)
  <2>1. report'[d] = report[d] /\ pc'[d] = pc[d] /\ exit'[d] = exit[d]
    BY <1>2, <1>3, <1>15 DEF ReadBackFails
  <2> QED
    BY <1>0, <1>15, <2>1, OthersKept DEF ReadBackFails, Inv
<1>16. CASE Kill(c)
  <2>1. pc'[d] = pc[d] /\ exit'[d] = exit[d]
    BY <1>2, <1>16 DEF Kill
  <2>2. wrote'[d] = wrote[d] /\ (quiet'[d] => quiet[d] /\ acl' = acl)
    BY <1>1, <1>16 DEF Kill
  <2> QED
    BY <1>0, <1>16, <2>1, <2>2, OthersKept DEF Kill, Inv
<1>17. CASE Rerun(c)
  BY <1>0, <1>17, OthersKept DEF Rerun, Inv
<1> QED
  BY <1>5, <1>6, <1>7, <1>8, <1>9, <1>10, <1>11, <1>12, <1>13, <1>14, <1>15,
     <1>16, <1>17 DEF Client, Fault

----------------------------------------------------------------------------
(* The client that takes the step.                                         *)

LEMMA OwnRead ==
    ASSUME Inv, NEW c \in Clients, ReadCategory(c)
    PROVE  ClientInv(c)'
<1>0. TypeOK /\ ClientInv(c) /\ at[c] \in Categories
  BY InType DEF Inv, ReadCategory
<1> USE DEF ReadCategory, NextCategory, In, TypeOK, clientVars, ghosts
<1>1. ReadingInv(c)' /\ WritingInv(c)' /\ VerifyingInv(c)' /\ EndedInv(c)'
  BY <1>0 DEF ClientInv, ReadingInv, WritingInv, VerifyingInv, EndedInv,
              Untried, Handled
<1>2. CurrentInv(c)'
  <2> SUFFICES ASSUME quiet[c], NEW i \in Ids, Category[i] < at[c] + 1
               PROVE  seen'[c][i] = acl[i]
    BY <1>0 DEF CurrentInv
  <2>1. Category[i] \in Categories
    BY CategoryType
  <2>2. CASE Category[i] = at[c]
    BY <1>0, <2>2
  <2>3. CASE Category[i] < at[c]
    <3>1. seen[c][i] = acl[i]
      BY <1>0, <2>3 DEF ClientInv, CurrentInv
    <3>2. Category[i] # at[c]
      BY <1>0, <2>1, <2>3 DEF Categories, LocalUser, LocalGroup, LdapUser, LdapGroup
    <3> QED
      BY <1>0, <3>1, <3>2
  <2> QED
    BY <1>0, <2>1, <2>2, <2>3
    DEF Categories, LocalUser, LocalGroup, LdapUser, LdapGroup
<1> QED
  BY <1>1, <1>2 DEF ClientInv

\* A client whose reading is through has seen what there is, if it is quiet.
LEMMA ReadingCurrent ==
    ASSUME Inv, NEW c \in Clients, quiet[c],
           Through(c, "read") \/ Through(c, "verify")
    PROVE  seen[c] = acl
<1>1. ClientInv(c) /\ seen[c] \in Acls /\ acl \in Acls
  BY DEF Inv, TypeOK
<1>2. ASSUME NEW i \in Ids PROVE seen[c][i] = acl[i]
  <2>1. Category[i] < at[c]
    BY CategoryType DEF Through, Past, Categories, LocalUser, LocalGroup,
                        LdapUser, LdapGroup
  <2> QED
    BY <1>1, <2>1 DEF ClientInv, CurrentInv, Through
<1> QED
  BY <1>1, <1>2 DEF Acls

LEMMA OwnDecision ==
    ASSUME Inv, NEW c \in Clients,
           RejectUnknown(c) \/ NothingToDo(c) \/ StartWriting(c)
    PROVE  ClientInv(c)'
<1>0. TypeOK /\ ClientInv(c) /\ pc[c] = "read"
  BY DEF Inv, RejectUnknown, NothingToDo, StartWriting, Through
<1>1. wrote[c] = {}
  <2>1. \A i \in wrote[c] : i \in Ids /\ Category[i] \in Categories
    BY <1>0, CategoryType DEF TypeOK
  <2> QED
    BY <1>0, <2>1 DEF ClientInv, ReadingInv, Untried
<1> USE DEF TypeOK, clientVars, ghosts, Stop
<1>2. CASE RejectUnknown(c)
  BY <1>0, <1>1, <1>2
  DEF RejectUnknown, ClientInv, ReadingInv, WritingInv, VerifyingInv,
      CurrentInv, EndedInv, Killed
<1>3. CASE NothingToDo(c)
  <2>1. quiet'[c] => Matches(req[c], acl)'
    BY <1>0, <1>3, ReadingCurrent DEF NothingToDo, Matches, Tolerated, Asked
  <2> QED
    BY <1>0, <1>1, <1>3, <2>1
    DEF NothingToDo, ClientInv, ReadingInv, WritingInv, VerifyingInv,
        CurrentInv, EndedInv
<1>4. CASE StartWriting(c)
  <2>1. \A k \in Categories : ~ k < LocalUser
    BY DEF Categories, LocalUser, LocalGroup, LdapUser, LdapGroup
  <2>2. \A i \in Delta(req[c], seen[c]) : i \in Asked(req[c]) \/ Revocable(req[c], i)
    BY DEF Delta
  <2>3. at'[c] = LocalUser /\ delta'[c] = Delta(req[c], seen[c]) /\ pc'[c] = "set"
        /\ req' = req /\ report' = report /\ wrote' = wrote
    BY <1>0, <1>4 DEF StartWriting
  <2>4. WritingInv(c)'
    <3>1. \A k \in Categories : Untried(c, k)' /\ ~ k < at'[c]
      BY <1>0, <2>1, <2>3 DEF ClientInv, ReadingInv, Untried
    <3>2. report'[c][VerifyStep] = "none"
      BY <1>0, <2>3, CategoryAssumption
      DEF ClientInv, ReadingInv, Categories
    <3>3. \A i \in delta'[c] :
             (i \in Asked(req[c]))' \/ Revocable(req[c], i)'
      BY <2>2, <2>3 DEF Asked, Revocable
    <3> QED
      BY <3>1, <3>2, <3>3 DEF WritingInv
  <2> QED
    BY <2>3, <2>4 DEF ClientInv, ReadingInv, VerifyingInv, CurrentInv, EndedInv
<1> QED
  BY <1>2, <1>3, <1>4

\* Dealing with a category puts it behind the client.
LEMMA OwnCategory ==
    ASSUME Inv, NEW c \in Clients, SkipCategory(c) \/ SetCategory(c)
    PROVE  ClientInv(c)'
<1>0. TypeOK /\ ClientInv(c) /\ pc[c] = "set" /\ at[c] \in Categories
  BY InType DEF Inv, SkipCategory, SetCategory, In
<1>1. PICK n \in Categories : n = at[c]
  BY <1>0
<1>2. /\ pc'[c] = "set" /\ at'[c] = n + 1 /\ req' = req /\ delta' = delta
      /\ \A s \in Steps : s # n => report'[c][s] = report[c][s]
  BY <1>0, <1>1
  DEF SkipCategory, SetCategory, NextCategory, Step, TypeOK, Steps, In
<1>3. wrote[c] \subseteq wrote'[c] /\ \A i \in wrote'[c] :
         i \in wrote[c] \/ (i \in delta[c] /\ Category[i] = n)
  BY <1>0, <1>1 DEF SkipCategory, SetCategory, Written, TypeOK, ghosts, Due
<1>4. Handled(c, n)'
  <2>1. n \in Steps
    BY <1>1 DEF Steps
  <2>2. CASE SkipCategory(c)
    <3>1. \A i \in wrote[c] : Category[i] # n
      BY <1>0, <1>1 DEF ClientInv, WritingInv, Untried, Categories, LocalUser,
                        LocalGroup, LdapUser, LdapGroup
    <3>2. report'[c][n] = "SKIPPED" /\ wrote' = wrote
      BY <1>0, <1>1, <2>1, <2>2 DEF SkipCategory, Step, TypeOK, ghosts
    <3> QED
      BY <3>1, <3>2 DEF Handled
  <2>3. CASE SetCategory(c)
    <3>1. report'[c][n] = "SUCCEEDED"
      BY <1>0, <1>1, <2>1, <2>3 DEF SetCategory, Step, TypeOK
    <3>2. {i \in delta[c] : Category[i] = n} \subseteq wrote'[c]
      BY <1>0, <1>1, <2>3 DEF SetCategory, Written, Due, TypeOK
    <3> QED
      BY <1>2, <3>1, <3>2 DEF Handled
  <2> QED
    BY <2>2, <2>3
<1>5. ASSUME NEW k \in Categories, k < n
      PROVE  Handled(c, k)'
  <2>1. Handled(c, k)
    BY <1>0, <1>1, <1>5 DEF ClientInv, WritingInv
  <2>2. report'[c][k] = report[c][k] /\ k # n
    BY <1>1, <1>2, <1>5
    DEF Steps, Categories, LocalUser, LocalGroup, LdapUser, LdapGroup
  <2> QED
    BY <1>2, <1>3, <2>1, <2>2 DEF Handled
<1>6. ASSUME NEW k \in Categories, ~ k < n + 1
      PROVE  Untried(c, k)'
  <2>1. k # n /\ ~ k < n
    BY <1>1, <1>6 DEF Categories, LocalUser, LocalGroup, LdapUser, LdapGroup
  <2>2. Untried(c, k)
    BY <1>0, <1>1, <2>1 DEF ClientInv, WritingInv
  <2> QED
    BY <1>2, <1>3, <2>1, <2>2 DEF Untried, Steps
<1>7. \A k \in Categories : k < n + 1 => k < n \/ k = n
  BY <1>1 DEF Categories, LocalUser, LocalGroup, LdapUser, LdapGroup
<1>8. report'[c][VerifyStep] = "none"
  BY <1>0, <1>1, <1>2 DEF ClientInv, WritingInv, Steps, VerifyStep, Categories,
                    LocalUser, LocalGroup, LdapUser, LdapGroup
<1>9. \A i \in delta'[c] : (i \in Asked(req[c]))' \/ Revocable(req[c], i)'
  BY <1>0, <1>2 DEF ClientInv, WritingInv, Asked, Revocable
<1>10. \A k \in Categories :
          IF k < n + 1 THEN Handled(c, k)' ELSE Untried(c, k)'
  BY <1>4, <1>5, <1>6, <1>7
<1>11. WritingInv(c)'
  BY <1>2, <1>8, <1>9, <1>10 DEF WritingInv
<1>12. ReadingInv(c)' /\ VerifyingInv(c)' /\ CurrentInv(c)' /\ EndedInv(c)'
  BY <1>2 DEF ReadingInv, VerifyingInv, CurrentInv, EndedInv
<1> QED
  BY <1>11, <1>12 DEF ClientInv

LEMMA OwnReadBack ==
    ASSUME Inv, NEW c \in Clients, ReadBack(c)
    PROVE  ClientInv(c)'
<1>0. TypeOK /\ ClientInv(c) /\ pc[c] = "set" /\ at[c] = Past
  BY DEF Inv, ReadBack, Through
<1>1. /\ pc'[c] = "verify" /\ at'[c] = LocalUser /\ report' = report
      /\ wrote' = wrote /\ delta' = delta
  BY <1>0 DEF ReadBack, TypeOK
<1>2. \A k \in Categories : k < Past /\ ~ k < LocalUser
  BY DEF Past, Categories, LocalUser, LocalGroup, LdapUser, LdapGroup
<1>3. VerifyingInv(c)'
  BY <1>0, <1>1, <1>2 DEF ClientInv, WritingInv, VerifyingInv, Handled
<1>4. CurrentInv(c)'
  BY <1>1, <1>2, CategoryType DEF CurrentInv
<1> QED
  BY <1>1, <1>3, <1>4 DEF ClientInv, ReadingInv, WritingInv, EndedInv

LEMMA OwnVerify ==
    ASSUME Inv, NEW c \in Clients, Verify(c)
    PROVE  ClientInv(c)'
<1>0. TypeOK /\ ClientInv(c) /\ pc[c] = "verify" /\ at[c] = Past
  BY DEF Inv, Verify, Through
<1>1. /\ pc'[c] = "done" /\ req' = req /\ acl' = acl
      /\ delta' = delta /\ wrote' = wrote /\ quiet' = quiet
  BY <1>0 DEF Verify, Stop, TypeOK, ghosts
<1>2. \A k \in Categories :
         /\ k \in Steps /\ k < VerifyStep /\ ~ k > VerifyStep
         /\ report'[c][k] = report[c][k] /\ Handled(c, k)
  <2>1. \A k \in Categories :
           k \in Steps /\ k < VerifyStep /\ ~ k > VerifyStep /\ k # VerifyStep
    BY DEF Steps, VerifyStep, Categories, LocalUser, LocalGroup, LdapUser, LdapGroup
  <2>2. \A k \in Categories : report'[c][k] = report[c][k]
    BY <1>0, <2>1 DEF Verify, Step, TypeOK
  <2> QED
    BY <1>0, <2>1, <2>2 DEF ClientInv, VerifyingInv
<1>3. \A i \in wrote[c] : Category[i] \in Categories
  BY <1>0, CategoryType DEF TypeOK
<1>4. (\A k \in Categories : report'[c][k] = "SKIPPED") => wrote'[c] = {}
  BY <1>1, <1>2, <1>3 DEF Handled
<1>5. CASE Matches(req[c], seen[c])
  <2>1. exit'[c] = 0
    BY <1>0, <1>5 DEF Verify, Stop, TypeOK
  <2>2. quiet'[c] => Matches(req[c], acl)'
    BY <1>0, <1>1, <1>5, ReadingCurrent DEF Verify, Matches, Tolerated, Asked
  <2>3. EndedInv(c)'
    BY <1>1, <1>4, <2>1, <2>2 DEF EndedInv
  <2> QED
    BY <1>1, <2>3 DEF ClientInv, ReadingInv, WritingInv, VerifyingInv, CurrentInv
<1>6. CASE ~ Matches(req[c], seen[c])
  <2>1. exit'[c] = 60 /\ report'[c][VerifyStep] = "FAILED"
    BY <1>0, <1>6 DEF Verify, Stop, Step, TypeOK, Steps
  <2>2. Interrupted(c, VerifyStep)'
    <3>1. \A r \in Steps : ~ r > VerifyStep /\ (r < VerifyStep => r \in Categories)
      BY DEF Steps, VerifyStep, Categories, LocalUser, LocalGroup, LdapUser, LdapGroup
    <3>2. \A r \in Categories :
             \/ /\ report'[c][r] = "SUCCEEDED"
                /\ {i \in delta'[c] : Category[i] = r} \subseteq wrote'[c]
             \/ report'[c][r] = "SKIPPED"
      BY <1>1, <1>2 DEF Handled
    <3>3. \A i \in wrote'[c] : report'[c][Category[i]] = "SUCCEEDED"
      BY <1>1, <1>2, <1>3 DEF Handled
    <3> QED
      BY <2>1, <3>1, <3>2, <3>3 DEF Interrupted
  <2>3. EndedInv(c)'
    <3>1. VerifyStep \in Steps
      BY DEF Steps
    <3> QED
      BY <1>1, <1>4, <2>1, <2>2, <3>1 DEF EndedInv
  <2> QED
    BY <1>1, <2>3 DEF ClientInv, ReadingInv, WritingInv, VerifyingInv, CurrentInv
<1> QED
  BY <1>5, <1>6

\* A client that is interrupted in the middle of its categories.
LEMMA OwnSetFails ==
    ASSUME Inv, NEW c \in Clients, SetFails(c)
    PROVE  ClientInv(c)'
<1>0. TypeOK /\ ClientInv(c) /\ pc[c] = "set" /\ at[c] \in Categories
  BY InType DEF Inv, SetFails, In
<1>1. PICK n \in Categories : n = at[c]
  BY <1>0
<1>2. /\ pc'[c] = "done" /\ exit'[c] = 60 /\ delta' = delta
      /\ report'[c][n] \in {"FAILED", "UNKNOWN"}
      /\ \A s \in Steps : s # n => report'[c][s] = report[c][s]
  BY <1>0, <1>1 DEF SetFails, Stop, Step, TypeOK, Steps
<1>3. wrote[c] \subseteq wrote'[c] /\ \A i \in wrote'[c] :
         i \in wrote[c] \/ (i \in delta[c] /\ Category[i] = n)
  <2>1. PICK done \in SUBSET Due(c) : Written(c, done)
    BY DEF SetFails
  <2>2. wrote'[c] = wrote[c] \cup done
    BY <1>0, <2>1 DEF Written, TypeOK
  <2> QED
    BY <1>1, <2>1, <2>2 DEF Due
<1>4. \A k \in Categories : IF k < n THEN Handled(c, k) ELSE Untried(c, k)
  BY <1>0, <1>1 DEF ClientInv, WritingInv
<1>5. Interrupted(c, n)'
  <2>1. ASSUME NEW r \in Steps, r > n PROVE report'[c][r] = "none"
    <3>1. r # n /\ (r \in Categories => ~ r < n)
      BY <1>1, <2>1 DEF Steps, VerifyStep, Categories, LocalUser, LocalGroup,
                        LdapUser, LdapGroup
    <3>2. report[c][r] = "none"
      BY <1>0, <1>4, <3>1 DEF Untried, ClientInv, WritingInv, Steps
    <3> QED
      BY <1>2, <3>1, <3>2
  <2>2. ASSUME NEW r \in Steps, r < n
        PROVE  \/ /\ report'[c][r] = "SUCCEEDED"
                  /\ {i \in delta'[c] : Category[i] = r} \subseteq wrote'[c]
               \/ report'[c][r] = "SKIPPED"
    <3>1. r \in Categories /\ r # n
      BY <1>1, <2>2 DEF Steps, VerifyStep, Categories, LocalUser, LocalGroup,
                        LdapUser, LdapGroup
    <3> QED
      BY <1>2, <1>3, <1>4, <2>2, <3>1 DEF Handled
  <2>3. ASSUME NEW i \in wrote'[c]
        PROVE  report'[c][Category[i]] \in {"SUCCEEDED", "FAILED", "UNKNOWN"}
    <3>1. CASE Category[i] = n
      BY <1>2, <3>1
    <3>2. CASE Category[i] # n
      <4>1. i \in wrote[c] /\ Category[i] \in Categories
        BY <1>0, <1>3, <3>2, CategoryType DEF TypeOK
      <4>2. Handled(c, Category[i])
        BY <1>4, <4>1 DEF Untried
      <4> QED
        BY <1>2, <3>2, <4>1, <4>2 DEF Handled, Steps
    <3> QED
      BY <3>1, <3>2
  <2> QED
    BY <1>2, <2>1, <2>2, <2>3 DEF Interrupted
<1>6. EndedInv(c)'
  <2>1. n \in Steps /\ ~ (\A k \in Categories : report'[c][k] = "SKIPPED")
    BY <1>1, <1>2 DEF Steps
  <2> QED
    BY <1>2, <1>5, <2>1 DEF EndedInv
<1> QED
  BY <1>2, <1>6 DEF ClientInv, ReadingInv, WritingInv, VerifyingInv, CurrentInv

LEMMA OwnReadBackFails ==
    ASSUME Inv, NEW c \in Clients, ReadBackFails(c)
    PROVE  ClientInv(c)'
<1>0. TypeOK /\ ClientInv(c) /\ pc[c] = "verify"
  BY DEF Inv, ReadBackFails, In
<1>1. /\ pc'[c] = "done" /\ exit'[c] = 60 /\ delta' = delta /\ wrote' = wrote
      /\ report'[c][VerifyStep] \in {"FAILED", "UNKNOWN"}
  BY <1>0 DEF ReadBackFails, Stop, Step, TypeOK, Steps, ghosts
<1>2. \A k \in Categories : report'[c][k] = report[c][k] /\ Handled(c, k)
  <2>1. \A k \in Categories : k \in Steps /\ k # VerifyStep
    BY DEF Steps, VerifyStep, Categories, LocalUser, LocalGroup, LdapUser, LdapGroup
  <2> QED
    BY <1>0, <2>1 DEF ReadBackFails, Step, TypeOK, ClientInv, VerifyingInv
<1>3. \A i \in wrote[c] : Category[i] \in Categories
  BY <1>0, CategoryType DEF TypeOK
<1>4. Interrupted(c, VerifyStep)'
  <2>1. \A r \in Steps : ~ r > VerifyStep /\ (r < VerifyStep => r \in Categories)
    BY DEF Steps, VerifyStep, Categories, LocalUser, LocalGroup, LdapUser, LdapGroup
  <2>2. \A r \in Categories :
           \/ /\ report'[c][r] = "SUCCEEDED"
              /\ {i \in delta'[c] : Category[i] = r} \subseteq wrote'[c]
           \/ report'[c][r] = "SKIPPED"
    BY <1>1, <1>2 DEF Handled
  <2>3. \A i \in wrote'[c] : report'[c][Category[i]] = "SUCCEEDED"
    BY <1>1, <1>2, <1>3 DEF Handled
  <2> QED
    BY <1>1, <2>1, <2>2, <2>3 DEF Interrupted
<1>5. (\A k \in Categories : report'[c][k] = "SKIPPED") => wrote'[c] = {}
  BY <1>1, <1>2, <1>3 DEF Handled
<1>6. EndedInv(c)'
  <2>1. VerifyStep \in Steps
    BY DEF Steps
  <2> QED
    BY <1>1, <1>4, <1>5, <2>1 DEF EndedInv
<1> QED
  BY <1>1, <1>6 DEF ClientInv, ReadingInv, WritingInv, VerifyingInv, CurrentInv

\* Before the first write nothing has been sent.
LEMMA NothingSentYet ==
    ASSUME Inv, NEW c \in Clients, pc[c] = "read"
    PROVE  wrote[c] = {}
<1>1. \A i \in wrote[c] : i \in Ids /\ Category[i] \in Categories
  BY CategoryType DEF Inv, TypeOK
<1> QED
  BY <1>1 DEF Inv, ClientInv, ReadingInv, Untried

LEMMA OwnReadFails ==
    ASSUME Inv, NEW c \in Clients, ReadFails(c)
    PROVE  ClientInv(c)'
<1>1. TypeOK /\ wrote[c] = {}
  BY NothingSentYet DEF Inv, ReadFails, In
<1>2. pc'[c] = "done" /\ exit'[c] \in {20, 30, 40} /\ wrote' = wrote
  BY <1>1 DEF ReadFails, Stop, TypeOK, ghosts
<1> QED
  BY <1>1, <1>2 DEF ClientInv, ReadingInv, WritingInv, VerifyingInv, CurrentInv,
                    EndedInv

\* A killed client leaves no result, whatever it was doing.
LEMMA OwnKill ==
    ASSUME Inv, NEW c \in Clients, Kill(c)
    PROVE  ClientInv(c)'
<1>0. TypeOK /\ ClientInv(c)
  BY DEF Inv
<1>1. pc'[c] = "done" /\ exit'[c] = Killed /\ report' = report
  BY <1>0 DEF Kill, Stop, TypeOK
<1>2. (\A k \in Categories : report[c][k] = "SKIPPED") => wrote'[c] = {}
  <2> SUFFICES ASSUME \A k \in Categories : report[c][k] = "SKIPPED"
               PROVE  wrote'[c] = {}
    OBVIOUS
  <2>1. \A k \in Categories : ~ Untried(c, k)
    BY DEF Untried
  <2>2. pc[c] # "read"
    BY <1>0, <2>1 DEF ClientInv, ReadingInv, Categories
  <2>3. \A k \in Categories : Handled(c, k)
    BY <1>0, <2>1, <2>2 DEF Kill, TypeOK, ClientInv, WritingInv, VerifyingInv
  <2>4. ~ In(c, "set")
    <3>1. ASSUME In(c, "set") PROVE FALSE
      <4>1. at[c] \in Categories
        BY <1>0, <3>1, InType
      <4>2. PICK n \in Categories : n = at[c]
        BY <4>1
      <4>3. ~ n < n
        BY <4>2 DEF Categories, LocalUser, LocalGroup, LdapUser, LdapGroup
      <4> QED
        BY <1>0, <2>1, <3>1, <4>2, <4>3 DEF In, ClientInv, WritingInv
    <3> QED
      BY <3>1
  <2>5. wrote' = wrote
    BY <2>4 DEF Kill
  <2>6. \A i \in wrote[c] : Category[i] \in Categories
    BY <1>0, CategoryType DEF TypeOK
  <2> QED
    BY <2>3, <2>5, <2>6 DEF Handled
<1>3. EndedInv(c)'
  BY <1>1, <1>2 DEF EndedInv, Killed
<1> QED
  BY <1>1, <1>3 DEF ClientInv, ReadingInv, WritingInv, VerifyingInv, CurrentInv

LEMMA OwnRerun ==
    ASSUME Inv, NEW c \in Clients, Rerun(c)
    PROVE  ClientInv(c)'
<1>1. /\ pc'[c] = "read" /\ at'[c] = LocalUser /\ report'[c] = NoSteps
      /\ wrote'[c] = {}
  BY DEF Inv, TypeOK, Rerun
<1>2. ReadingInv(c)'
  BY <1>1 DEF ReadingInv, Untried, NoSteps, Steps
<1>3. \A i \in Ids : ~ Category[i] < LocalUser
  BY CategoryType DEF Categories, LocalUser, LocalGroup, LdapUser, LdapGroup
<1>4. CurrentInv(c)'
  BY <1>1, <1>3 DEF CurrentInv
<1> QED
  BY <1>1, <1>2, <1>4 DEF ClientInv, WritingInv, VerifyingInv, EndedInv

----------------------------------------------------------------------------
(* The theorems.                                                           *)

LEMMA InitInv == Init => Inv
<1> SUFFICES ASSUME Init PROVE Inv
  OBVIOUS
<1>1. TypeOK
  BY BoundsAssumption, AclAssumption
  DEF Init, TypeOK, Categories, Nothing, NoSteps, Acls, Access, Statuses
<1>2. ASSUME NEW c \in Clients PROVE ClientInv(c)
  <2>1. /\ pc[c] = "read" /\ at[c] = LocalUser /\ report[c] = NoSteps
        /\ wrote[c] = {}
    BY DEF Init
  <2>2. ReadingInv(c)
    BY <2>1 DEF ReadingInv, Untried, NoSteps, Steps
  <2>3. \A i \in Ids : ~ Category[i] < LocalUser
    BY CategoryType DEF Categories, LocalUser, LocalGroup, LdapUser, LdapGroup
  <2> QED
    BY <2>1, <2>2, <2>3 DEF ClientInv, WritingInv, VerifyingInv, CurrentInv, EndedInv
<1> QED
  BY <1>1, <1>2 DEF Inv

LEMMA NextInv == Inv /\ [Next]_vars => Inv'
<1> SUFFICES ASSUME Inv, [Next]_vars PROVE Inv'
  OBVIOUS
<1>1. TypeOK'
  BY ClientType, FaultType, OtherType DEF Next, Inv
<1>2. ASSUME NEW c \in Clients, Client(c) \/ Fault(c) \/ Rerun(c),
             NEW d \in Clients
      PROVE  ClientInv(d)'
  <2>1. CASE d # c
    BY <1>2, <2>1, OthersStep
  <2>2. CASE d = c
    BY <1>2, <2>2, OwnRead, OwnDecision, OwnCategory, OwnReadBack, OwnVerify,
       OwnSetFails, OwnReadFails, OwnReadBackFails, OwnKill, OwnRerun
    DEF Client, Fault
  <2> QED
    BY <2>1, <2>2
<1>3. ASSUME Edit, NEW d \in Clients PROVE ClientInv(d)'
  BY <1>3, OthersKept DEF Edit, Inv, TypeOK, clientVars
<1>4. ASSUME UNCHANGED vars, NEW d \in Clients PROVE ClientInv(d)'
  BY <1>4, OthersKept DEF vars, Inv, clientVars, ghosts
<1>5. \A d \in Clients : ClientInv(d)'
  BY <1>2, <1>3, <1>4 DEF Next
<1> QED
  BY <1>1, <1>5 DEF Inv

\* The inductive invariant holds.
THEOREM AclInvariant == Spec => []Inv
  BY InitInv, NextInv, PTL DEF Spec

\* Exit code 0 means the permissions are as requested, unless somebody else
\* has written since the client began its last reading.
THEOREM SuccessIsRealCorrect == Spec => []SuccessIsReal
<1>1. Inv => SuccessIsReal
  BY DEF Inv, ClientInv, EndedInv, SuccessIsReal
<1> QED
  BY <1>1, AclInvariant, PTL

\* A failure before the first write, and a result that skips everything,
\* mean that nothing was sent.
THEOREM EarlyExitCorrect == Spec => []EarlyExitSentNothing
<1>1. Inv => EarlyExitSentNothing
  BY DEF Inv, ClientInv, EndedInv, EarlyExitSentNothing
<1> QED
  BY <1>1, AclInvariant, PTL

\* The steps of a partial result tell how far the replacement came.
THEOREM PartialReportCorrect == Spec => []PartialReportIsTrue
<1>1. Inv => PartialReportIsTrue
  BY DEF Inv, ClientInv, EndedInv, Interrupted, PartialReportIsTrue
<1> QED
  BY <1>1, AclInvariant, PTL

\* What a client may revoke its mode does not protect.
LEMMA RevocableUnprotected ==
    ASSUME NEW r \in Request, NEW i, i \in Asked(r) \/ Revocable(r, i)
    PROVE  ~ Protected(r, i)
  BY DEF Revocable, Protected

\* A write changes only entries the client may change.
LEMMA WriteIsAllowed ==
    ASSUME Inv, NEW c \in Clients, pc[c] = "set",
           NEW done \in SUBSET Due(c), Written(c, done),
           NEW i \in Ids, acl'[i] # acl[i]
    PROVE  acl'[i] = req[c].want[i] /\ ~ Protected(req[c], i)
<1>1. i \in done /\ acl'[i] = req[c].want[i]
  BY DEF Written, Patched, Inv, TypeOK, Acls
<1>2. i \in Asked(req[c]) \/ Revocable(req[c], i)
  BY <1>1 DEF Due, Inv, ClientInv, WritingInv
<1>3. req[c] \in Request
  BY RequestAssumption DEF Inv, TypeOK
<1> QED
  BY <1>1, <1>2, <1>3, RevocableUnprotected

\* No client takes an entry away that its request does not name and its mode
\* protects, however the clients interleave and whatever the calls did that
\* failed.
THEOREM AdministratorsPreservedCorrect == Spec => AdministratorsPreserved
<1> DEFINE Allowed ==
      edits' = edits =>
        \A i \in Ids : acl'[i] # acl[i] =>
            \E c \in Clients :
                acl'[i] = req[c].want[i] /\ ~ Protected(req[c], i)
<1>1. Inv /\ [Next]_vars => [Allowed]_vars
  <2> SUFFICES ASSUME Inv, Next PROVE Allowed
    OBVIOUS
  <2>1. ASSUME NEW c \in Clients, pc[c] = "set", NEW done \in SUBSET Due(c),
               Written(c, done)
        PROVE  Allowed
    BY <2>1, WriteIsAllowed
  <2>2. ASSUME acl' = acl PROVE Allowed
    BY <2>2
  <2>3. ASSUME NEW c \in Clients, Client(c) PROVE Allowed
    <3>1. CASE SetCategory(c)
      <4>1. Due(c) \in SUBSET Due(c) /\ Written(c, Due(c)) /\ pc[c] = "set"
        BY <3>1 DEF SetCategory, In
      <4> QED
        BY <4>1, <2>1
    <3>2. CASE ~ SetCategory(c)
      <4>1. acl' = acl
        BY <2>3, <3>2 DEF Client, ReadCategory, RejectUnknown, NothingToDo,
           StartWriting, SkipCategory, ReadBack, Verify
      <4> QED
        BY <4>1, <2>2
    <3> QED
      BY <3>1, <3>2
  <2>4. ASSUME NEW c \in Clients, Fault(c) PROVE Allowed
    <3>1. CASE SetFails(c)
      <4>1. pc[c] = "set" /\ \E done \in SUBSET Due(c) : Written(c, done)
        BY <3>1 DEF SetFails, In
      <4> QED
        BY <4>1, <2>1
    <3>2. CASE Kill(c)
      <4>1. \/ acl' = acl
            \/ pc[c] = "set" /\ \E done \in SUBSET Due(c) : Written(c, done)
        BY <3>2 DEF Kill, In
      <4> QED
        BY <4>1, <2>1, <2>2
    <3>3. CASE ReadFails(c) \/ ReadBackFails(c)
      <4>1. acl' = acl
        BY <3>3 DEF ReadFails, ReadBackFails
      <4> QED
        BY <4>1, <2>2
    <3> QED
      BY <2>4, <3>1, <3>2, <3>3 DEF Fault
  <2>5. ASSUME NEW c \in Clients, Rerun(c) PROVE Allowed
    <3>1. acl' = acl
      BY <2>5 DEF Rerun
    <3> QED
      BY <3>1, <2>2
  <2>6. ASSUME Edit PROVE Allowed
    <3>1. edits' # edits
      BY <2>6 DEF Edit, Inv, TypeOK
    <3> QED
      BY <3>1
  <2> QED
    BY <2>3, <2>4, <2>5, <2>6 DEF Next
<1> QED
  BY <1>1, AclInvariant, PTL DEF Spec, AdministratorsPreserved

----------------------------------------------------------------------------
(* A client on its own.                                                    *)

\* No step of anybody else, and none that failed.
Alone(c) == edits = 0 /\ faults = 0 /\ Clients = {c}

\* What it has set is in place, what it has yet to set is what is missing,
\* and once that is done nothing is.
OnCourse(c) ==
    /\ quiet[c]
    /\ pc[c] = "set" =>
          /\ \A i \in delta[c] : Category[i] < at[c] => acl[i] = req[c].want[i]
          /\ Attainable(req[c], acl)
                => Matches(req[c], Patched(req[c], acl, delta[c]))
    /\ pc[c] = "verify" /\ Attainable(req[c], acl) => Matches(req[c], acl)
    /\ pc[c] = "done" /\ exit[c] = 60 => ~ Attainable(req[c], acl)
AloneInv(c) == Alone(c) => OnCourse(c)

\* The grant that decides what is attainable is none the client takes away.
LEMMA AttainableKept ==
    ASSUME NEW r \in Request, NEW a \in Acls, NEW done \in SUBSET Ids,
           \A i \in done : i \in Asked(r) \/ Revocable(r, i),
           Attainable(r, Patched(r, a, done))
    PROVE  Attainable(r, a)
<1>1. Administrators \in Ids
  BY AdministratorsAssumption
<1>2. CASE r.mode # "replace" \/ Administrators \in AdminFlagged \cup Asked(r)
  BY <1>2 DEF Attainable
<1>3. CASE r.mode = "replace" /\ Administrators \notin AdminFlagged \cup Asked(r)
  <2>1. Administrators \notin done
    BY <1>3 DEF Revocable
  <2>2. Patched(r, a, done)[Administrators] = a[Administrators]
    BY <1>1, <2>1 DEF Patched
  <2> QED
    BY <1>3, <2>2 DEF Attainable
<1> QED
  BY <1>2, <1>3

\* Every entry of the delta belongs to a category that has been dealt with.
LEMMA AllHandled ==
    ASSUME Inv, NEW c \in Clients, AloneInv(c), Alone(c), Through(c, "set"),
           Attainable(req[c], acl)
    PROVE  Matches(req[c], acl)
<1>1. /\ acl \in Acls /\ delta[c] \subseteq Ids
      /\ pc[c] = "set" /\ at[c] = Past
  BY DEF Inv, TypeOK, Through
<1>2. \A i \in delta[c] : acl[i] = req[c].want[i]
  <2>1. \A i \in Ids : Category[i] < Past
    BY CategoryType DEF Past, Categories, LocalUser, LocalGroup, LdapUser, LdapGroup
  <2> QED
    BY <1>1, <2>1 DEF AloneInv, OnCourse
<1>3. Patched(req[c], acl, delta[c]) = acl
  BY <1>1, <1>2 DEF Patched, Acls
<1> QED
  BY <1>1, <1>3 DEF AloneInv, OnCourse

\* The step that sets the category it has reached.
LEMMA AloneSets ==
    ASSUME Inv, NEW c \in Clients, AloneInv(c), SetCategory(c)
    PROVE  AloneInv(c)'
<1>1. /\ TypeOK /\ WritingInv(c) /\ at[c] \in Categories
      /\ req[c] \in Request /\ pc[c] = "set" /\ acl \in Acls
      /\ delta[c] \subseteq Ids
  BY InType, RequestAssumption DEF Inv, ClientInv, SetCategory, In, TypeOK
<1> SUFFICES ASSUME Alone(c)' PROVE OnCourse(c)'
  BY DEF AloneInv
<1>2. /\ req' = req /\ delta' = delta /\ pc' = pc /\ exit' = exit
      /\ at'[c] = at[c] + 1
      /\ acl' = Patched(req[c], acl, Due(c)) /\ quiet'[c] = quiet[c]
  BY <1>1 DEF SetCategory, Written, NextCategory, TypeOK
<1>3. Alone(c)
  BY DEF Alone, SetCategory
<1>4. Due(c) \in SUBSET Ids
      /\ \A i \in Due(c) : i \in Asked(req[c]) \/ Revocable(req[c], i)
  BY <1>1 DEF Due, WritingInv
<1>5. ASSUME NEW i \in delta[c], Category[i] < at[c] + 1
      PROVE  acl'[i] = req[c].want[i]
  <2>1. i \in Ids /\ Category[i] \in Categories
    BY <1>1, CategoryType
  <2>2. i \in Due(c) \/ Category[i] < at[c]
    BY <1>1, <1>5, <2>1 DEF Due, Categories, LocalUser, LocalGroup, LdapUser, LdapGroup
  <2> QED
    BY <1>2, <1>3, <1>1, <2>1, <2>2 DEF AloneInv, OnCourse, Patched
<1>6. Patched(req[c], acl', delta[c]) = Patched(req[c], acl, delta[c])
  BY <1>2 DEF Patched, Due
<1>7. Attainable(req[c], acl') => Attainable(req[c], acl)
  BY <1>1, <1>2, <1>4, AttainableKept
<1>8. quiet[c] /\ (Attainable(req[c], acl)
                     => Matches(req[c], Patched(req[c], acl, delta[c])))
  BY <1>1, <1>3 DEF AloneInv, OnCourse
<1>9. Attainable(req[c], acl') => Matches(req[c], Patched(req[c], acl', delta[c]))
  BY <1>6, <1>7, <1>8
<1>10. \A i \in delta'[c] : Category[i] < at'[c] => acl'[i] = req'[c].want[i]
  BY <1>2, <1>5
<1>11. (Attainable(req[c], acl)
           => Matches(req[c], Patched(req[c], acl, delta[c])))'
  BY <1>2, <1>9 DEF Attainable, Matches, Patched, Asked, Tolerated
<1> QED
  BY <1>1, <1>2, <1>8, <1>10, <1>11 DEF OnCourse

\* The other steps of the client.
LEMMA AloneGoesOn ==
    ASSUME Inv, NEW c \in Clients, AloneInv(c), Alone(c), Client(c),
           ~ SetCategory(c)
    PROVE  OnCourse(c)'
<1>1. TypeOK /\ OnCourse(c) /\ quiet[c] /\ req[c] \in Requests
  BY DEF Inv, AloneInv, OnCourse, TypeOK
<1>2. acl \in Acls /\ acl' = acl /\ req' = req
  BY <1>1 DEF Client, ReadCategory, RejectUnknown, NothingToDo, StartWriting,
              SkipCategory, ReadBack, Verify, TypeOK
<1>3. /\ Matches(req[c], acl)' <=> Matches(req[c], acl)
      /\ Attainable(req[c], acl)' <=> Attainable(req[c], acl)
  BY <1>2 DEF Matches, Attainable, Asked, Tolerated
<1>4. \A i \in Ids : ~ Category[i] < LocalUser
  BY CategoryType DEF Categories, LocalUser, LocalGroup, LdapUser, LdapGroup
<1> USE DEF TypeOK, ghosts
<1>5. CASE ReadCategory(c)
  <2>1. pc'[c] = pc[c] /\ pc[c] \in {"read", "verify"} /\ quiet'[c] = quiet[c]
    BY <1>1, <1>5 DEF ReadCategory, In
  <2> QED
    BY <1>1, <1>3, <2>1 DEF OnCourse
<1>6. CASE RejectUnknown(c) \/ NothingToDo(c)
  <2>1. pc'[c] = "done" /\ exit'[c] \in {0, 41} /\ quiet'[c] = quiet[c]
    BY <1>1, <1>6 DEF RejectUnknown, NothingToDo, Stop
  <2> QED
    BY <1>1, <2>1 DEF OnCourse
<1>7. CASE StartWriting(c)
  <2>1. /\ pc'[c] = "set" /\ at'[c] = LocalUser /\ quiet'[c] = quiet[c]
        /\ delta'[c] = Delta(req[c], seen[c])
    BY <1>1, <1>7 DEF StartWriting
  <2>2. seen[c] = acl
    BY <1>1, <1>7, ReadingCurrent DEF StartWriting
  <2>3. delta'[c] \subseteq Ids
    BY <2>1 DEF Delta
  <2>4. Attainable(req[c], acl) => Matches(req[c], Patched(req[c], acl, delta'[c]))
    BY <1>1, <1>2, <2>1, <2>2, DeltaSuffices
  <2>5. (Attainable(req[c], acl)
            => Matches(req[c], Patched(req[c], acl, delta[c])))'
    BY <1>2, <2>4 DEF Attainable, Matches, Patched, Asked, Tolerated
  <2> QED
    BY <1>1, <1>4, <2>1, <2>3, <2>5 DEF OnCourse
<1>8. CASE SkipCategory(c)
  <2>1. /\ pc' = pc /\ pc[c] = "set" /\ at'[c] = at[c] + 1 /\ delta' = delta
        /\ quiet' = quiet /\ at[c] \in Categories /\ Due(c) = {}
    BY <1>1, <1>8, InType DEF SkipCategory, NextCategory, In
  <2>2. ASSUME NEW i \in delta[c], Category[i] < at[c] + 1
        PROVE  Category[i] < at[c]
    <3>1. Category[i] # at[c] /\ Category[i] \in Categories
      BY <1>1, <2>1, CategoryType DEF Due
    <3> QED
      BY <2>1, <2>2, <3>1
      DEF Categories, LocalUser, LocalGroup, LdapUser, LdapGroup
  <2>3. \A i \in delta'[c] : Category[i] < at'[c] => acl'[i] = req'[c].want[i]
    BY <1>1, <1>2, <2>1, <2>2 DEF OnCourse
  <2>4. (Attainable(req[c], acl)
            => Matches(req[c], Patched(req[c], acl, delta[c])))'
    BY <1>1, <1>2, <2>1 DEF OnCourse, Attainable, Matches, Patched, Asked, Tolerated
  <2> QED
    BY <1>1, <2>1, <2>3, <2>4 DEF OnCourse
<1>9. CASE ReadBack(c)
  <2>1. pc'[c] = "verify" /\ quiet'[c]
    BY <1>1, <1>9 DEF ReadBack
  <2>2. Attainable(req[c], acl) => Matches(req[c], acl)
    BY <1>9, AllHandled DEF ReadBack
  <2> QED
    BY <1>3, <2>1, <2>2 DEF OnCourse
<1>10. CASE Verify(c)
  <2>1. /\ pc[c] = "verify" /\ pc'[c] = "done" /\ quiet'[c] = quiet[c]
        /\ exit'[c] = 60 => ~ Matches(req[c], seen[c])
    BY <1>1, <1>10 DEF Verify, Through, Stop
  <2>2. seen[c] = acl
    BY <1>1, <1>10, ReadingCurrent DEF Verify
  <2> QED
    BY <1>1, <1>3, <2>1, <2>2 DEF OnCourse
<1> QED
  BY <1>5, <1>6, <1>7, <1>8, <1>9, <1>10 DEF Client

LEMMA NextAlone ==
    ASSUME Inv, [Next]_vars, NEW c \in Clients, AloneInv(c)
    PROVE  AloneInv(c)'
<1> SUFFICES ASSUME Alone(c)' PROVE OnCourse(c)'
  BY DEF AloneInv
<1>1. TypeOK
  BY DEF Inv
<1>2. ~ Fault(c) /\ ~ Edit
  BY <1>1 DEF Fault, SetFails, ReadFails, ReadBackFails, Kill, Edit, Alone, TypeOK
<1>3. Client(c) \/ Rerun(c) \/ UNCHANGED vars
  BY <1>2 DEF Next, Alone
<1>4. Alone(c)
  BY <1>3 DEF Alone, Client, ReadCategory, RejectUnknown, NothingToDo,
     StartWriting, SkipCategory, SetCategory, ReadBack, Verify, Rerun, vars
<1>5. CASE Client(c)
  BY <1>4, <1>5, AloneSets, AloneGoesOn DEF AloneInv
<1>6. CASE Rerun(c)
  BY <1>1, <1>6 DEF Rerun, TypeOK, OnCourse
<1>7. CASE UNCHANGED vars
  BY <1>4, <1>7 DEF vars, clientVars, ghosts, AloneInv, OnCourse, Attainable,
     Matches, Patched, Asked, Tolerated
<1> QED
  BY <1>3, <1>5, <1>6, <1>7

\* A client nobody disturbs fails its read-back only for the administrators
\* group: what is sent and what is accepted are computed by two functions of
\* the code, and they agree.
THEOREM UndisturbedRunCorrect == Spec => []UndisturbedRunSucceeds
<1> DEFINE Courses == \A c \in Clients : AloneInv(c)
<1>1. Init => Courses
  BY DEF Init, AloneInv, OnCourse
<1>2. Inv /\ Courses /\ [Next]_vars => Courses'
  <2> SUFFICES ASSUME Inv, Courses, [Next]_vars, NEW c \in Clients
               PROVE  AloneInv(c)'
    OBVIOUS
  <2> QED
    BY NextAlone
<1>3. Courses => UndisturbedRunSucceeds
  BY DEF AloneInv, OnCourse, Alone, UndisturbedRunSucceeds
<1> QED
  BY <1>1, <1>2, <1>3, AclInvariant, PTL DEF Spec

----------------------------------------------------------------------------
(* Half-made replacements.                                                 *)

\* What has been sent is no longer missing, and nothing else has become so.
LEMMA DeltaShrinks ==
    ASSUME NEW r \in Requests, NEW a \in Acls, NEW done \in SUBSET Ids
    PROVE  Delta(r, Patched(r, a, done)) = Delta(r, a) \ done
<1> DEFINE p == Patched(r, a, done)
<1>1. ASSUME NEW i \in done PROVE i \notin Delta(r, p)
  <2>1. p[i] = r.want[i]
    BY <1>1 DEF Patched
  <2>2. Revocable(r, i) => r.want[i] = "none"
    BY <1>1 DEF Revocable, Asked
  <2> HIDE DEF p
  <2> QED
    BY <2>1, <2>2 DEF Delta
<1>2. ASSUME NEW i \in Ids \ done PROVE i \in Delta(r, p) <=> i \in Delta(r, a)
  <2>1. p[i] = a[i]
    BY <1>2 DEF Patched
  <2> HIDE DEF p
  <2> QED
    BY <2>1 DEF Delta
<1>3. Delta(r, p) \subseteq Ids /\ Delta(r, a) \subseteq Ids
  BY DEF Delta
<1> HIDE DEF p
<1>4. Delta(r, p) = Delta(r, a) \ done
  BY <1>1, <1>2, <1>3
<1> QED
  BY <1>4 DEF p

\* A replacement that stopped anywhere needs no repair by hand: the next run
\* sends what is left of it, and the two together leave the folder as one
\* that went through would have.
THEOREM RerunCompletes ==
    ASSUME NEW r \in Requests, NEW a \in Acls, NEW done \in SUBSET Delta(r, a)
    PROVE  LET half == Patched(r, a, done)
           IN  /\ Delta(r, half) = Delta(r, a) \ done
               /\ Patched(r, half, Delta(r, half)) = Patched(r, a, Delta(r, a))
<1> DEFINE half == Patched(r, a, done)
<1>1. done \in SUBSET Ids
  BY DEF Delta
<1>2. Delta(r, half) = Delta(r, a) \ done
  BY <1>1, DeltaShrinks
<1>3. ASSUME NEW i \in Ids
      PROVE  Patched(r, half, Delta(r, half))[i] = Patched(r, a, Delta(r, a))[i]
  <2>1. half[i] = IF i \in done THEN r.want[i] ELSE a[i]
    BY DEF Patched
  <2> HIDE DEF half
  <2> QED
    BY <1>2, <2>1 DEF Patched
<1>4. Patched(r, half, Delta(r, half)) = Patched(r, a, Delta(r, a))
  <2> HIDE DEF half
  <2>1. \A i \in Ids : Patched(r, half, Delta(r, half))[i] = Patched(r, a, Delta(r, a))[i]
    BY <1>3 DEF half
  <2> QED
    BY <2>1, Zenon DEF Patched
<1> QED
  BY <1>2, <1>4


\* A step of a client writes with its own request, or not at all.
LEMMA ClientWrites ==
    ASSUME Inv, NEW c \in Clients, Client(c) \/ Fault(c) \/ Rerun(c)
    PROVE  \/ acl' = acl
           \/ \E done \in SUBSET Ids : acl' = Patched(req[c], acl, done)
<1>1. Due(c) \in SUBSET Ids
  BY DEF Due, Inv, TypeOK
<1> QED
  BY <1>1 DEF Client, ReadCategory, RejectUnknown, NothingToDo, StartWriting,
     SkipCategory, SetCategory, ReadBack, Verify, Fault, SetFails, ReadFails,
     ReadBackFails, Kill, Rerun, Written

\* No step of a client sets its own work back: what the folder lacks for its
\* request only shrinks, be the call answered, lost or killed halfway, and
\* whatever others do between its steps.  A client that reruns competes with
\* other writers alone, never with itself.
THEOREM NothingIsUndone ==
    Spec => [][\A c \in Clients :
                  Client(c) \/ Fault(c) \/ Rerun(c)
                    => Delta(req[c], acl') \subseteq Delta(req[c], acl)]_vars
<1> DEFINE Gains ==
      \A c \in Clients : Client(c) \/ Fault(c) \/ Rerun(c)
        => Delta(req[c], acl') \subseteq Delta(req[c], acl)
<1>1. Inv => [Gains]_vars
  <2> SUFFICES ASSUME Inv, NEW c \in Clients, Client(c) \/ Fault(c) \/ Rerun(c)
               PROVE  Delta(req[c], acl') \subseteq Delta(req[c], acl)
    OBVIOUS
  <2>1. CASE acl' = acl
    BY <2>1
  <2>2. ASSUME NEW done \in SUBSET Ids, acl' = Patched(req[c], acl, done)
        PROVE  Delta(req[c], acl') \subseteq Delta(req[c], acl)
    <3>1. req[c] \in Requests /\ acl \in Acls
      BY DEF Inv, TypeOK
    <3> QED
      BY <2>2, <3>1, DeltaShrinks
  <2> QED
    BY <2>1, <2>2, ClientWrites
<1> QED
  BY <1>1, AclInvariant, PTL

----------------------------------------------------------------------------
(* How long a run may take.                                                *)

\* The steps that are left of a run at most: a round over the four
\* categories and the decision after it, three times.
RoundLeft(c) == 6 - at[c]
StepsLeft(c) ==
    CASE pc[c] = "done" -> 0
      [] pc[c] = "verify" -> RoundLeft(c)
      [] pc[c] = "set" -> 5 + RoundLeft(c)
      [] pc[c] = "read" -> 10 + RoundLeft(c)

\* A step of client c: its round goes on, it begins the next, or it ends.
LEMMA ClientShortens ==
    ASSUME TypeOK, NEW c \in Clients, Client(c) \/ Fault(c)
    PROVE  StepsLeft(c)' < StepsLeft(c)
<1>1. at[c] \in 1..5 /\ pc[c] \in {"read", "set", "verify", "done"}
      /\ RoundLeft(c) \in 1..5
  BY DEF TypeOK, RoundLeft, Categories, Past, LocalUser, LocalGroup, LdapUser, LdapGroup
<1>2. CASE pc'[c] = "done" /\ pc[c] # "done"
  <2>1. StepsLeft(c)' = 0
    BY <1>2 DEF StepsLeft
  <2>2. StepsLeft(c) \in 1..15
    BY <1>1, <1>2 DEF StepsLeft
  <2> QED
    BY <2>1, <2>2
<1>3. CASE pc'[c] = pc[c] /\ pc[c] # "done" /\ at'[c] = at[c] + 1
  <2>1. RoundLeft(c)' = RoundLeft(c) - 1
    BY <1>1, <1>3 DEF RoundLeft
  <2> QED
    BY <1>1, <1>3, <2>1 DEF StepsLeft
<1>4. CASE /\ at'[c] = 1
           /\ \/ pc[c] = "read" /\ pc'[c] = "set"
              \/ pc[c] = "set" /\ pc'[c] = "verify"
  <2>1. RoundLeft(c)' = 5
    BY <1>4 DEF RoundLeft
  <2> QED
    BY <1>1, <1>4, <2>1 DEF StepsLeft
<1>5. CASE ReadCategory(c) \/ SkipCategory(c) \/ SetCategory(c)
  BY <1>1, <1>3, <1>5 DEF ReadCategory, SkipCategory, SetCategory, In, NextCategory, TypeOK
<1>6. CASE StartWriting(c) \/ ReadBack(c)
  BY <1>1, <1>4, <1>6 DEF StartWriting, ReadBack, Through, TypeOK, LocalUser
<1>7. CASE RejectUnknown(c) \/ NothingToDo(c) \/ Verify(c)
  BY <1>1, <1>2, <1>7 DEF RejectUnknown, NothingToDo, Verify, Through, Stop, TypeOK
<1>8. CASE Fault(c)
  BY <1>1, <1>2, <1>8 DEF Fault, SetFails, ReadFails, ReadBackFails, Kill, In, Stop, TypeOK
<1> QED
  BY <1>5, <1>6, <1>7, <1>8 DEF Client

\* What anybody else does.
LEMMA OthersLeave ==
    ASSUME TypeOK, NEW c \in Clients, Client(c) \/ Fault(c) \/ Rerun(c),
           NEW d \in Clients, d # c
    PROVE  StepsLeft(d)' = StepsLeft(d)
<1>1. pc'[d] = pc[d] /\ at'[d] = at[d]
  BY DEF Client, ReadCategory, RejectUnknown, NothingToDo, StartWriting,
     SkipCategory, SetCategory, ReadBack, Verify, Fault, SetFails, ReadFails,
     ReadBackFails, Kill, Rerun, Stop, NextCategory, TypeOK
<1>2. RoundLeft(d)' = RoundLeft(d)
  BY <1>1 DEF RoundLeft
<1> QED
  BY <1>1, <1>2 DEF StepsLeft

\* A run takes at most fifteen steps, twelve of them calls: each step of the
\* client, also one that fails, uses one up, and no edit and no other client
\* gives it one more.  Only starting it anew does.
THEOREM AclWorkIsBounded ==
    Spec => /\ [](\A c \in Clients :
                    StepsLeft(c) \in 0..15 /\ (StepsLeft(c) = 0 <=> pc[c] = "done"))
            /\ [][\A c \in Clients :
                    /\ Client(c) \/ Fault(c) => StepsLeft(c)' < StepsLeft(c)
                    /\ ~ Rerun(c) => StepsLeft(c)' <= StepsLeft(c)]_vars
<1> DEFINE Bounded == \A c \in Clients :
      StepsLeft(c) \in 0..15 /\ (StepsLeft(c) = 0 <=> pc[c] = "done")
           Shorter == \A c \in Clients :
      /\ Client(c) \/ Fault(c) => StepsLeft(c)' < StepsLeft(c)
      /\ ~ Rerun(c) => StepsLeft(c)' <= StepsLeft(c)
<1>1. TypeOK => Bounded
  <2> SUFFICES ASSUME TypeOK, NEW c \in Clients
               PROVE  StepsLeft(c) \in 0..15 /\ (StepsLeft(c) = 0 <=> pc[c] = "done")
    OBVIOUS
  <2>1. pc[c] \in {"read", "set", "verify", "done"} /\ RoundLeft(c) \in 1..5
    BY DEF TypeOK, RoundLeft, Categories, Past, LocalUser, LocalGroup, LdapUser, LdapGroup
  <2> QED
    BY <2>1 DEF StepsLeft
<1>2. TypeOK /\ TypeOK' /\ [Next]_vars => [Shorter]_vars
  <2> SUFFICES ASSUME TypeOK, TypeOK', Next, NEW d \in Clients
               PROVE  /\ Client(d) \/ Fault(d) => StepsLeft(d)' < StepsLeft(d)
                      /\ ~ Rerun(d) => StepsLeft(d)' <= StepsLeft(d)
    OBVIOUS
  <2>1. StepsLeft(d) \in 0..15 /\ StepsLeft(d)' \in 0..15
    <3>1. Bounded /\ Bounded'
      BY <1>1, PTL
    <3> QED
      BY <3>1
  <2>2. Client(d) \/ Fault(d) => StepsLeft(d)' < StepsLeft(d)
    BY ClientShortens
  <2>3. CASE Edit
    <3>1. StepsLeft(d)' = StepsLeft(d)
      BY <2>3 DEF Edit, clientVars, StepsLeft, RoundLeft
    <3> QED
      BY <2>1, <2>2, <3>1
  <2>4. ASSUME NEW c \in Clients, Client(c) \/ Fault(c) \/ Rerun(c)
        PROVE  ~ Rerun(d) => StepsLeft(d)' <= StepsLeft(d)
    <3>1. CASE c = d
      BY <2>1, <2>2, <2>4, <3>1
    <3>2. CASE c # d
      BY <2>1, <2>4, <3>2, OthersLeave
    <3> QED
      BY <3>1, <3>2
  <2> QED
    BY <2>2, <2>3, <2>4 DEF Next
<1> QED
  BY <1>1, <1>2, AclTypeCorrect, PTL DEF Spec

----------------------------------------------------------------------------
(* The refinement: a replacement is a run of the abstract serial plan.     *)

serial == <<Phase, Report, Sent, Verdict>>

\* What the abstract plan sees of a client.
Viewed ==
    /\ pc[Observed] = "read" =>
          /\ Phase = "planning" /\ Verdict = "running"
          /\ Report = [s \in Steps |-> "none"]
    /\ pc[Observed] \in {"set", "verify"} =>
          /\ Phase = "executing" /\ Verdict = "running"
          /\ Report = [s \in Steps |->
                CASE report[Observed][s] = "none" -> "PLANNED"
                  [] report[Observed][s] \in {"SKIPPED", "SUCCEEDED"} -> "SUCCEEDED"
                  [] OTHER -> report[Observed][s]]
    /\ pc[Observed] = "done" =>
          /\ Phase = "ended"
          /\ exit[Observed] = 60 =>
                /\ Verdict = "broken"
                /\ Report = [s \in Steps |->
                      CASE report[Observed][s] = "none" -> "SKIPPED"
                        [] report[Observed][s] \in {"SKIPPED", "SUCCEEDED"} -> "SUCCEEDED"
                        [] OTHER -> report[Observed][s]]
          /\ exit[Observed] \notin {0, 60} =>
                /\ Verdict = IF exit[Observed] = Killed THEN "killed" ELSE "refused"
                /\ Report = [s \in Steps |-> "none"]
          /\ exit[Observed] = 0 =>
                /\ Verdict = "done"
                /\ report[Observed][VerifyStep] # "SUCCEEDED" =>
                      Report = [s \in Steps |-> "none"]
                /\ report[Observed][VerifyStep] = "SUCCEEDED" =>
                      Report = [s \in Steps |->
                         CASE report[Observed][s] = "none" -> "SKIPPED"
                           [] report[Observed][s] \in {"SKIPPED", "SUCCEEDED"} -> "SUCCEEDED"
                           [] OTHER -> report[Observed][s]]

LEMMA ViewAt == Viewed
  BY DEF Viewed, Phase, Verdict, Report, StatusOf, Planned, Failed, Succeeded, Killed

LEMMA ViewAfter == Viewed'
  BY ViewAt, PTL

LEMMA InitSerial == Init => Serial!Init
<1> SUFFICES ASSUME Init PROVE Serial!Init
  OBVIOUS
<1>1. pc[Observed] = "read" /\ wrote[Observed] = {}
  BY ObservedAssumption DEF Init
<1> QED
  BY <1>1, ViewAt DEF Viewed, Serial!Init, Sent

\* What does not touch the client does not show.
LEMMA UnseenSerial ==
    ASSUME pc'[Observed] = pc[Observed], report'[Observed] = report[Observed],
           exit'[Observed] = exit[Observed], wrote'[Observed] = wrote[Observed]
    PROVE  UNCHANGED serial
  BY DEF serial, Phase, Verdict, Report, StatusOf, Planned, Failed, Succeeded, Sent

\* While categories are set the one the client has reached is the first that
\* is pending; while it reads back only the read-back is.
LEMMA FirstPending ==
    ASSUME Inv
    PROVE  /\ pc[Observed] = "set" /\ at[Observed] # Past =>
                Serial!First(at[Observed])
           /\ pc[Observed] = "verify" =>
                Serial!First(VerifyStep) /\ Serial!Pending = {VerifyStep}
<1>1. /\ Steps = {1, 2, 3, 4, 5} /\ Categories = {1, 2, 3, 4}
      /\ VerifyStep = 5 /\ Past = 5 /\ at[Observed] \in {1, 2, 3, 4, 5}
  BY ObservedAssumption DEF Steps, Categories, VerifyStep, Past, LocalUser, LocalGroup,
     LdapUser, LdapGroup, Inv, TypeOK
<1>2. ClientInv(Observed)
  BY ObservedAssumption DEF Inv
<1>3. ASSUME pc[Observed] = "set", at[Observed] # Past
      PROVE  Serial!First(at[Observed])
  <2>1. \A k \in Categories :
            report[Observed][k] \in IF k < at[Observed] THEN {"SKIPPED", "SUCCEEDED"}
                                    ELSE {"none"}
    BY <1>2, <1>3 DEF ClientInv, WritingInv, Handled, Untried
  <2>2. report[Observed][VerifyStep] = "none"
    BY <1>2, <1>3 DEF ClientInv, WritingInv
  <2>3. Serial!Pending = {s \in Steps : s >= at[Observed]}
    BY <1>1, <1>3, <2>1, <2>2, ViewAt DEF Viewed, Serial!Pending
  <2> QED
    BY <1>1, <1>3, <2>3 DEF Serial!First
<1>4. ASSUME pc[Observed] = "verify"
      PROVE  Serial!First(VerifyStep) /\ Serial!Pending = {VerifyStep}
  <2>1. /\ \A k \in Categories : report[Observed][k] \in {"SKIPPED", "SUCCEEDED"}
        /\ report[Observed][VerifyStep] = "none"
    BY <1>2, <1>4 DEF ClientInv, VerifyingInv, Handled
  <2>2. Serial!Pending = {VerifyStep}
    BY <1>1, <1>4, <2>1, ViewAt DEF Viewed, Serial!Pending
  <2> QED
    BY <1>1, <2>2 DEF Serial!First
<1> QED
  BY <1>3, <1>4

\* A call to a category sends it and no other.
LEMMA SentGrows ==
    ASSUME Inv, NEW done \in SUBSET Due(Observed), Written(Observed, done)
    PROVE  /\ Sent' = Sent \/ Sent' = Sent \cup {at[Observed]}
           /\ done # {} => Sent' = Sent \cup {at[Observed]}
<1>1. wrote'[Observed] = wrote[Observed] \cup done
  BY ObservedAssumption DEF Inv, TypeOK, Written
<1>2. \A i \in done : Category[i] = at[Observed]
  BY DEF Due
<1>3. CASE done = {}
  BY <1>1, <1>3 DEF Sent
<1>4. CASE done # {}
  BY <1>1, <1>2, <1>4 DEF Sent
<1> QED
  BY <1>3, <1>4

LEMMA ReadsSerial ==
    ASSUME Inv,
           \/ ReadCategory(Observed) \/ RejectUnknown(Observed)
           \/ NothingToDo(Observed) \/ StartWriting(Observed)
           \/ ReadBack(Observed) \/ ReadFails(Observed)
    PROVE  Serial!Next \/ UNCHANGED serial
<1>1. TypeOK /\ Observed \in Clients /\ ClientInv(Observed)
  BY ObservedAssumption DEF Inv
<1>2. Sent' = Sent
  BY DEF Sent, ReadCategory, RejectUnknown, NothingToDo, StartWriting, ReadBack,
         ReadFails, ghosts
<1>3. ASSUME pc[Observed] = "read"
      PROVE  report[Observed][VerifyStep] = "none"
  BY <1>1, <1>3 DEF ClientInv, ReadingInv, Categories
<1>4. CASE ReadCategory(Observed)
  BY <1>1, <1>4, UnseenSerial DEF ReadCategory, ghosts
<1>5. CASE RejectUnknown(Observed) \/ ReadFails(Observed)
  <2>1. /\ pc[Observed] = "read" /\ pc'[Observed] = "done"
        /\ exit'[Observed] \in {20, 30, 40, 41}
    BY <1>1, <1>5 DEF RejectUnknown, ReadFails, Stop, In, Through, TypeOK
  <2>2. Serial!Refuse
    BY <1>2, <2>1, ViewAt, ViewAfter
    DEF Viewed, Serial!Refuse, Serial!End, Killed
  <2> QED
    BY <2>2 DEF Serial!Next
<1>6. CASE NothingToDo(Observed)
  <2>1. /\ pc[Observed] = "read" /\ pc'[Observed] = "done" /\ exit'[Observed] = 0
        /\ report'[Observed][VerifyStep] = "none"
    BY <1>1, <1>6
    DEF NothingToDo, Stop, Through, TypeOK, Steps, VerifyStep, Categories, LocalUser,
        LocalGroup, LdapUser, LdapGroup
  <2>2. Serial!Propose
    BY <1>2, <2>1, ViewAt, ViewAfter DEF Viewed, Serial!Propose, Serial!End
  <2> QED
    BY <2>2 DEF Serial!Next
<1>7. CASE StartWriting(Observed)
  <2>1. pc[Observed] = "read" /\ pc'[Observed] = "set" /\ report' = report
    BY <1>1, <1>7 DEF StartWriting, Through, TypeOK
  <2>2. \A s \in Steps : report[Observed][s] = "none"
    BY <1>1, <2>1 DEF ClientInv, ReadingInv, Untried, Steps, Categories
  <2>3. Report' = [s \in Steps |-> "PLANNED"]
    BY <2>1, <2>2, ViewAfter DEF Viewed
  <2>4. Serial!Propose
    BY <1>2, <2>1, <2>3, ViewAt, ViewAfter DEF Viewed, Serial!Propose
  <2> QED
    BY <2>4 DEF Serial!Next
<1>8. CASE ReadBack(Observed)
  <2>1. /\ pc[Observed] = "set" /\ pc'[Observed] = "verify"
        /\ UNCHANGED <<report, exit>>
    BY <1>1, <1>8 DEF ReadBack, Through, TypeOK
  <2> QED
    BY <1>2, <2>1, ViewAt, ViewAfter DEF Viewed, serial
<1> QED
  BY <1>4, <1>5, <1>6, <1>7, <1>8

\* A category that is set or needs nothing is completed; one whose call
\* fails breaks the plan.
LEMMA CategorySerial ==
    ASSUME Inv,
           SkipCategory(Observed) \/ SetCategory(Observed) \/ SetFails(Observed)
    PROVE  Serial!Next
<1> DEFINE k == at[Observed]
<1>1. TypeOK /\ Observed \in Clients /\ report \in [Clients -> [Steps -> Statuses]]
  BY ObservedAssumption DEF Inv, TypeOK
<1>2. pc[Observed] = "set" /\ k \in Categories /\ k \in Steps
  BY <1>1 DEF SkipCategory, SetCategory, SetFails, In, TypeOK, Categories, Past, Steps
<1>3. Serial!First(k)
  BY <1>1, <1>2, FirstPending DEF SkipCategory, SetCategory, SetFails, In
<1>4. Serial!MaySend(k)
  <2>1. CASE SkipCategory(Observed)
    BY <2>1 DEF SkipCategory, ghosts, Serial!MaySend, Sent
  <2>2. CASE SetCategory(Observed) \/ SetFails(Observed)
    BY <2>2, SentGrows DEF SetCategory, SetFails, Serial!MaySend
  <2> QED
    BY <2>1, <2>2
<1>5. CASE SkipCategory(Observed) \/ SetCategory(Observed)
  <2>1. /\ pc'[Observed] = "set"
        /\ report'[Observed][k] \in {"SKIPPED", "SUCCEEDED"}
        /\ \A s \in Steps \ {k} : report'[Observed][s] = report[Observed][s]
    BY <1>1, <1>2, <1>5 DEF SkipCategory, SetCategory, Step
  <2>2. Report' = [Report EXCEPT ![k] = "SUCCEEDED"]
    <3>1. \A s \in Steps : Report'[s] = IF s = k THEN "SUCCEEDED" ELSE Report[s]
      BY <1>2, <2>1, ViewAt, ViewAfter DEF Viewed
    <3> QED
      BY <1>2, <2>1, <3>1, ViewAt, ViewAfter DEF Viewed
  <2>3. Serial!Complete(k)
    BY <1>2, <1>3, <1>4, <2>1, <2>2, ViewAt, ViewAfter DEF Viewed, Serial!Complete
  <2> QED
    BY <1>2, <2>3 DEF Serial!Next, Serial!Run
<1>6. CASE SetFails(Observed)
  <2>1. PICK how \in {"FAILED", "UNKNOWN"} : Step(Observed, k, how)
    BY <1>6 DEF SetFails
  <2>2. /\ pc'[Observed] = "done" /\ exit'[Observed] = 60
        /\ report'[Observed][k] = how
        /\ \A s \in Steps \ {k} : report'[Observed][s] = report[Observed][s]
    BY <1>1, <1>2, <1>6, <2>1 DEF SetFails, Step, Stop, TypeOK
  <2>3. \A s \in Steps : report[Observed][s] \in {"none", "SKIPPED", "SUCCEEDED"}
    BY <1>1, <1>2
    DEF Inv, ClientInv, WritingInv, Handled, Untried, Steps, Categories
  <2>4. Report' = [s \in Steps |->
            IF s = k THEN how
            ELSE IF Report[s] = "PLANNED" THEN "SKIPPED" ELSE Report[s]]
    <3>1. \A s \in Steps : Report'[s] =
              IF s = k THEN how
              ELSE IF Report[s] = "PLANNED" THEN "SKIPPED" ELSE Report[s]
      BY <1>2, <2>1, <2>2, <2>3, ViewAt, ViewAfter DEF Viewed
    <3> QED
      BY <1>2, <2>2, <3>1, ViewAt, ViewAfter DEF Viewed
  <2>5. Serial!Break(k, how)
    BY <1>2, <1>3, <1>4, <2>2, <2>4, ViewAt, ViewAfter
    DEF Viewed, Serial!Break, Serial!End
  <2> QED
    BY <1>2, <2>1, <2>5 DEF Serial!Next, Serial!Run
<1> QED
  BY <1>5, <1>6

\* The read-back is the last operation, with which the run ends.
LEMMA VerifySerial ==
    ASSUME Inv, Verify(Observed) \/ ReadBackFails(Observed)
    PROVE  Serial!Next
<1>1. TypeOK /\ Observed \in Clients /\ report \in [Clients -> [Steps -> Statuses]]
  BY ObservedAssumption DEF Inv, TypeOK
<1>2. /\ pc[Observed] = "verify" /\ pc'[Observed] = "done"
      /\ VerifyStep \in Steps /\ Sent' = Sent
  BY <1>1 DEF Verify, ReadBackFails, In, Through, Stop, TypeOK, Steps, ghosts, Sent
<1>3. Serial!First(VerifyStep) /\ Serial!Pending = {VerifyStep}
  BY <1>2, FirstPending
<1>4. \A s \in Steps : report[Observed][s] \in {"none", "SKIPPED", "SUCCEEDED"}
                       /\ (s # VerifyStep => report[Observed][s] # "none")
  BY <1>1, <1>2 DEF Inv, ClientInv, VerifyingInv, Handled, Steps, Categories
<1>5. PICK how \in {"SUCCEEDED", "FAILED", "UNKNOWN"} :
          /\ Step(Observed, VerifyStep, how)
          /\ exit'[Observed] = IF how = "SUCCEEDED" THEN 0 ELSE 60
  BY <1>1 DEF Verify, ReadBackFails, Stop, TypeOK
<1>6. /\ report'[Observed][VerifyStep] = how
      /\ \A s \in Steps \ {VerifyStep} : report'[Observed][s] = report[Observed][s]
  BY <1>1, <1>2, <1>5 DEF Step
<1>7. CASE how = "SUCCEEDED"
  <2>1. \A s \in Steps :
            Report'[s] = IF s = VerifyStep THEN "SUCCEEDED" ELSE Report[s]
    BY <1>2, <1>4, <1>5, <1>6, <1>7, ViewAt, ViewAfter DEF Viewed
  <2>2. Report' = [Report EXCEPT ![VerifyStep] = "SUCCEEDED"]
    BY <1>2, <1>5, <1>6, <1>7, <2>1, ViewAt, ViewAfter DEF Viewed
  <2>3. Serial!Complete(VerifyStep)
    BY <1>2, <1>3, <1>5, <1>7, <2>2, ViewAt, ViewAfter
    DEF Viewed, Serial!Complete, Serial!MaySend, Serial!End
  <2> QED
    BY <1>2, <2>3 DEF Serial!Next, Serial!Run
<1>8. CASE how # "SUCCEEDED"
  <2>1. \A s \in Steps : Report'[s] =
            IF s = VerifyStep THEN how
            ELSE IF Report[s] = "PLANNED" THEN "SKIPPED" ELSE Report[s]
    BY <1>2, <1>4, <1>5, <1>6, <1>8, ViewAt, ViewAfter DEF Viewed
  <2>2. Report' = [s \in Steps |->
            IF s = VerifyStep THEN how
            ELSE IF Report[s] = "PLANNED" THEN "SKIPPED" ELSE Report[s]]
    BY <1>2, <1>5, <1>8, <2>1, ViewAfter DEF Viewed
  <2>3. Serial!Break(VerifyStep, how)
    BY <1>2, <1>3, <1>5, <1>8, <2>2, ViewAt, ViewAfter
    DEF Viewed, Serial!Break, Serial!MaySend, Serial!End
  <2> QED
    BY <1>2, <1>5, <1>8, <2>3 DEF Serial!Next, Serial!Run
<1> QED
  BY <1>7, <1>8

LEMMA KillSerial ==
    ASSUME Inv, Kill(Observed)
    PROVE  Serial!Next
<1>1. TypeOK /\ Observed \in Clients
  BY ObservedAssumption DEF Inv
<1>2. /\ pc[Observed] \in {"read", "set", "verify"}
      /\ pc'[Observed] = "done" /\ exit'[Observed] = Killed
  BY <1>1 DEF Kill, Stop, TypeOK
<1>3. \/ Sent' = Sent
      \/ /\ pc[Observed] = "set" /\ at[Observed] # Past
         /\ Sent' = Sent \cup {at[Observed]}
  <2>1. CASE UNCHANGED wrote
    BY <2>1 DEF Sent
  <2>2. CASE In(Observed, "set") /\ \E done \in SUBSET Due(Observed) : Written(Observed, done)
    BY <2>2, SentGrows DEF In
  <2> QED
    BY <2>1, <2>2 DEF Kill
<1>4. Serial!Die
  <2>1. /\ Phase # "ended" /\ Phase' = "ended" /\ Verdict' = "killed"
        /\ Report' = [s \in Steps |-> "none"]
    BY <1>2, ViewAt, ViewAfter DEF Viewed, Killed
  <2>2. CASE Sent' = Sent
    BY <2>1, <2>2 DEF Serial!Die, Serial!End
  <2>3. CASE Sent' # Sent
    <3>1. /\ Phase = "executing" /\ at[Observed] \in Steps
          /\ Serial!First(at[Observed]) /\ Serial!MaySend(at[Observed])
      BY <1>1, <1>3, <2>3, FirstPending, ViewAt
      DEF Viewed, Serial!MaySend, TypeOK, Steps, Past
    <3> QED
      BY <2>1, <3>1 DEF Serial!Die, Serial!End
  <2> QED
    BY <2>2, <2>3
<1> QED
  BY <1>4 DEF Serial!Next

LEMMA RerunSerial ==
    ASSUME Inv, Rerun(Observed)
    PROVE  Serial!Next
<1>1. /\ pc[Observed] = "done" /\ pc'[Observed] = "read" /\ Sent' = {}
  BY ObservedAssumption DEF Rerun, Inv, TypeOK, Sent
<1>2. Serial!Again
  BY <1>1, ViewAt, ViewAfter DEF Viewed, Serial!Again
<1> QED
  BY <1>2 DEF Serial!Next

\* A step of another client, or of somebody else.
LEMMA OthersSerial ==
    ASSUME Inv,
           \/ Edit \/ UNCHANGED vars
           \/ \E c \in Clients \ {Observed} : Client(c) \/ Fault(c) \/ Rerun(c)
    PROVE  UNCHANGED serial
<1>1. TypeOK /\ Observed \in Clients
  BY ObservedAssumption DEF Inv
<1>2. CASE Edit \/ UNCHANGED vars
  BY <1>2, UnseenSerial DEF Edit, vars, clientVars, ghosts
<1>3. CASE \E c \in Clients \ {Observed} : Client(c) \/ Fault(c) \/ Rerun(c)
  <2>1. PICK c \in Clients \ {Observed} : Client(c) \/ Fault(c) \/ Rerun(c)
    BY <1>3
  <2>2. /\ pc'[Observed] = pc[Observed] /\ report'[Observed] = report[Observed]
        /\ exit'[Observed] = exit[Observed] /\ wrote'[Observed] = wrote[Observed]
    <3> USE <1>1, <2>1 DEF TypeOK, Stop, Step, ghosts
    <3>1. CASE ReadCategory(c) \/ RejectUnknown(c) \/ NothingToDo(c) \/ StartWriting(c)
      BY <3>1 DEF ReadCategory, RejectUnknown, NothingToDo, StartWriting
    <3>2. CASE SkipCategory(c) \/ SetCategory(c) \/ ReadBack(c) \/ Verify(c)
      BY <3>2 DEF SkipCategory, SetCategory, ReadBack, Verify, Written
    <3>3. CASE SetFails(c) \/ ReadFails(c) \/ ReadBackFails(c) \/ Kill(c)
      BY <3>3 DEF SetFails, ReadFails, ReadBackFails, Kill, Written
    <3>4. CASE Rerun(c)
      BY <3>4 DEF Rerun
    <3> QED
      BY <3>1, <3>2, <3>3, <3>4 DEF Client, Fault
  <2> QED
    BY <2>2, UnseenSerial
<1> QED
  BY <1>2, <1>3

\* Whatever other clients and other people do to the folder, and wherever it
\* fails or is killed, the replacement of permissions by any one client is a
\* run of the abstract serial plan: category after category, nothing sent
\* for one before the one before is done, nothing after a failure.
THEOREM AclSerialRefinement == Spec => ReplacesSerially
<1>1. Inv /\ [Next]_vars => [Serial!Next]_serial
  <2> SUFFICES ASSUME Inv, [Next]_vars
               PROVE  Serial!Next \/ UNCHANGED serial
    BY DEF serial
  <2>1. CASE Edit \/ UNCHANGED vars
    BY <2>1, OthersSerial
  <2>2. ASSUME NEW c \in Clients, Client(c) \/ Fault(c) \/ Rerun(c)
        PROVE  Serial!Next \/ UNCHANGED serial
    <3>1. CASE c = Observed
      BY <2>2, <3>1, ReadsSerial, CategorySerial, VerifySerial, KillSerial, RerunSerial
      DEF Client, Fault
    <3>2. CASE c # Observed
      BY <2>2, <3>2, OthersSerial
    <3> QED
      BY <3>1, <3>2
  <2> QED
    BY <2>1, <2>2 DEF Next
<1> QED
  BY <1>1, InitSerial, AclInvariant, PTL
  DEF Spec, ReplacesSerially, Serial!Spec, Serial!serialVars, serial
=============================================================================
