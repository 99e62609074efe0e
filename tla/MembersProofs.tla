--------------------------- MODULE MembersProofs ---------------------------
(***************************************************************************)
(* Theorems of Members, for any number of users and of requests at work.   *)
(*                                                                         *)
(* The argument: at most one request is between the lock and its commit    *)
(* (OneHolder), and its copy of the member is the row, or says that the    *)
(* member is an administrator (CopyKnown); so an update that takes an      *)
(* administrator away is recognised as one, and the administrator it       *)
(* counted besides the member is still there when it commits               *)
(* (AnotherRemains).                                                       *)
(***************************************************************************)
EXTENDS Members, FiniteSetTheorems, TLAPS

OneHolder ==
    \A q, r \in Requests : pc[q] \in Holding /\ pc[r] \in Holding => q = r

\* An actor's own row is known from its authentication.
CopyKnown ==
    \A q \in Requests :
       /\ pc[q] = "CHECKED" => copy[q] = Administrator
       /\ pc[q] \in Holding => copy[q] \in {row[req[q].target], Administrator}

AnotherRemains ==
    \A q \in Requests :
       pc[q] = "COUNTED" /\ Withdraws(copy[q], req[q].want)
       => \E v \in Users : v # req[q].target /\ row[v] = Administrator

Guarded == OneHolder /\ CopyKnown /\ AnotherRemains /\ AdministratorRemains

-----------------------------------------------------------------------------
\* Writing any part of a wanted row gives a row.
LEMMA WrittenIsRow ==
    ASSUME NEW now \in Rows, NEW known \in Rows, NEW want \in Wanted
    PROVE  Written(now, known, want) \in Rows
BY DEF Written, Rows, Wanted, Roles

\* Asking for an administrator never takes one away.
LEMMA AppointmentKeeps ==
    ASSUME NEW known \in Rows
    PROVE  Written(Administrator, known, Administrator) = Administrator
BY DEF Written, Administrator, Rows

\* A count above one finds an administrator besides any member.
LEMMA CountFindsAnother ==
    ASSUME NEW u \in Users, Cardinality(Admins) > 1
    PROVE  \E v \in Users : v # u /\ row[v] = Administrator
<1>1. IsFiniteSet(Admins)
  BY UsersFinite, FS_Subset DEF Admins
<1>2. SUFFICES ASSUME \A v \in Users : row[v] = Administrator => v = u PROVE FALSE
  OBVIOUS
<1>3. Admins \in SUBSET {u}
  BY <1>2 DEF Admins
<1>4. IsFiniteSet({u}) /\ Cardinality({u}) = 1
  BY FS_Singleton
<1>5. Cardinality(Admins) <= 1 /\ Cardinality(Admins) \in Nat
  BY <1>1, <1>3, <1>4, FS_Subset, FS_CardinalityType
<1>6. QED
  BY <1>5

\* Every step keeps rows, trail, requests and the tool in their types.
LEMMA MembersStepType ==
    ASSUME TypeOK, [Next]_vars
    PROVE  TypeOK'
<1> USE DEF TypeOK
<1>1. ASSUME NEW q \in Requests, NEW a \in Users, NEW u \in Users,
             NEW want \in Wanted, Authenticate(q, a, u, want)
      PROVE  TypeOK'
  <2>1. [actor |-> a, target |-> u, want |-> want] \in Updates
    BY DEF Updates
  <2>2. row[a] \in Rows /\ row[a].role # "none"
    <3>1. Administrator.role # "none"
      BY DEF Administrator
    <3>2. row[a] = Administrator /\ row[a] \in Rows
      BY <1>1 DEF Authenticate
    <3>3. QED
      BY <3>1, <3>2
  <2>3. req' \in [Requests -> {NoRun} \cup Updates] /\ req'[q] \in Updates
    BY <1>1, <2>1 DEF Authenticate
  <2>4. copy' \in [Requests -> Rows] /\ copy'[q].role # "none"
    BY <1>1, <2>2 DEF Authenticate
  <2>5. QED
    BY <1>1, <2>3, <2>4 DEF Authenticate
<1>2. ASSUME NEW q \in Requests, Hold(q) PROVE TypeOK'
  <2>1. req[q] \in Updates
    BY <1>2 DEF Hold
  <2>2. row[req[q].target] \in Rows /\ row[req[q].target].role # "none"
    BY <1>2, <2>1 DEF Hold, Exists, Updates
  <2>3. copy' \in [Requests -> Rows]
    BY <1>2, <2>2 DEF Hold
  <2>4. copy'[q].role # "none"
    BY <1>2, <2>2 DEF Hold
  <2>5. QED
    BY <1>2, <2>3, <2>4 DEF Hold
<1>3. ASSUME NEW q \in Requests, Count(q) PROVE TypeOK'
  BY <1>3 DEF Count
<1>4. ASSUME NEW q \in Requests, Commit(q) PROVE TypeOK'
  BY <1>4, WrittenIsRow DEF Commit, Forget, Missing, Updates, Wanted, Rows, Roles
<1>5. ASSUME NEW q \in Requests, Rollback(q) PROVE TypeOK'
  BY <1>5 DEF Rollback, Forget, Missing, Rows, Roles
<1>6. ASSUME NEW u \in Users, NEW role \in CliRoles, CliLoad(u, role) PROVE TypeOK'
  BY <1>6 DEF CliLoad
<1>7. CASE CliWrite
  BY <1>7, WrittenIsRow, ToolRoles DEF CliWrite, Wanted, Rows
<1>8. CASE UNCHANGED vars
  BY <1>8 DEF vars
<1>9. QED
  BY <1>1, <1>2, <1>3, <1>4, <1>5, <1>6, <1>7, <1>8
     DEF Next, Provision, UpdateMember

-----------------------------------------------------------------------------
\* Only the holder of the lock counts and commits.
LEMMA HoldersStep ==
    ASSUME TypeOK, OneHolder, [Next]_vars
    PROVE  OneHolder'
<1> USE DEF TypeOK, OneHolder, Holding
<1>1. ASSUME NEW q \in Requests, UpdateMember(q) PROVE OneHolder'
  BY <1>1 DEF UpdateMember, Authenticate, Hold, LockFree, Count, Commit, Rollback, Forget
<1>2. CASE Provision
  BY <1>2 DEF Provision, CliLoad, CliWrite
<1>3. CASE UNCHANGED vars
  BY <1>3 DEF vars
<1>4. QED
  BY <1>1, <1>2, <1>3 DEF Next

\* The copies stay the rows, since the tool waits for a held row.
LEMMA CopyStep ==
    ASSUME TypeOK, OneHolder, CopyKnown, [Next]_vars
    PROVE  CopyKnown'
<1> USE DEF TypeOK, CopyKnown, Holding
<1>1. ASSUME NEW q \in Requests, NEW a \in Users, NEW u \in Users,
             NEW want \in Wanted, Authenticate(q, a, u, want)
      PROVE  CopyKnown'
  BY <1>1 DEF Authenticate
<1>2. ASSUME NEW q \in Requests, Hold(q) PROVE CopyKnown'
  BY <1>2 DEF Hold
<1>3. ASSUME NEW q \in Requests, Count(q) PROVE CopyKnown'
  BY <1>3 DEF Count
<1>4. ASSUME NEW q \in Requests, Commit(q) PROVE CopyKnown'
  <2>1. \A r \in Requests : r # q => pc[r] \notin Holding
    BY <1>4 DEF Commit, OneHolder
  <2>2. QED
    BY <1>4, <2>1 DEF Commit, Forget
<1>5. ASSUME NEW q \in Requests, Rollback(q) PROVE CopyKnown'
  BY <1>5 DEF Rollback, Forget
<1>6. ASSUME NEW u \in Users, NEW role \in CliRoles, CliLoad(u, role) PROVE CopyKnown'
  BY <1>6 DEF CliLoad
<1>7. CASE CliWrite
  <2>1. \A r \in Requests : pc[r] \in Holding => row'[req[r].target] = row[req[r].target]
    BY <1>7 DEF CliWrite, RowLocked, Updates
  <2>2. QED
    BY <1>7, <2>1 DEF CliWrite
<1>8. CASE UNCHANGED vars
  BY <1>8 DEF vars
<1>9. QED
  BY <1>1, <1>2, <1>3, <1>4, <1>5, <1>6, <1>7, <1>8
     DEF Next, Provision, UpdateMember

\* The tool, appointing administrators only, takes none away.
LEMMA ToolKeepsAdministrators ==
    ASSUME CliRoles \subseteq {"admin"}, TypeOK, CliWrite,
           NEW v \in Users, row[v] = Administrator
    PROVE  row'[v] = Administrator
<1>1. cli.copy \in Rows /\ cli.role = "admin" /\ cli.user \in Users
  BY DEF CliWrite, TypeOK
<1>2. [role |-> cli.role, active |-> TRUE] = Administrator
  BY <1>1 DEF Administrator
<1>3. CASE v = cli.user
  BY <1>1, <1>2, <1>3, AppointmentKeeps DEF CliWrite, TypeOK
<1>4. CASE v # cli.user
  BY <1>4 DEF CliWrite, TypeOK
<1>5. QED
  BY <1>3, <1>4

\* What a commit leaves: the member still an administrator, or another one.
LEMMA CommitLeavesAdministrator ==
    ASSUME TypeOK, Guarded, NEW q \in Requests, Commit(q)
    PROVE  AdministratorRemains'
<1> DEFINE u == req[q].target
<1>1. u \in Users /\ req[q].want \in Wanted /\ copy[q] \in Rows
  BY DEF Commit, TypeOK, Updates
<1>2. \A v \in Users : v # u => row'[v] = row[v]
  BY DEF Commit, TypeOK
<1>3. row'[u] = Written(row[u], copy[q], req[q].want)
  BY <1>1 DEF Commit, TypeOK
<1>4. PICK v \in Users : row[v] = Administrator
  BY DEF Guarded, AdministratorRemains, Admins
<1>5. \E x \in Users : row'[x] = Administrator
  <2>1. CASE v # u
    BY <1>2, <1>4, <2>1
  <2>2. CASE v = u /\ req[q].want = Administrator
    BY <1>1, <1>3, <1>4, <2>2, AppointmentKeeps
  <2>3. CASE v = u /\ req[q].want # Administrator
    <3>1. copy[q] = Administrator
      BY <1>4, <2>3 DEF Guarded, CopyKnown, Commit, Holding
    <3>2. PICK x \in Users : x # u /\ row[x] = Administrator
      BY <2>3, <3>1 DEF Guarded, AnotherRemains, Withdraws, Commit
    <3>3. QED
      BY <1>2, <3>2
  <2>4. QED
    BY <2>1, <2>2, <2>3
<1>6. QED
  BY <1>5 DEF AdministratorRemains, Admins

\* The administrator counted besides the member stays one until the commit.
LEMMA AnotherStep ==
    ASSUME CliRoles \subseteq {"admin"}, TypeOK, Guarded, [Next]_vars
    PROVE  AnotherRemains'
<1> USE DEF TypeOK, AnotherRemains
<1>1. ASSUME NEW q \in Requests, NEW a \in Users, NEW u \in Users,
             NEW want \in Wanted, Authenticate(q, a, u, want)
      PROVE  AnotherRemains'
  BY <1>1 DEF Authenticate, Guarded
<1>2. ASSUME NEW q \in Requests, Hold(q) PROVE AnotherRemains'
  BY <1>2 DEF Hold, Guarded
<1>3. ASSUME NEW q \in Requests, Count(q) PROVE AnotherRemains'
  <2>1. req[q].target \in Users
    BY <1>3 DEF Count, Updates
  <2>2. Withdraws(copy[q], req[q].want)
        => \E v \in Users : v # req[q].target /\ row[v] = Administrator
    BY <1>3, <2>1, CountFindsAnother DEF Count
  <2>3. QED
    BY <1>3, <2>2 DEF Count, Guarded
<1>4. ASSUME NEW q \in Requests, Commit(q) PROVE AnotherRemains'
  <2>1. \A r \in Requests : r # q => pc[r] # "COUNTED"
    BY <1>4 DEF Commit, Guarded, OneHolder, Holding
  <2>2. QED
    BY <1>4, <2>1 DEF Commit, Forget
<1>5. ASSUME NEW q \in Requests, Rollback(q) PROVE AnotherRemains'
  BY <1>5 DEF Rollback, Forget, Guarded
<1>6. ASSUME NEW u \in Users, NEW role \in CliRoles, CliLoad(u, role)
      PROVE  AnotherRemains'
  BY <1>6 DEF CliLoad, Guarded
<1>7. CASE CliWrite
  BY <1>7, ToolKeepsAdministrators DEF CliWrite, Guarded
<1>8. CASE UNCHANGED vars
  BY <1>8 DEF vars, Guarded
<1>9. QED
  BY <1>1, <1>2, <1>3, <1>4, <1>5, <1>6, <1>7, <1>8
     DEF Next, Provision, UpdateMember

\* No step takes the last administrator away.
LEMMA AdministratorStep ==
    ASSUME CliRoles \subseteq {"admin"}, TypeOK, Guarded, [Next]_vars
    PROVE  AdministratorRemains'
<1>1. ASSUME UNCHANGED row PROVE AdministratorRemains'
  BY <1>1 DEF Guarded, AdministratorRemains, Admins
<1>2. CASE CliWrite
  BY <1>2, ToolKeepsAdministrators DEF Guarded, AdministratorRemains, Admins
<1>3. ASSUME NEW q \in Requests, Commit(q) PROVE AdministratorRemains'
  BY <1>3, CommitLeavesAdministrator
<1>4. QED
  BY <1>1, <1>2, <1>3
     DEF Next, Provision, UpdateMember, Authenticate, Hold, Count, Rollback, CliLoad, vars

-----------------------------------------------------------------------------
\* Rows, trail, requests and the tool keep their types, and no request works
\* on a member that does not exist (the 404 of require).
THEOREM MembersTypeCorrect == Spec => []TypeOK
<1>1. Init => TypeOK
  <2>1. {Administrator, [role |-> "officer", active |-> TRUE], Missing} \subseteq Rows
    BY DEF Rows, Roles, Administrator, Missing
  <2>2. Init => row \in [Users -> Rows] /\ copy \in [Requests -> Rows]
    BY <2>1 DEF Init
  <2>3. QED
    BY <2>2 DEF Init, TypeOK
<1>2. TypeOK /\ [Next]_vars => TypeOK'
  BY MembersStepType
<1>3. QED
  BY <1>1, <1>2, PTL DEF Spec

\* "Keep at least one active administrator": however the updates of any number
\* of administrators interleave with each other and with the tool appointing
\* administrators, one remains.
THEOREM AnAdministratorRemains ==
    ASSUME CliRoles \subseteq {"admin"}
    PROVE  Spec => []AdministratorRemains
<1>1. Init => Guarded
  BY DEF Init, Guarded, OneHolder, CopyKnown, AnotherRemains,
         AdministratorRemains, Admins, Holding
<1>2. TypeOK /\ Guarded /\ [Next]_vars => Guarded'
  BY HoldersStep, CopyStep, AnotherStep, AdministratorStep DEF Guarded
<1>3. Guarded => AdministratorRemains
  BY DEF Guarded
<1>4. QED
  BY <1>1, <1>2, <1>3, MembersTypeCorrect, PTL DEF Spec

-----------------------------------------------------------------------------
(* The audit trail of the updates of others.                               *)

\* A request that updates somebody else has read the row under its lock.
CopyExact ==
    \A q \in Requests :
       pc[q] \in Holding /\ req[q].actor # req[q].target => copy[q] = row[req[q].target]

\* Writing what differs from the row itself leaves what was wanted.
LEMMA WrittenIsWanted ==
    ASSUME NEW now \in Rows, NEW want \in Wanted
    PROVE  Written(now, now, want) = want
BY DEF Written, Rows, Wanted

\* Until the commit nobody writes the row: not another request, which waits for
\* the advisory lock, and not the tool, which waits for the row.
LEMMA ExactStep ==
    ASSUME TypeOK, OneHolder, CopyExact, [Next]_vars
    PROVE  CopyExact'
<1> USE DEF TypeOK, CopyExact, Holding
<1>1. ASSUME NEW q \in Requests, NEW a \in Users, NEW u \in Users,
             NEW want \in Wanted, Authenticate(q, a, u, want)
      PROVE  CopyExact'
  BY <1>1 DEF Authenticate
<1>2. ASSUME NEW q \in Requests, Hold(q) PROVE CopyExact'
  BY <1>2 DEF Hold
<1>3. ASSUME NEW q \in Requests, Count(q) PROVE CopyExact'
  BY <1>3 DEF Count
<1>4. ASSUME NEW q \in Requests, Commit(q) PROVE CopyExact'
  <2>1. \A r \in Requests : r # q => pc[r] \notin Holding
    BY <1>4 DEF Commit, OneHolder
  <2>2. QED
    BY <1>4, <2>1 DEF Commit, Forget
<1>5. ASSUME NEW q \in Requests, Rollback(q) PROVE CopyExact'
  BY <1>5 DEF Rollback, Forget
<1>6. ASSUME NEW u \in Users, NEW role \in CliRoles, CliLoad(u, role) PROVE CopyExact'
  BY <1>6 DEF CliLoad
<1>7. CASE CliWrite
  <2>1. \A r \in Requests : pc[r] \in Holding => row'[req[r].target] = row[req[r].target]
    BY <1>7 DEF CliWrite, RowLocked, Updates
  <2>2. QED
    BY <1>7, <2>1 DEF CliWrite
<1>8. CASE UNCHANGED vars
  BY <1>8 DEF vars
<1>9. QED
  BY <1>1, <1>2, <1>3, <1>4, <1>5, <1>6, <1>7, <1>8
     DEF Next, Provision, UpdateMember

\* Only its own commit or rollback takes a request that counted back to idle.
LEMMA EndsItself ==
    ASSUME TypeOK, [Next]_vars, NEW q \in Requests, pc[q] = "COUNTED", pc'[q] = "IDLE"
    PROVE  Commit(q) \/ Rollback(q)
<1>1. ASSUME NEW r \in Requests, UpdateMember(r) PROVE Commit(q) \/ Rollback(q)
  BY <1>1 DEF UpdateMember, Authenticate, Hold, Count, Commit, Rollback, Forget, TypeOK
<1>2. ~Provision
  BY DEF Provision, CliLoad, CliWrite
<1>3. ~UNCHANGED vars
  BY DEF vars
<1>4. QED
  BY <1>1, <1>2, <1>3 DEF Next

\* The update of somebody else is audited as it happened, whatever other
\* requests and the tool do, for whichever roles the tool is used.
THEOREM OthersAreToldExactly == Spec => OthersToldExactly
<1>1. Init => OneHolder /\ CopyExact
  BY DEF Init, OneHolder, CopyExact, Holding
<1>2. TypeOK /\ OneHolder /\ CopyExact /\ [Next]_vars => (OneHolder /\ CopyExact)'
  BY HoldersStep, ExactStep
<1>3. ASSUME TypeOK, CopyExact, [Next]_vars, NEW q \in Requests,
             pc[q] = "COUNTED", pc'[q] = "IDLE", req[q].actor # req[q].target
      PROVE  \/ UNCHANGED <<row, told>>
             \/ row'[req[q].target] = told'[req[q].target]
  <2>1. CASE Rollback(q)
    BY <2>1 DEF Rollback
  <2>2. CASE Commit(q)
    <3>1. PICK u \in Users, want \in Wanted : u = req[q].target /\ want = req[q].want
      BY <1>3 DEF TypeOK, Updates
    <3>2. copy[q] = row[u] /\ row[u] \in Rows
      BY <1>3, <3>1 DEF CopyExact, Holding, TypeOK
    <3>3. row'[u] = Written(row[u], copy[q], want) /\ told'[u] = want
      BY <1>3, <2>2, <3>1 DEF Commit, TypeOK
    <3>4. row'[u] = told'[u]
      BY <3>2, <3>3, WrittenIsWanted
    <3>5. QED
      BY <3>1, <3>4
  <2>3. QED
    BY <1>3, <2>1, <2>2, EndsItself
<1>4. TypeOK /\ CopyExact /\ [Next]_vars =>
        [\A q \in Requests :
          LET u == req[q].target
          IN pc[q] = "COUNTED" /\ pc'[q] = "IDLE" /\ req[q].actor # u
             => \/ UNCHANGED <<row, told>>
                \/ row'[u] = told'[u]]_vars
  BY <1>3
<1>5. QED
  BY <1>1, <1>2, <1>4, MembersTypeCorrect, PTL DEF Spec, OthersToldExactly
=============================================================================
