------------------------------ MODULE Members ------------------------------
(***************************************************************************)
(* The project's membership table: POST /members/{id} of                   *)
(* backend/app/routers/governance.py, which keeps at least one active      *)
(* administrator, and the provisioning tool backend/app/manage.py.         *)
(*                                                                         *)
(* A request loads its own user when it authenticates and only then takes  *)
(* advisory lock 26011003.  Its session keeps that first copy: a later     *)
(* SELECT ... FOR UPDATE of the same row does not refresh it, and a commit *)
(* writes the columns that differ from the copy.                           *)
(***************************************************************************)
EXTENDS Naturals, FiniteSets

CONSTANTS
    Users,     \* ids that may have a row in app_users
    Requests,  \* request handlers at work on membership
    CliRoles   \* roles the provisioning tool is used for

ASSUME UsersFinite == IsFiniteSet(Users)

VARIABLES
    row,   \* role and active of each user, role "none" when there is no row
    told,  \* what the latest audit event of each user says the row became
    pc,    \* where each request is
    req,   \* its actor, its target and the row it wants
    copy,  \* the target's row as its session knows it
    cli    \* the run of the provisioning tool, NoRun when there is none

vars == <<row, told, pc, req, copy, cli>>

Roles == {"admin", "officer"}
Rows == [role : Roles \cup {"none"}, active : BOOLEAN]
Wanted == [role : Roles, active : BOOLEAN]

Administrator == [role |-> "admin", active |-> TRUE]
Missing == [role |-> "none", active |-> FALSE]
NoRun == [user |-> "none"]

Updates == [actor : Users, target : Users, want : Wanted]

\* The tool's roles are roles.
ASSUME ToolRoles == CliRoles \subseteq Roles

Holding == {"HELD", "COUNTED"}

TypeOK ==
    /\ row \in [Users -> Rows]
    /\ told \in [Users -> Rows]
    /\ pc \in [Requests -> {"IDLE", "CHECKED", "HELD", "COUNTED"}]
    /\ req \in [Requests -> {NoRun} \cup Updates]
    /\ copy \in [Requests -> Rows]
    \* the rows a request knows exist
    /\ \A q \in Requests : pc[q] # "IDLE" =>
          req[q] \in Updates /\ copy[q].role # "none"
    /\ cli = NoRun \/ cli \in [user : Users, role : CliRoles, copy : Rows]

Init ==
    /\ row \in [Users -> {Administrator, [role |-> "officer", active |-> TRUE], Missing}]
    /\ \E u \in Users : row[u] = Administrator
    /\ told = row
    /\ pc = [q \in Requests |-> "IDLE"]
    /\ req = [q \in Requests |-> NoRun]
    /\ copy = [q \in Requests |-> Missing]
    /\ cli = NoRun

-----------------------------------------------------------------------------
Admins == {u \in Users : row[u] = Administrator}

\* Slip: the advisory lock is not taken.
AlwaysFree == TRUE

\* Advisory lock 26011003 is free.
LockFree == \A q \in Requests : pc[q] \notin Holding

\* Slip: the row is not locked while it is decided on.
NeverLocked(u) == FALSE

RowLocked(u) == \E q \in Requests : pc[q] \in Holding /\ req[q].target = u

\* Slip: a missing member is not refused.
AnyMember(u) == TRUE

Exists(u) == row[u].role # "none"

\* What a commit leaves in the row: the columns that differ from the copy.
Written(now, known, want) ==
    [role   |-> IF want.role # known.role THEN want.role ELSE now.role,
     active |-> IF want.active # known.active THEN want.active ELSE now.active]

\* roles("admin"): the actor is an active administrator now.
Authenticate(q, a, u, want) ==
    /\ pc[q] = "IDLE"
    /\ row[a] = Administrator
    /\ pc' = [pc EXCEPT ![q] = "CHECKED"]
    /\ req' = [req EXCEPT ![q] = [actor |-> a, target |-> u, want |-> want]]
    /\ copy' = [copy EXCEPT ![q] = row[a]]
    /\ UNCHANGED <<row, told, cli>>

\* The advisory lock, then the member's row, as the session knows it.
Hold(q) ==
    LET u == req[q].target
    IN /\ pc[q] = "CHECKED" /\ LockFree
       /\ ~RowLocked(u) /\ Exists(u)
       /\ pc' = [pc EXCEPT ![q] = "HELD"]
       /\ copy' = [copy EXCEPT ![q] = IF u = req[q].actor THEN @ ELSE row[u]]
       /\ UNCHANGED <<row, told, req, cli>>

Withdraws(known, want) == known = Administrator /\ want # Administrator

\* The count reads the table, not the session's copies.
Count(q) ==
    /\ pc[q] = "HELD"
    /\ Withdraws(copy[q], req[q].want) => Cardinality(Admins) > 1
    /\ pc' = [pc EXCEPT ![q] = "COUNTED"]
    /\ UNCHANGED <<row, told, req, copy, cli>>

\* The transaction and its session end.
Forget(q) ==
    /\ pc' = [pc EXCEPT ![q] = "IDLE"]
    /\ req' = [req EXCEPT ![q] = NoRun]
    /\ copy' = [copy EXCEPT ![q] = Missing]

Commit(q) ==
    LET u == req[q].target
    IN /\ pc[q] = "COUNTED"
       /\ row' = [row EXCEPT ![u] = Written(@, copy[q], req[q].want)]
       /\ told' = [told EXCEPT ![u] = req[q].want]
       /\ Forget(q)
       /\ UNCHANGED cli

\* Member not found, keep at least one administrator, or any failure.
Rollback(q) ==
    /\ pc[q] # "IDLE"
    /\ Forget(q)
    /\ UNCHANGED <<row, told, cli>>

\* The tool takes no lock before it writes.
CliLoad(u, role) ==
    /\ cli = NoRun
    /\ cli' = [user |-> u, role |-> role, copy |-> row[u]]
    /\ UNCHANGED <<row, told, pc, req, copy>>

CliWrite ==
    LET u == cli.user
        want == [role |-> cli.role, active |-> TRUE]
    IN /\ cli # NoRun
       /\ ~RowLocked(u)
       /\ row' = [row EXCEPT ![u] = Written(@, cli.copy, want)]
       /\ told' = [told EXCEPT ![u] = want]
       /\ cli' = NoRun
       /\ UNCHANGED <<pc, req, copy>>

UpdateMember(q) ==
    \/ \E a, u \in Users, want \in Wanted : Authenticate(q, a, u, want)
    \/ Hold(q) \/ Count(q) \/ Commit(q) \/ Rollback(q)

Provision == CliWrite \/ \E u \in Users, role \in CliRoles : CliLoad(u, role)

Next == Provision \/ \E q \in Requests : UpdateMember(q)

Spec == Init /\ [][Next]_vars

-----------------------------------------------------------------------------
\* "Keep at least one active administrator": two administrators who withdraw
\* each other, or themselves, at the same time never both succeed, while the
\* tool is used to appoint administrators only (CliRoles = {"admin"}).
AdministratorRemains == Admins # {}

\* The update of somebody else is audited as it happened: between reading the
\* row and committing nobody changes it, not even the tool.
OthersToldExactly ==
    [][\A q \in Requests :
          LET u == req[q].target
          IN pc[q] = "COUNTED" /\ pc'[q] = "IDLE" /\ req[q].actor # u
             => \/ UNCHANGED <<row, told>>
                \/ row'[u] = told'[u]]_vars
=============================================================================
