---------------------------- MODULE PropertyCase ----------------------------
(***************************************************************************)
(* The page of one property: GET /governance/objects/{id} beside the       *)
(* record it reads (backend/app/routers/governance.py, case).              *)
(*                                                                         *)
(* The answer is put together from some thirty statements of one READ      *)
(* COMMITTED transaction that takes no lock: each statement sees what was  *)
(* committed when it began, so transactions of the record commit between   *)
(* any two of them.  A row the session holds is not refreshed by a later   *)
(* statement that returns it again.                                        *)
(*                                                                         *)
(* Kept of the answer: the geometry, the workflow state, the review cases  *)
(* and decisions, the newest validation with its blocking findings, and    *)
(* whether that validation is fresh.  Lists are shorter than their windows *)
(* (50 rows, 20 geometries).                                               *)
(***************************************************************************)
EXTENDS Cadastre, Sequences, SequencesExt

CONSTANT Opened   \* bound of the model: the objects whose page is opened

\* The bound leaves room for the version of a surveyed object.
ASSUME OpenedShape == Opened \subseteq Objects /\ MaxVersion >= 1

VARIABLES
    queued,   \* validation jobs in the order of their created_at
    stateOf,  \* after_state of the latest event of each geometry version
    at,       \* the statement the read is about to execute
    view      \* what it has read so far

caseVars == <<vars, queued, stateOf, at, view>>

Statements == {"GEOMETRIES", "EVENTS", "REVIEWS", "DECISIONS", "JOB", "ISSUES",
               "LATEST", "COMPLETED", "CURRENT", "OBJECTS", "RELATIONS",
               "REGISTERED", "RIGHTS", "SCOPES", "ANSWER"}

\* fresh is the verdict so far; held tells whether require_validation would
\* have accepted the validation at the moment its row was loaded.
Views == [object : Opened \cup {NoObject}, version : Nat, state : States,
          cases : SUBSET ReviewIds, accepted : SUBSET ReviewIds,
          decided : SUBSET ReviewIds, job : JobIds \cup {NoJob},
          blocking : BOOLEAN, checked : JobIds \cup {NoJob}, passed : BOOLEAN,
          fresh : BOOLEAN, held : BOOLEAN]

Blank(o) == [object |-> o, version |-> 0, state |-> "UNTRACKED", cases |-> {},
             accepted |-> {}, decided |-> {}, job |-> NoJob, blocking |-> FALSE,
             checked |-> NoJob, passed |-> FALSE, fresh |-> FALSE, held |-> FALSE]

NoView == Blank(NoObject)

CaseTypeOK ==
    /\ queued \in Seq(JobIds)
    /\ IsInjective(queued) /\ ToSet(queued) = {j \in JobIds : jobs[j] # NoJob}
    /\ stateOf \in [Opened \X Versions -> States]
    /\ at \in Statements \cup {"IDLE"}
    /\ view \in Views
    /\ at = "IDLE" <=> view = NoView
    /\ view.decided \subseteq view.cases
    /\ view.fresh => view.checked # NoJob

CaseInit ==
    /\ Init
    /\ queued = <<>>
    /\ stateOf = [m \in Opened \X Versions |->
                     IF m[2] = ver[m[1]] THEN shown[m[1]] ELSE "UNTRACKED"]
    /\ at = "IDLE"
    /\ view = NoView

-----------------------------------------------------------------------------
(* The record moves on.                                                    *)

\* Slip: every validation that was written to.
JustWritten == {j \in JobIds : jobs[j] # jobs'[j]}

JustQueued == {j \in JobIds : jobs[j] = NoJob /\ jobs'[j] # NoJob}

\* A return is the one event about a version that is no longer the latest.
JustReturned(o, v) ==
    \E r \in ReviewIds :
        /\ reviews[r] # reviews'[r]
        /\ reviews'[r].object = o /\ reviews'[r].version = v
        /\ reviews'[r].status = "RETURNED"

Record ==
    /\ Next
    /\ queued' = queued \o SetToSeq(JustQueued)
    /\ stateOf' = [m \in Opened \X Versions |->
                      IF m[2] = ver'[m[1]] THEN shown'[m[1]]
                      ELSE IF JustReturned(m[1], m[2]) THEN "CORRECTION_REQUIRED"
                      ELSE stateOf[m]]
    /\ UNCHANGED <<at, view>>

-----------------------------------------------------------------------------
(* The statements of the read, in their order.                             *)

Then(from, to) == at = from /\ at' = to /\ UNCHANGED <<vars, queued, stateOf>>

Open(o) ==
    /\ life[o] # "ABSENT"
    /\ Then("IDLE", "GEOMETRIES")
    /\ view' = Blank(o)

ReadGeometries ==
    /\ Then("GEOMETRIES", "EVENTS")
    /\ view' = [view EXCEPT !.version = ver[view.object]]

\* The state is that of the latest event about the geometry just read.
ReadEvents ==
    /\ Then("EVENTS", "REVIEWS")
    /\ view' = [view EXCEPT !.state = IF view.version = 0 THEN "UNTRACKED"
                                      ELSE stateOf[<<view.object, view.version>>]]

\* Slip: only pending cases are listed.
PendingOf(o) == {r \in ReviewIds : /\ reviews[r] # NoReview /\ reviews[r].object = o
                                   /\ reviews[r].status = "SUBMITTED"}

CasesOf(o) == {r \in ReviewIds : reviews[r] # NoReview /\ reviews[r].object = o}

ReadReviews ==
    /\ Then("REVIEWS", "DECISIONS")
    /\ view' = [view EXCEPT !.cases = CasesOf(view.object),
                            !.accepted = {r \in CasesOf(view.object) : IsAccepted(r)}]

ReadDecisions ==
    /\ at = "DECISIONS"
    /\ at' = IF view.version = 0 THEN "ANSWER" ELSE "JOB"
    /\ view' = [view EXCEPT
          !.decided = {r \in view.cases : reviews[r].status # "SUBMITTED"}]
    /\ UNCHANGED <<vars, queued, stateOf>>

About(j) == jobs[j].object = view.object /\ jobs[j].version = view.version

\* The latest validation queued for the geometry, if there is one.
Newest ==
    LET of == {n \in DOMAIN queued : About(queued[n])}
    IN IF of = {} THEN NoJob ELSE queued[Max(of)]

\* The row of a job enters the session.
Load(j) == [checked |-> j,
            passed |-> jobs[j].status = "COMPLETED" /\ jobs[j].passed,
            held |-> RequireValidation(j, view.object, view.version)]

Holding(v, j) == LET row == Load(j)
                 IN [v EXCEPT !.checked = row.checked, !.passed = row.passed,
                              !.held = row.held]

ReadJob ==
    /\ Then("JOB", "ISSUES")
    /\ view' = IF Newest = NoJob THEN view
               ELSE Holding([view EXCEPT !.job = Newest], Newest)

\* A job's findings are committed together with its completion.
ReadIssues ==
    /\ Then("ISSUES", "LATEST")
    /\ view' = [view EXCEPT !.blocking =
                   /\ view.job # NoJob
                   /\ jobs[view.job].status = "COMPLETED" /\ ~jobs[view.job].passed]

-----------------------------------------------------------------------------
(* require_validation and snapshot, as statements of the same read.        *)

\* "Geometry has been superseded": the reason is shown and nothing is fresh.
ReadLatest ==
    /\ at = "LATEST"
    /\ at' = IF ver[view.object] = view.version THEN "COMPLETED" ELSE "ANSWER"
    /\ UNCHANGED <<vars, queued, stateOf, view>>

\* The completed job with the id shown or, when none was, the last completed.
\* Completion is tested by the database, the result of a row the session
\* holds already is the one it had when it was loaded.
ReadCompleted ==
    /\ at = "COMPLETED"
    /\ LET o == view.object
           j == IF view.job # NoJob THEN view.job ELSE lastDone[o]
           found == j # NoJob /\ CompletedFor(j, o, view.version)
           seen == IF found /\ view.job = NoJob THEN Holding(view, j) ELSE view
           passed == found /\ seen.passed
       IN /\ view' = [seen EXCEPT !.fresh = passed]
          /\ at' = IF passed THEN "CURRENT" ELSE "ANSWER"
    /\ UNCHANGED <<vars, queued, stateOf>>

Taken == jobs[view.checked].snapshot

Seen == Snapshot(RootOf[view.object])

\* One statement of snapshot, and whether the part of the parcel it sees is
\* that of the snapshot the validation took.
Compare(same, from, to) ==
    /\ Then(from, to)
    /\ view' = [view EXCEPT !.fresh = @ /\ same]

Lives(s) == s.objects

\* Geometries slips to Lives: only the semantics are compared.
Geometries(s) == s.current
Relations(s) == {f \in s.facts : f[1] = "RELATION"}
Register(s) == s.registered
Rights(s) == {f \in s.facts : f[1] = "RIGHT"}
Scopes(s) == {f \in s.facts : f[1] = "SCOPE"}

\* The scopes of the rights just read.
ReadScopes ==
    /\ Then("SCOPES", "ANSWER")
    /\ LET known == {f \in Scopes(Seen) : \E r \in Rights(Taken) : r[2] = f[2]}
       IN view' = [view EXCEPT !.fresh = @ /\ Scopes(Taken) = known]

ReadSnapshot ==
    \/ Compare(Geometries(Taken) = Geometries(Seen), "CURRENT", "OBJECTS")
    \/ Compare(Lives(Taken) = Lives(Seen), "OBJECTS", "RELATIONS")
    \/ Compare(Relations(Taken) = Relations(Seen), "RELATIONS", "REGISTERED")
    \/ Compare(Register(Taken) = Register(Seen), "REGISTERED", "RIGHTS")
    \/ Compare(Rights(Taken) = Rights(Seen), "RIGHTS", "SCOPES")
    \/ ReadScopes

Answer == Then("ANSWER", "IDLE") /\ view' = NoView

Read ==
    \/ \E o \in Opened : Open(o)
    \/ ReadGeometries \/ ReadEvents \/ ReadReviews \/ ReadDecisions
    \/ ReadJob \/ ReadIssues
    \/ ReadLatest \/ ReadCompleted \/ ReadSnapshot
    \/ Answer

CaseNext == Record \/ Read

CaseSpec == CaseInit /\ [][CaseNext]_caseVars

-----------------------------------------------------------------------------
\* "Current geometry and semantic snapshot passed": what the page calls fresh
\* was fresh, as a whole, at one moment of the read, although no statement saw
\* the whole of it; and no finding that blocks is listed beside it.
FreshShownWasFresh ==
    at = "ANSWER" /\ view.fresh => view.held /\ ~view.blocking

\* A page that shows REVIEW or ACCEPTED lists the case, and for ACCEPTED its
\* decision, even when the case was decided in the middle of the read.
StateShownHasItsCase ==
    at = "ANSWER" =>
        LET own == {r \in view.cases : reviews[r].version = view.version}
        IN /\ view.state = "REVIEW" => own # {}
           /\ view.state = "ACCEPTED" => own \cap view.accepted \cap view.decided # {}
=============================================================================
