---------------------------- MODULE LedgerProofs ----------------------------
(***************************************************************************)
(* Theorem of Cadastre: the state the workflow ledger shows for a geometry *)
(* is what the tables of validations and cases hold for it.                *)
(*                                                                         *)
(* The argument: jobs and cases name versions their object has reached     *)
(* (KnownVersions), so a new version starts without either.  Afterwards    *)
(* each step that completes a job or writes a case of the current version  *)
(* also writes the ledger, and a row that backs a state is written again   *)
(* only together with the state.                                           *)
(***************************************************************************)
EXTENDS CadastreProofs

-----------------------------------------------------------------------------
\* A case about the current geometry of o.
CaseOn(r, o) == /\ reviews[r] # NoReview
                /\ reviews[r].object = o
                /\ reviews[r].version = ver[o]

\* A validation that completed for the current geometry of o.
DoneOn(j, o) == CompletedFor(j, o, ver[o])

\* What backs the state that is shown for o.
Backed(o) ==
    /\ shown[o] = "DRAFT" => /\ \A j \in JobIds : ~DoneOn(j, o)
                             /\ \A r \in ReviewIds : ~CaseOn(r, o)
    /\ shown[o] = "VALIDATED" => \E j \in JobIds : DoneOn(j, o) /\ jobs[j].passed
    /\ shown[o] = "CORRECTION_REQUIRED" =>
          \/ \E j \in JobIds : DoneOn(j, o) /\ ~jobs[j].passed
          \/ \E r \in ReviewIds : CaseOn(r, o) /\ reviews[r].status = "RETURNED"
    /\ shown[o] = "REVIEW" =>
          \E r \in ReviewIds : CaseOn(r, o) /\ reviews[r].status = "SUBMITTED"
    /\ shown[o] = "ACCEPTED" =>
          \E r \in ReviewIds : CaseOn(r, o) /\ reviews[r].status = "ACCEPTED_PROTOTYPE"

\* Jobs and cases name versions that their object has reached.
KnownVersions ==
    /\ \A j \in JobIds : jobs[j] # NoJob => jobs[j].version <= ver[jobs[j].object]
    /\ CasesBehind

LedgerInv == KnownVersions /\ \A o \in Objects : Backed(o)

\* The property the runs check, said state by state.
LEMMA BackedSaysShown ==
    ASSUME TypeOK, \A o \in Objects : Backed(o)
    PROVE  ShownStateIsBacked
<1> SUFFICES ASSUME NEW o \in Objects
    PROVE  LET done(passed) == \E j \in JobIds : /\ CompletedFor(j, o, ver[o])
                                                 /\ jobs[j].passed = passed
               case(status) == \E r \in ReviewIds : /\ reviews[r] # NoReview
                                                    /\ reviews[r].object = o
                                                    /\ reviews[r].version = ver[o]
                                                    /\ reviews[r].status = status
               any == {"SUBMITTED", "ACCEPTED_PROTOTYPE", "RETURNED"}
           IN CASE shown[o] = "DRAFT" ->
                     /\ ~done(TRUE) /\ ~done(FALSE)
                     /\ \A s \in any : ~case(s)
                [] shown[o] = "VALIDATED" -> done(TRUE)
                [] shown[o] = "CORRECTION_REQUIRED" -> done(FALSE) \/ case("RETURNED")
                [] shown[o] = "REVIEW" -> case("SUBMITTED")
                [] shown[o] = "ACCEPTED" -> case("ACCEPTED_PROTOTYPE")
                [] OTHER -> TRUE
  BY DEF ShownStateIsBacked
<1> DEFINE done(passed) == \E j \in JobIds : /\ CompletedFor(j, o, ver[o])
                                             /\ jobs[j].passed = passed
           case(status) == \E r \in ReviewIds : /\ reviews[r] # NoReview
                                                /\ reviews[r].object = o
                                                /\ reviews[r].version = ver[o]
                                                /\ reviews[r].status = status
<1>1. \A j \in JobIds : DoneOn(j, o) => jobs[j].passed \in BOOLEAN
  BY DEF DoneOn, CompletedFor, TypeOK, Jobs
<1>2. shown[o] = "DRAFT" => ~done(TRUE) /\ ~done(FALSE) /\ \A s : ~case(s)
  BY DEF Backed, DoneOn, CaseOn
<1>3. shown[o] = "VALIDATED" => done(TRUE)
  BY <1>1 DEF Backed, DoneOn
<1>4. shown[o] = "CORRECTION_REQUIRED" => done(FALSE) \/ case("RETURNED")
  BY <1>1 DEF Backed, DoneOn, CaseOn
<1>5. shown[o] = "REVIEW" => case("SUBMITTED")
  BY DEF Backed, CaseOn
<1>6. shown[o] = "ACCEPTED" => case("ACCEPTED_PROTOTYPE")
  BY DEF Backed, CaseOn
<1>7. CASE shown[o] = "DRAFT"
  BY <1>2, <1>7
<1>8. CASE shown[o] = "VALIDATED"
  BY <1>3, <1>8
<1>9. CASE shown[o] = "CORRECTION_REQUIRED"
  BY <1>4, <1>9
<1>10. CASE shown[o] = "REVIEW"
  BY <1>5, <1>10
<1>11. CASE shown[o] = "ACCEPTED"
  BY <1>6, <1>11
<1>12. CASE shown[o] = "UNTRACKED"
  BY <1>12
<1>13. shown[o] \in States
  BY DEF TypeOK
<1>14. QED
  BY <1>7, <1>8, <1>9, <1>10, <1>11, <1>12, <1>13 DEF States

-----------------------------------------------------------------------------
\* A step that leaves alone what is shown for o and what backs it.
LEMMA Quiet ==
    ASSUME NEW o \in Objects, Backed(o),
           ver'[o] = ver[o], shown'[o] = shown[o],
           \A j \in JobIds : /\ DoneOn(j, o)' <=> DoneOn(j, o)
                             /\ DoneOn(j, o) => jobs'[j] = jobs[j],
           \A r \in ReviewIds : /\ CaseOn(r, o)' <=> CaseOn(r, o)
                                /\ CaseOn(r, o) => reviews'[r] = reviews[r]
    PROVE  Backed(o)'
<1> USE DEF Backed
<1> HIDE DEF DoneOn, CaseOn
<1>1. CASE shown[o] = "DRAFT"
  BY <1>1
<1>2. CASE shown[o] = "VALIDATED"
  BY <1>2
<1>3. CASE shown[o] = "CORRECTION_REQUIRED"
  BY <1>3
<1>4. CASE shown[o] = "REVIEW"
  BY <1>4
<1>5. CASE shown[o] = "ACCEPTED"
  BY <1>5
<1>6. QED
  BY <1>1, <1>2, <1>3, <1>4, <1>5

\* In particular a step that writes none of the four tables.
LEMMA QuietTables ==
    ASSUME NEW o \in Objects, Backed(o), ver'[o] = ver[o], shown'[o] = shown[o],
           jobs' = jobs, reviews' = reviews
    PROVE  Backed(o)'
BY Quiet DEF DoneOn, CaseOn, CompletedFor

\* A geometry that has just been recorded has no validation and no case.
LEMMA Redrawn ==
    ASSUME TypeOK, KnownVersions, NEW o \in Objects,
           ver'[o] = ver[o] + 1, shown'[o] = "DRAFT", jobs' = jobs, reviews' = reviews
    PROVE  Backed(o)'
<1>1. ver[o] \in Nat
  BY DEF TypeOK
<1>2. ASSUME NEW j \in JobIds PROVE ~DoneOn(j, o)'
  <2>1. SUFFICES ASSUME jobs[j] # NoJob, jobs[j].object = o, jobs[j].version = ver[o] + 1
                 PROVE  FALSE
    BY DEF DoneOn, CompletedFor
  <2>2. QED
    BY <1>1, <2>1 DEF KnownVersions
<1>3. ASSUME NEW r \in ReviewIds PROVE ~CaseOn(r, o)'
  <2>1. SUFFICES ASSUME reviews[r] # NoReview, reviews[r].object = o,
                        reviews[r].version = ver[o] + 1
                 PROVE  FALSE
    BY DEF CaseOn
  <2>2. QED
    BY <1>1, <2>1 DEF KnownVersions, CasesBehind
<1>4. QED
  BY <1>2, <1>3 DEF Backed

\* A queued or rejected job backs nothing.
LEMMA JobsWritten ==
    ASSUME TypeOK, NEW k \in JobIds, ~JobDone(k), ~JobDone(k)',
           \A j \in JobIds \ {k} : jobs'[j] = jobs[j],
           NEW o \in Objects, Backed(o),
           ver' = ver, shown' = shown, reviews' = reviews
    PROVE  Backed(o)'
<1>1. ASSUME NEW j \in JobIds
      PROVE  /\ DoneOn(j, o)' <=> DoneOn(j, o)
             /\ DoneOn(j, o) => jobs'[j] = jobs[j]
  BY DEF DoneOn, CompletedFor, JobDone
<1>2. QED
  BY <1>1, Quiet DEF CaseOn

\* The worker's transaction writes the job and, with it, what is shown.
LEMMA ValidationBacks ==
    ASSUME TypeOK, NEW j \in JobIds, ValidatePrism(j), NEW o \in Objects, Backed(o)
    PROVE  Backed(o)'
<1> DEFINE x == jobs[j].object
           passed == ~Blocked(x, jobs[j].complete)
<1>1. jobs[j] \in Jobs /\ jobs[j] # NoJob /\ x \in Objects
  BY DEF ValidatePrism, TypeOK, Jobs
<1>2. ver' = ver /\ reviews' = reviews
  BY DEF ValidatePrism, spatial
<1>3. shown' = [shown EXCEPT ![x] = IF passed THEN "VALIDATED" ELSE "CORRECTION_REQUIRED"]
  BY DEF ValidatePrism, Transition
<1>4. /\ jobs' = [jobs EXCEPT ![j].status = "COMPLETED", ![j].passed = passed,
                              ![j].snapshot = Snapshot(RootOf[x])]
      /\ jobs[j].status = "QUEUED" /\ jobs[j].version = ver[x]
  BY DEF ValidatePrism
<1>5. passed \in BOOLEAN
  OBVIOUS
<1> HIDE DEF passed
<1>6. /\ jobs'[j].status = "COMPLETED" /\ jobs'[j].passed = passed
      /\ jobs'[j].object = x /\ jobs'[j].version = ver[x] /\ jobs'[j] # NoJob
      /\ \A k \in JobIds \ {j} : jobs'[k] = jobs[k]
  <2>1. jobs'[j] = [jobs[j] EXCEPT !.status = "COMPLETED", !.passed = passed,
                                   !.snapshot = Snapshot(RootOf[x])]
    BY <1>4 DEF TypeOK
  <2>2. Snapshot(RootOf[x]) \in Snapshots
    BY <1>1, RootType, SnapshotType
  <2>3. jobs'[j] \in Jobs
    BY <1>1, <1>5, <2>1, <2>2 DEF Jobs
  <2>4. QED
    BY <1>1, <1>4, <2>1, <2>3, NoRow DEF Jobs, TypeOK
<1>7. CASE o = x
  <2>1. DoneOn(j, o)'
    BY <1>2, <1>6, <1>7 DEF DoneOn, CompletedFor
  <2>2. shown'[o] = IF passed THEN "VALIDATED" ELSE "CORRECTION_REQUIRED"
    BY <1>3, <1>7 DEF TypeOK
  <2>3. QED
    BY <2>1, <2>2, <1>5, <1>6 DEF Backed
<1>8. CASE o # x
  <2>1. ASSUME NEW k \in JobIds
        PROVE  /\ DoneOn(k, o)' <=> DoneOn(k, o)
               /\ DoneOn(k, o) => jobs'[k] = jobs[k]
    BY <1>2, <1>6, <1>8 DEF DoneOn, CompletedFor
  <2>2. shown'[o] = shown[o]
    BY <1>3, <1>8 DEF TypeOK
  <2>3. QED
    BY <1>2, <2>1, <2>2, Quiet DEF CaseOn
<1>9. QED
  BY <1>7, <1>8

\* A case that is written for the current geometry takes the shown state with
\* it; one about an earlier geometry backs nothing.
LEMMA CaseBacks ==
    ASSUME TypeOK, NEW r \in ReviewIds, NEW x \in Objects, NEW v \in Nat,
           NEW s \in States, NEW t,
           <<s, t>> \in {<<"REVIEW", "SUBMITTED">>, <<"ACCEPTED", "ACCEPTED_PROTOTYPE">>,
                         <<"CORRECTION_REQUIRED", "RETURNED">>},
           Transition(x, v, s),
           reviews'[r] # NoReview, reviews'[r].object = x,
           reviews'[r].version = v, reviews'[r].status = t,
           reviews[r] = NoReview \/ (reviews[r].object = x /\ reviews[r].version = v),
           \A q \in ReviewIds \ {r} : reviews'[q] = reviews[q],
           ver' = ver, jobs' = jobs, NEW o \in Objects, Backed(o)
    PROVE  Backed(o)'
<1>1. CASE o = x /\ v = ver[x]
  <2>1. shown'[o] = s
    BY <1>1 DEF Transition, TypeOK
  <2>2. CaseOn(r, o)'
    BY <1>1 DEF CaseOn
  <2>3. QED
    BY <2>1, <2>2 DEF Backed
<1>2. CASE ~(o = x /\ v = ver[x])
  <2>1. shown'[o] = shown[o]
    BY <1>2 DEF Transition, TypeOK
  <2>2. ~CaseOn(r, o) /\ ~CaseOn(r, o)'
    BY <1>2 DEF CaseOn
  <2>3. ASSUME NEW q \in ReviewIds
        PROVE  /\ CaseOn(q, o)' <=> CaseOn(q, o)
               /\ CaseOn(q, o) => reviews'[q] = reviews[q]
    BY <2>2 DEF CaseOn
  <2>4. QED
    BY <2>1, <2>3, Quiet DEF DoneOn, CompletedFor
<1>3. QED
  BY <1>1, <1>2

\* Submission, acceptance and return write a case and its event together.
LEMMA ReviewBacks ==
    ASSUME TypeOK, Review, NEW o \in Objects, Backed(o)
    PROVE  Backed(o)'
<1>1. ASSUME NEW x \in Objects, IssueIdentity(x) PROVE Backed(o)'
  BY <1>1, QuietTables DEF IssueIdentity, spatial, ledger
<1>2. ASSUME NEW r \in ReviewIds, NEW x \in Objects, NEW j \in JobIds,
             NEW a \in Submitters, SubmitReview(r, x, j, a)
      PROVE  Backed(o)'
  <2> DEFINE row == [object |-> x, version |-> ver[x], job |-> j, submitter |-> a,
                     status |-> "SUBMITTED"]
  <2>1. ver[x] \in Nat \ {0}
    BY <1>2 DEF SubmitReview, Mapped, TypeOK
  <2>2. row \in Reviews
    BY <2>1 DEF Reviews
  <2>3. /\ reviews'[r] = row /\ reviews[r] = NoReview
        /\ \A q \in ReviewIds \ {r} : reviews'[q] = reviews[q]
    BY <1>2 DEF SubmitReview, TypeOK
  <2>4. /\ reviews'[r] # NoReview /\ reviews'[r].object = x
        /\ reviews'[r].version = ver[x] /\ reviews'[r].status = "SUBMITTED"
    BY <2>2, <2>3, NoRow
  <2>5. Transition(x, ver[x], "REVIEW") /\ ver' = ver /\ jobs' = jobs
    BY <1>2 DEF SubmitReview, spatial
  <2>6. ver[x] \in Nat /\ "REVIEW" \in States
    BY <2>1 DEF States
  <2>7. \A q \in ReviewIds \ {r} : reviews'[q] = reviews[q]
    BY <2>3
  <2>8. PICK v \in Nat : v = ver[x]
    BY <2>6
  <2>9. Transition(x, v, "REVIEW") /\ reviews'[r].version = v
    BY <2>4, <2>5, <2>8
  <2>10. reviews[r] = NoReview
    BY <2>3
  <2> HIDE DEF row
  <2>11. QED
    BY <2>4, <2>5, <2>6, <2>7, <2>9, <2>10, CaseBacks
<1>3. ASSUME NEW r \in ReviewIds, NEW a \in Deciders,
             AcceptReview(r, a) \/ ReturnReview(r, a)
      PROVE  Backed(o)'
  <2> DEFINE x == reviews[r].object
             v == reviews[r].version
  <2>1. reviews[r] \in Reviews /\ reviews[r] # NoReview
    BY <1>3 DEF AcceptReview, ReturnReview, Decidable, TypeOK
  <2>2. x \in Objects /\ v \in Nat
    BY <2>1 DEF Reviews
  <2>3. ASSUME NEW s, NEW t \in {"SUBMITTED", "ACCEPTED_PROTOTYPE", "RETURNED"},
               reviews' = [reviews EXCEPT ![r].status = t]
        PROVE  /\ reviews'[r] # NoReview /\ reviews'[r].status = t
               /\ reviews'[r].object = x /\ reviews'[r].version = v
               /\ \A q \in ReviewIds \ {r} : reviews'[q] = reviews[q]
    <3>1. /\ reviews'[r] = [reviews[r] EXCEPT !.status = t]
          /\ \A q \in ReviewIds \ {r} : reviews'[q] = reviews[q]
      BY <2>3 DEF TypeOK
    <3>2. reviews'[r] \in Reviews
      BY <2>1, <3>1 DEF Reviews
    <3>3. QED
      BY <2>1, <3>1, <3>2, NoRow DEF Reviews
  <2>4. ver' = ver /\ jobs' = jobs
    BY <1>3 DEF AcceptReview, ReturnReview, spatial
  <2>5. CASE AcceptReview(r, a)
    <3>1. /\ Transition(x, v, "ACCEPTED")
          /\ reviews' = [reviews EXCEPT ![r].status = "ACCEPTED_PROTOTYPE"]
      BY <2>5 DEF AcceptReview
    <3>2. QED
      BY <2>2, <2>3, <2>4, <3>1, CaseBacks DEF States
  <2>6. CASE ReturnReview(r, a)
    <3>1. /\ Transition(x, v, "CORRECTION_REQUIRED")
          /\ reviews' = [reviews EXCEPT ![r].status = "RETURNED"]
      BY <2>6 DEF ReturnReview
    <3>2. QED
      BY <2>2, <2>3, <2>4, <3>1, CaseBacks DEF States
  <2>7. QED
    BY <1>3, <2>5, <2>6
<1>4. QED
  BY <1>1, <1>2, <1>3, Sentinels DEF Review

\* A new geometry, of the same object or of the objects of a split or merge,
\* starts as a draft; every other object is left alone.
LEMMA ChangeBacks ==
    ASSUME TypeOK, KnownVersions, ChangeProperty, NEW o \in Objects, Backed(o)
    PROVE  Backed(o)'
<1>1. ASSUME NEW x \in Objects, NEW v, NEW g, ReplaceGeometry(x, v, g)
      PROVE  Backed(o)'
  <2>1. /\ ver' = [ver EXCEPT ![x] = @ + 1] /\ shown' = [shown EXCEPT ![x] = "DRAFT"]
        /\ jobs' = jobs /\ reviews' = reviews
    BY <1>1 DEF ReplaceGeometry
  <2>2. CASE o = x
    BY <2>1, <2>2, Redrawn DEF TypeOK
  <2>3. CASE o # x
    BY <2>1, <2>3, QuietTables DEF TypeOK
  <2>4. QED
    BY <2>2, <2>3
<1>2. ASSUME NEW op, NEW ins, NEW exp, NEW out, Repartition(op, ins, exp, out)
      PROVE  Backed(o)'
  <2>1. /\ ver'[o] = IF o \in DOMAIN out THEN ver[o] + 1 ELSE ver[o]
        /\ shown'[o] = IF o \in DOMAIN out THEN "DRAFT" ELSE shown[o]
        /\ jobs' = jobs /\ reviews' = reviews
    BY <1>2 DEF Repartition
  <2>2. CASE o \in DOMAIN out
    BY <2>1, <2>2, Redrawn
  <2>3. CASE o \notin DOMAIN out
    BY <2>1, <2>3, QuietTables
  <2>4. QED
    BY <2>2, <2>3
<1>3. QED
  BY <1>1, <1>2, ChangeCases

\* Every step keeps what is shown backed.
LEMMA BackedStep ==
    ASSUME TypeOK, KnownVersions, [Next]_vars, NEW o \in Objects, Backed(o)
    PROVE  Backed(o)'
<1>1. CASE EditObject
  <2>1. ASSUME NEW x \in Objects, CreateObject(x) PROVE Backed(o)'
    BY <2>1, QuietTables DEF CreateObject, ledger
  <2>2. ASSUME NEW x \in Objects, AttachEvidence(x) PROVE Backed(o)'
    BY <2>2, QuietTables DEF AttachEvidence, spatial, ledger
  <2>3. ASSUME NEW x \in Objects, NEW g, CreateGeometry(x, g) PROVE Backed(o)'
    <3>1. /\ ver' = [ver EXCEPT ![x] = @ + 1] /\ shown' = [shown EXCEPT ![x] = "DRAFT"]
          /\ jobs' = jobs /\ reviews' = reviews
      BY <2>3 DEF CreateGeometry
    <3>2. CASE o = x
      BY <3>1, <3>2, Redrawn DEF TypeOK
    <3>3. CASE o # x
      BY <3>1, <3>3, QuietTables DEF TypeOK
    <3>4. QED
      BY <3>2, <3>3
  <2>4. QED
    BY <1>1, <2>1, <2>2, <2>3, Sentinels DEF EditObject
<1>2. CASE RecordAssertion
  BY <1>2, QuietTables
     DEF RecordAssertion, RecordRight, AddScope, RecordRelationship, RecordFact,
         spatial, ledger
<1>3. CASE Validate
  <2>1. ASSUME NEW j \in JobIds, NEW x, NEW v, NEW c, EnqueueValidation(j, x, v, c)
        PROVE  Backed(o)'
    <3>1. /\ ~JobDone(j) /\ ~JobDone(j)'
          /\ \A k \in JobIds \ {j} : jobs'[k] = jobs[k]
      BY <2>1 DEF EnqueueValidation, JobDone, TypeOK
    <3>2. ver' = ver /\ shown' = shown /\ reviews' = reviews
      BY <2>1 DEF EnqueueValidation, spatial, ledger
    <3>3. QED
      BY <3>1, <3>2, JobsWritten
  <2>2. ASSUME NEW j \in JobIds, RejectStaleValidation(j) PROVE Backed(o)'
    <3>1. jobs[j] \in Jobs /\ jobs' = [jobs EXCEPT ![j].status = "FAILED"]
      BY <2>2 DEF RejectStaleValidation, TypeOK
    <3>2. /\ ~JobDone(j) /\ ~JobDone(j)'
          /\ \A k \in JobIds \ {j} : jobs'[k] = jobs[k]
      BY <2>2, <3>1 DEF RejectStaleValidation, JobDone, TypeOK, Jobs
    <3>3. ver' = ver /\ shown' = shown /\ reviews' = reviews
      BY <2>2 DEF RejectStaleValidation, spatial, ledger
    <3>4. QED
      BY <3>2, <3>3, JobsWritten
  <2>3. QED
    BY <1>3, <2>1, <2>2, ValidationBacks DEF Validate
<1>4. CASE Review
  BY <1>4, ReviewBacks
<1>5. CASE ChangeProperty
  BY <1>5, ChangeBacks
<1>6. CASE UNCHANGED vars
  BY <1>6, QuietTables DEF vars
<1>7. QED
  BY <1>1, <1>2, <1>3, <1>4, <1>5, <1>6 DEF Next

-----------------------------------------------------------------------------
\* A job keeps its object and version; a new one names a recorded version.
LEMMA JobRows ==
    ASSUME TypeOK, [Next]_vars, NEW j \in JobIds, jobs'[j] # NoJob
    PROVE  \/ /\ jobs[j] # NoJob
              /\ jobs'[j].object = jobs[j].object
              /\ jobs'[j].version = jobs[j].version
           \/ /\ jobs'[j].object \in Objects
              /\ jobs'[j].version \in 1 .. ver[jobs'[j].object]
              /\ ver' = ver
<1> DEFINE Kept == /\ jobs[j] # NoJob
                   /\ jobs'[j].object = jobs[j].object
                   /\ jobs'[j].version = jobs[j].version
<1>1. ASSUME jobs' = jobs PROVE Kept
  BY <1>1
<1>2. CASE EditObject
  BY <1>1, <1>2 DEF EditObject, CreateObject, AttachEvidence, CreateGeometry
<1>3. CASE RecordAssertion
  BY <1>1, <1>3
     DEF RecordAssertion, RecordRight, AddScope, RecordRelationship, RecordFact
<1>4. CASE Validate
  <2>1. ASSUME NEW k \in JobIds, NEW o \in Objects, NEW v, NEW c,
               EnqueueValidation(k, o, v, c)
        PROVE  \/ Kept
               \/ /\ jobs'[j].object \in Objects
                  /\ jobs'[j].version \in 1 .. ver[jobs'[j].object]
                  /\ ver' = ver
    <3>1. CASE k = j
      BY <2>1, <3>1 DEF EnqueueValidation, TypeOK, spatial
    <3>2. CASE k # j
      BY <2>1, <3>2 DEF EnqueueValidation, TypeOK
    <3>3. QED
      BY <3>1, <3>2
  <2>2. ASSUME NEW k \in JobIds, ValidatePrism(k) PROVE Kept
    <3>1. jobs[k] \in Jobs /\ jobs[k] # NoJob
      BY <2>2 DEF ValidatePrism, TypeOK
    <3>2. \E p, s : jobs' = [jobs EXCEPT ![k].status = "COMPLETED", ![k].passed = p,
                                         ![k].snapshot = s]
      BY <2>2 DEF ValidatePrism
    <3>3. QED
      BY <3>1, <3>2 DEF TypeOK, Jobs
  <2>3. ASSUME NEW k \in JobIds, RejectStaleValidation(k) PROVE Kept
    <3>1. jobs[k] \in Jobs /\ jobs[k] # NoJob
      BY <2>3 DEF RejectStaleValidation, TypeOK
    <3>2. jobs' = [jobs EXCEPT ![k].status = "FAILED"]
      BY <2>3 DEF RejectStaleValidation
    <3>3. QED
      BY <3>1, <3>2 DEF TypeOK, Jobs
  <2>4. QED
    BY <1>4, <2>1, <2>2, <2>3, Sentinels DEF Validate
<1>5. CASE Review
  BY <1>1, <1>5 DEF Review, IssueIdentity, SubmitReview, AcceptReview, ReturnReview
<1>6. CASE ChangeProperty
  <2>1. ASSUME NEW o \in Objects, NEW v, NEW g, ReplaceGeometry(o, v, g) PROVE Kept
    BY <1>1, <2>1 DEF ReplaceGeometry
  <2>2. ASSUME NEW op, NEW ins, NEW exp, NEW out, Repartition(op, ins, exp, out)
        PROVE  Kept
    BY <1>1, <2>2 DEF Repartition
  <2>3. QED
    BY <1>6, <2>1, <2>2, ChangeCases
<1>7. CASE UNCHANGED vars
  BY <1>1, <1>7 DEF vars
<1>8. QED
  BY <1>2, <1>3, <1>4, <1>5, <1>6, <1>7 DEF Next

\* Versions only grow, so what was reached stays reached.
LEMMA KnownVersionsStep ==
    ASSUME TypeOK, TypeOK', KnownVersions, [Next]_vars
    PROVE  KnownVersions'
<1>1. Monotone
  BY StepMonotone
<1>2. ASSUME NEW j \in JobIds, jobs'[j] # NoJob
      PROVE  jobs'[j].version <= ver'[jobs'[j].object]
  <2>1. /\ jobs'[j].object \in Objects /\ jobs'[j].version \in Nat
    BY <1>2 DEF TypeOK, Jobs
  <2>2. /\ ver[jobs'[j].object] \in Nat /\ ver'[jobs'[j].object] \in Nat
        /\ ver[jobs'[j].object] <= ver'[jobs'[j].object]
    BY <1>1, <2>1 DEF Monotone, TypeOK
  <2>3. CASE /\ jobs[j] # NoJob
             /\ jobs'[j].object = jobs[j].object
             /\ jobs'[j].version = jobs[j].version
    BY <2>1, <2>2, <2>3 DEF KnownVersions
  <2>4. CASE jobs'[j].version \in 1 .. ver[jobs'[j].object]
    BY <2>1, <2>2, <2>4
  <2>5. QED
    BY <1>2, <2>3, <2>4, JobRows
<1>3. CasesBehind'
  BY <1>1, CasesStep DEF KnownVersions
<1>4. QED
  BY <1>2, <1>3 DEF KnownVersions

\* What the ledger shows for the current geometry is what the tables hold for
\* it, in whatever order versions, validations and decisions were recorded.
THEOREM LedgerIsBacked == Spec => []ShownStateIsBacked
<1>1. Init => LedgerInv
  BY DEF Init, LedgerInv, KnownVersions, CasesBehind, Backed, DoneOn, CaseOn, CompletedFor
<1>2. TypeOK /\ TypeOK' /\ LedgerInv /\ [Next]_vars => LedgerInv'
  BY KnownVersionsStep, BackedStep DEF LedgerInv
<1>3. TypeOK /\ LedgerInv => ShownStateIsBacked
  BY BackedSaysShown DEF LedgerInv
<1>4. QED
  BY <1>1, <1>2, <1>3, TypeCorrect, PTL DEF Spec
=============================================================================
