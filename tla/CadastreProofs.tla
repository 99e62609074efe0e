--------------------------- MODULE CadastreProofs ---------------------------
(***************************************************************************)
(* Theorems of Cadastre, for every set of objects, volumes, jobs, reviews  *)
(* and users, and every bound.                                             *)
(*                                                                         *)
(* The argument: every step only moves the record forward (Monotone), so a *)
(* stored snapshot always lies behind the parcel (JobsBehind); a snapshot  *)
(* that still equals the parcel after a step therefore equalled it before, *)
(* and nothing the rules read in the parcel has moved.  What the rules     *)
(* read outside the parcel can only shrink while the registered cases stay *)
(* the same.  So a fresh passing validation is still valid, and the case   *)
(* accepted on it clashes with no rival accepted before.                   *)
(***************************************************************************)
EXTENDS Cadastre, TLAPS

-----------------------------------------------------------------------------
\* What parcel p looks like is determined by rows that are well typed.
LEMMA SnapshotType ==
    ASSUME TypeOK, NEW p \in Objects
    PROVE  Snapshot(p) \in Snapshots
<1>1. [o \in Objects |-> IF o \in Current(p) THEN ver[o] ELSE 0] \in [Objects -> Nat]
  BY DEF TypeOK
<1>2. [o \in Objects |-> IF RootOf[o] = p THEN life[o] ELSE "ABSENT"]
         \in [Objects -> Lifecycle]
  BY DEF TypeOK, Lifecycle
<1>3. FactsOf(p) \in SUBSET Facts
  BY DEF TypeOK, FactsOf
<1>4. Registered(p) \in SUBSET ReviewIds
  BY DEF Registered
<1>5. QED
  BY <1>1, <1>2, <1>3, <1>4 DEF Snapshot, Snapshots

\* The empty result column is well typed.
LEMMA NoSnapshotType == NoSnapshot \in Snapshots
BY DEF NoSnapshot, Snapshots, Lifecycle

\* Every object's parcel is an object.
LEMMA RootType == \A o \in Objects : RootOf[o] \in Objects
BY Hierarchy DEF HierarchyRespected

\* The root of every object is a parcel, so it is its own root: the parents
\* the trigger permits leave room for four levels at most.
LEMMA RootOfRoot ==
    \A o \in Objects : RootOf[o] \in Objects /\ RootOf[RootOf[o]] = RootOf[o]
<1> DEFINE Rooted(o) == RootOf[o] \in Objects /\ KindOf[RootOf[o]] = "PARCEL"
<1>1. ASSUME NEW o \in Objects, KindOf[o] = "PARCEL" PROVE Rooted(o)
  BY <1>1, Hierarchy DEF HierarchyRespected
<1>2. ASSUME NEW o \in Objects, KindOf[o] # "PARCEL"
      PROVE  /\ ParentOf[o] \in Objects
             /\ KindOf[ParentOf[o]] \in PARENTS[KindOf[o]]
             /\ Rooted(ParentOf[o]) => Rooted(o)
  BY <1>2, Hierarchy DEF HierarchyRespected
<1>3. ASSUME NEW o \in Objects, KindOf[o] \in {"BUILDING", "EASEMENT"} PROVE Rooted(o)
  BY <1>1, <1>2, <1>3 DEF PARENTS
<1>4. ASSUME NEW o \in Objects, KindOf[o] \in {"FLOOR", "UNDERGROUND", "INFRASTRUCTURE"}
      PROVE  Rooted(o)
  BY <1>1, <1>2, <1>3, <1>4 DEF PARENTS
<1>5. ASSUME NEW o \in Objects, KindOf[o] \in {"UNIT", "SHARED"} PROVE Rooted(o)
  BY <1>1, <1>2, <1>3, <1>4, <1>5 DEF PARENTS
<1>6. \A o \in Objects : KindOf[o] \in Kinds
  BY Hierarchy DEF HierarchyRespected
<1>7. \A o \in Objects : Rooted(o)
  BY <1>1, <1>3, <1>4, <1>5, <1>6 DEF Kinds
<1>8. QED
  BY <1>7, Hierarchy DEF HierarchyRespected

\* The surveyed record is well typed.
LEMMA InitType == Init => TypeOK
BY SurveyShape DEF Init, TypeOK, Lifecycle, States

\* A workflow event keeps both ledger columns in their type.
LEMMA TransitionType ==
    ASSUME TypeOK, NEW o \in Objects, NEW v, NEW s \in States, Transition(o, v, s)
    PROVE  last' \in [Objects -> States] /\ shown' \in [Objects -> States]
BY DEF TypeOK, Transition

-----------------------------------------------------------------------------
\* A property change is a replacement or a repartition of units.
LEMMA ChangeCases ==
    ASSUME ChangeProperty
    PROVE  \/ \E o \in Objects, v \in Versions, g \in Volumes : ReplaceGeometry(o, v, g)
           \/ \E op \in {"SPLIT", "MERGE"}, ins, outs \in SUBSET Objects :
                 \E exp : \E out \in [outs -> Volumes] : Repartition(op, ins, exp, out)
<1>1. CASE Replacement
  BY <1>1, Sentinels DEF Replacement
<1>2. CASE Division
  <2>0. PICK i \in Edited, outs \in SUBSET Edited :
          \E v \in Versions, out \in [outs -> Volumes] : Split(i, [x \in {i} |-> v], out)
    BY <1>2 DEF Division
  <2>1. PICK v \in Versions, out \in [outs -> Volumes] : Split(i, [x \in {i} |-> v], out)
    BY <2>0
  <2>2. Repartition("SPLIT", {i}, [x \in {i} |-> v], out)
    BY <2>1 DEF Split
  <2>3. {i} \in SUBSET Objects /\ outs \in SUBSET Objects
    BY Sentinels
  <2>4. QED
    BY <2>2, <2>3
<1>3. CASE Merger
  <2>0. PICK ins \in SUBSET Edited, o \in Edited :
          \E exp \in [ins -> Versions], g \in Volumes : Merge(ins, exp, [x \in {o} |-> g])
    BY <1>3 DEF Merger
  <2>1. PICK exp \in [ins -> Versions], g \in Volumes : Merge(ins, exp, [x \in {o} |-> g])
    BY <2>0
  <2>2. Repartition("MERGE", ins, exp, [x \in {o} |-> g])
    BY <2>1 DEF Merge
  <2>3. ins \in SUBSET Objects /\ {o} \in SUBSET Objects
    BY Sentinels
  <2>4. [x \in {o} |-> g] \in [{o} -> Volumes]
    OBVIOUS
  <2>5. QED
    BY <2>2, <2>3, <2>4
<1>4. QED
  BY <1>1, <1>2, <1>3 DEF ChangeProperty

-----------------------------------------------------------------------------
\* Every step keeps every column in its type.
LEMMA StepType ==
    ASSUME TypeOK, [Next]_vars
    PROVE  TypeOK'
<1> USE DEF TypeOK
<1>1. ASSUME NEW o \in Objects, CreateObject(o) PROVE TypeOK'
  BY <1>1 DEF CreateObject, Lifecycle, ledger
<1>2. ASSUME NEW o \in Objects, NEW g \in Volumes, CreateGeometry(o, g) PROVE TypeOK'
  BY <1>2 DEF CreateGeometry, States
<1>3. ASSUME NEW o \in Objects, AttachEvidence(o) PROVE TypeOK'
  BY <1>3 DEF AttachEvidence, spatial, ledger
<1>4. ASSUME NEW f \in Facts, RecordFact(f) PROVE TypeOK'
  BY <1>4 DEF RecordFact, spatial, ledger
<1>5. ASSUME NEW j \in JobIds, NEW o \in Objects, NEW v \in 1 .. MaxVersion,
             NEW c \in BOOLEAN, EnqueueValidation(j, o, v, c)
      PROVE TypeOK'
  <2>1. v \in Nat \ {0}
    BY Sentinels
  <2>2. jobs' \in [JobIds -> Jobs \cup {NoJob}]
    BY <1>5, <2>1, NoSnapshotType DEF EnqueueValidation, Jobs
  <2>3. QED
    BY <1>5, <2>2 DEF EnqueueValidation, spatial, ledger
<1>6. ASSUME NEW j \in JobIds, ValidatePrism(j) PROVE TypeOK'
  <2> DEFINE o == jobs[j].object
             passed == ~Blocked(o, jobs[j].complete)
  <2>1. jobs[j] \in Jobs
    BY <1>6 DEF ValidatePrism
  <2>2. o \in Objects
    BY <2>1 DEF Jobs
  <2>3. Snapshot(RootOf[o]) \in Snapshots
    BY <2>2, RootType, SnapshotType
  <2>4. passed \in BOOLEAN
    OBVIOUS
  <2>5. jobs' = [jobs EXCEPT ![j].status = "COMPLETED", ![j].passed = passed,
                             ![j].snapshot = Snapshot(RootOf[o])]
    BY <1>6 DEF ValidatePrism
  <2> HIDE DEF passed
  <2>6. jobs' \in [JobIds -> Jobs \cup {NoJob}]
    BY <2>1, <2>3, <2>4, <2>5 DEF Jobs
  <2>7. last' \in [Objects -> States] /\ shown' \in [Objects -> States]
    BY <1>6, <2>2, TransitionType DEF ValidatePrism, States
  <2>8. lastDone' \in [Objects -> JobIds \cup {NoJob}]
    BY <1>6, <2>2 DEF ValidatePrism
  <2>9. UNCHANGED <<life, ver, vol, changes, evidence, facts, ident, reviews>>
    BY <1>6 DEF ValidatePrism, spatial
  <2>10. QED
    BY <2>6, <2>7, <2>8, <2>9
<1>7. ASSUME NEW j \in JobIds, RejectStaleValidation(j) PROVE TypeOK'
  <2>1. jobs[j] \in Jobs
    BY <1>7 DEF RejectStaleValidation
  <2>2. jobs' \in [JobIds -> Jobs \cup {NoJob}]
    BY <1>7, <2>1 DEF RejectStaleValidation, Jobs
  <2>3. QED
    BY <1>7, <2>2 DEF RejectStaleValidation, spatial, ledger
<1>8. ASSUME NEW o \in Objects, IssueIdentity(o) PROVE TypeOK'
  <2>1. <<o, ver[o]>> \in Members
    BY <1>8 DEF IssueIdentity, Mapped, Members
  <2>2. QED
    BY <1>8, <2>1 DEF IssueIdentity, spatial, ledger
<1>9. ASSUME NEW r \in ReviewIds, NEW o \in Objects, NEW j \in JobIds,
             NEW a \in Submitters, SubmitReview(r, o, j, a)
      PROVE TypeOK'
  <2>1. ver[o] \in Nat \ {0}
    BY <1>9 DEF SubmitReview, Mapped
  <2>2. reviews' \in [ReviewIds -> Reviews \cup {NoReview}]
    BY <1>9, <2>1 DEF SubmitReview, Reviews
  <2>3. last' \in [Objects -> States] /\ shown' \in [Objects -> States]
    BY <1>9, TransitionType DEF SubmitReview, States
  <2>4. QED
    BY <1>9, <2>2, <2>3 DEF SubmitReview, spatial
<1>10. ASSUME NEW r \in ReviewIds, NEW a \in Deciders, AcceptReview(r, a) PROVE TypeOK'
  <2>1. reviews[r] \in Reviews
    BY <1>10 DEF AcceptReview, Decidable
  <2>2. reviews' \in [ReviewIds -> Reviews \cup {NoReview}]
    BY <1>10, <2>1 DEF AcceptReview, Reviews
  <2>3. last' \in [Objects -> States] /\ shown' \in [Objects -> States]
    BY <1>10, <2>1, TransitionType DEF AcceptReview, States, Reviews
  <2>4. QED
    BY <1>10, <2>2, <2>3 DEF AcceptReview, spatial
<1>11. ASSUME NEW r \in ReviewIds, NEW a \in Deciders, ReturnReview(r, a) PROVE TypeOK'
  <2>1. reviews[r] \in Reviews
    BY <1>11 DEF ReturnReview, Decidable
  <2>2. reviews' \in [ReviewIds -> Reviews \cup {NoReview}]
    BY <1>11, <2>1 DEF ReturnReview, Reviews
  <2>3. last' \in [Objects -> States] /\ shown' \in [Objects -> States]
    BY <1>11, <2>1, TransitionType DEF ReturnReview, States, Reviews
  <2>4. QED
    BY <1>11, <2>2, <2>3 DEF ReturnReview, spatial
<1>12. ASSUME NEW o \in Objects, NEW v, NEW g \in Volumes, ReplaceGeometry(o, v, g)
       PROVE TypeOK'
  <2>1. [operation |-> "REPLACE", before |-> {Member(o, ver[o])},
         after |-> {Member(o, ver[o] + 1)}] \in Changes
    BY <1>12 DEF ReplaceGeometry, Changeable, Mapped, Member, Members, Changes
  <2>2. changes' \subseteq Changes
    BY <1>12, <2>1 DEF ReplaceGeometry
  <2>3. QED
    BY <1>12, <2>2 DEF ReplaceGeometry, States
<1>13. ASSUME NEW op \in {"SPLIT", "MERGE"}, NEW ins \in SUBSET Objects,
              NEW outs \in SUBSET Objects, NEW exp, NEW out \in [outs -> Volumes],
              Repartition(op, ins, exp, out)
       PROVE TypeOK'
  <2>1. DOMAIN out = outs
    OBVIOUS
  <2>2. \A i \in ins : <<i, ver[i]>> \in Members
    BY <1>13 DEF Repartition, Changeable, Mapped, Members
  <2>3. \A o \in outs : <<o, ver[o] + 1>> \in Members
    BY DEF Members
  <2>4. [operation |-> op, before |-> {Member(i, ver[i]) : i \in ins},
         after |-> {Member(o, ver[o] + 1) : o \in outs}] \in Changes
    BY <2>2, <2>3 DEF Changes, Member
  <2>5. changes' \subseteq Changes
    BY <1>13, <2>1, <2>4 DEF Repartition
  <2>6. facts' \subseteq Facts
    BY <1>13, <2>1 DEF Repartition, Facts
  <2>7. life' \in [Objects -> Lifecycle] /\ ver' \in [Objects -> Nat]
    BY <1>13, <2>1 DEF Repartition, Lifecycle
  <2>8. /\ vol' \in [Objects -> Volumes \cup {NoVolume}]
        /\ \A o \in Objects : ver'[o] > 0 => vol'[o] \in Volumes
    BY <1>13, <2>1 DEF Repartition
  <2>9. last' \in [Objects -> States] /\ shown' \in [Objects -> States]
    BY <1>13, <2>1 DEF Repartition, States
  <2>10. UNCHANGED <<evidence, ident, jobs, lastDone, reviews>>
    BY <1>13 DEF Repartition
  <2>11. QED
    BY <2>5, <2>6, <2>7, <2>8, <2>9, <2>10
<1>14. CASE UNCHANGED vars
  BY <1>14 DEF vars
<1>15. QED
  <2>1. CASE EditObject
    BY <2>1, <1>1, <1>2, <1>3, Sentinels DEF EditObject
  <2>2. CASE RecordAssertion
    BY <2>2, <1>4, Sentinels
       DEF RecordAssertion, RecordRight, AddScope, RecordRelationship, Facts
  <2>3. CASE Validate
    BY <2>3, <1>5, <1>6, <1>7, Sentinels DEF Validate
  <2>4. CASE Review
    BY <2>4, <1>8, <1>9, <1>10, <1>11, Sentinels DEF Review
  <2>5. CASE ChangeProperty
    BY <2>5, <1>12, <1>13, ChangeCases
  <2>6. QED
    BY <1>14, <2>1, <2>2, <2>3, <2>4, <2>5 DEF Next

\* The columns of the cadastral record keep their types.
THEOREM TypeCorrect == Spec => []TypeOK
<1>1. Init => TypeOK
  BY InitType
<1>2. TypeOK /\ [Next]_vars => TypeOK'
  BY StepType
<1>3. QED
  BY <1>1, <1>2, PTL DEF Spec

-----------------------------------------------------------------------------
(* The record only moves forward.                                          *)

JobDone(j) == jobs[j] # NoJob /\ jobs[j].status = "COMPLETED"

\* What a step may do to the rows that a validation and a decision rest on.
Monotone ==
    /\ \A o \in Objects :
          /\ life[o] = "SUPERSEDED" => life'[o] = "SUPERSEDED"
          /\ life[o] = "ACTIVE" => life'[o] # "ABSENT"
          /\ ver[o] <= ver'[o]
          /\ ver'[o] = ver[o] => vol'[o] = vol[o]
          /\ ver'[o] # ver[o] => life[o] # "SUPERSEDED" /\ life'[o] = "ACTIVE"
    /\ facts \subseteq facts'
    /\ ident \subseteq ident'
    /\ \A r \in ReviewIds : reviews[r] # NoReview =>
          /\ reviews'[r] # NoReview
          /\ reviews'[r].object = reviews[r].object
          /\ reviews'[r].version = reviews[r].version
          /\ IsAccepted(r) => IsAccepted(r)'
    /\ \A j \in JobIds : JobDone(j) => jobs'[j] = jobs[j]

\* No step rewrites a geometry, revives an object, withdraws a fact or an
\* acceptance, or touches a completed job.
LEMMA StepMonotone ==
    ASSUME TypeOK, [Next]_vars
    PROVE  Monotone
<1> USE DEF TypeOK, Monotone, JobDone, IsAccepted
<1>1. ASSUME NEW o \in Objects, CreateObject(o) PROVE Monotone
  BY <1>1 DEF CreateObject, Lifecycle
<1>2. ASSUME NEW o \in Objects, NEW g \in Volumes, CreateGeometry(o, g) PROVE Monotone
  BY <1>2 DEF CreateGeometry
<1>3. ASSUME NEW o \in Objects, AttachEvidence(o) PROVE Monotone
  BY <1>3 DEF AttachEvidence, spatial
<1>4. ASSUME NEW f \in Facts, RecordFact(f) PROVE Monotone
  BY <1>4 DEF RecordFact, spatial
<1>5. ASSUME NEW j \in JobIds, NEW o \in Objects, NEW v, NEW c,
             EnqueueValidation(j, o, v, c)
      PROVE Monotone
  BY <1>5 DEF EnqueueValidation, spatial
<1>6. ASSUME NEW j \in JobIds, ValidatePrism(j) PROVE Monotone
  BY <1>6 DEF ValidatePrism, spatial
<1>7. ASSUME NEW j \in JobIds, RejectStaleValidation(j) PROVE Monotone
  BY <1>7 DEF RejectStaleValidation, spatial
<1>8. ASSUME NEW o \in Objects, IssueIdentity(o) PROVE Monotone
  BY <1>8 DEF IssueIdentity, spatial
<1>9. ASSUME NEW r \in ReviewIds, NEW o \in Objects, NEW j \in JobIds,
             NEW a \in Submitters, SubmitReview(r, o, j, a)
      PROVE Monotone
  BY <1>9 DEF SubmitReview, spatial
<1>10. ASSUME NEW r \in ReviewIds, NEW a \in Deciders, AcceptReview(r, a) PROVE Monotone
  <2>1. reviews[r] \in Reviews
    BY <1>10 DEF AcceptReview, Decidable
  <2>2. reviews' = [reviews EXCEPT ![r].status = "ACCEPTED_PROTOTYPE"]
    BY <1>10 DEF AcceptReview
  <2>3. reviews'[r] # NoReview
    BY <2>1, <2>2, NoRow DEF Reviews
  <2>4. QED
    BY <1>10, <2>1, <2>2, <2>3 DEF AcceptReview, Decidable, spatial, Reviews
<1>11. ASSUME NEW r \in ReviewIds, NEW a \in Deciders, ReturnReview(r, a) PROVE Monotone
  <2>1. reviews[r] \in Reviews
    BY <1>11 DEF ReturnReview, Decidable
  <2>2. reviews' = [reviews EXCEPT ![r].status = "RETURNED"]
    BY <1>11 DEF ReturnReview
  <2>3. reviews'[r] # NoReview
    BY <2>1, <2>2, NoRow DEF Reviews
  <2>4. QED
    BY <1>11, <2>1, <2>2, <2>3 DEF ReturnReview, Decidable, spatial, Reviews
<1>12. ASSUME NEW o \in Objects, NEW v, NEW g \in Volumes, ReplaceGeometry(o, v, g)
       PROVE Monotone
  BY <1>12 DEF ReplaceGeometry, Changeable
<1>13. ASSUME NEW op \in {"SPLIT", "MERGE"}, NEW ins \in SUBSET Objects,
              NEW outs \in SUBSET Objects, NEW exp, NEW out \in [outs -> Volumes],
              Repartition(op, ins, exp, out)
       PROVE Monotone
  <2>1. DOMAIN out = outs
    OBVIOUS
  <2>2. \A i \in ins : life[i] = "ACTIVE"
    BY <1>13 DEF Repartition, Changeable
  <2>3. \A o \in outs : life[o] = "ABSENT"
    BY <1>13, <2>1 DEF Repartition
  <2>4. QED
    BY <1>13, <2>1, <2>2, <2>3 DEF Repartition
<1>14. CASE UNCHANGED vars
  BY <1>14 DEF vars
<1>15. QED
  <2>1. CASE EditObject
    BY <2>1, <1>1, <1>2, <1>3, Sentinels DEF EditObject
  <2>2. CASE RecordAssertion
    BY <2>2, <1>4, Sentinels
       DEF RecordAssertion, RecordRight, AddScope, RecordRelationship, Facts
  <2>3. CASE Validate
    BY <2>3, <1>5, <1>6, <1>7, Sentinels DEF Validate
  <2>4. CASE Review
    BY <2>4, <1>8, <1>9, <1>10, <1>11, Sentinels DEF Review
  <2>5. CASE ChangeProperty
    BY <2>5, <1>12, <1>13, ChangeCases
  <2>6. QED
    BY <1>14, <2>1, <2>2, <2>3, <2>4, <2>5 DEF Next

-----------------------------------------------------------------------------
(* The inductive invariant: ids that are not rows yet have no geometry,    *)
(* cases name versions that exist, and the snapshot of every completed     *)
(* validation lies behind the parcel it was taken of.                      *)

Behind(s, p) ==
    /\ \A o \in Objects : RootOf[o] = p =>
          /\ s.objects[o] = "SUPERSEDED" => life[o] = "SUPERSEDED"
          /\ s.objects[o] = "ACTIVE" => life[o] # "ABSENT"
          /\ s.objects[o] = life[o] => s.current[o] <= Snapshot(p).current[o]
    /\ s.facts \subseteq FactsOf(p)
    /\ s.registered \subseteq Registered(p)

Unborn == \A o \in Objects : life[o] = "ABSENT" => ver[o] = 0

CasesBehind ==
    \A r \in ReviewIds : reviews[r] # NoReview =>
        reviews[r].version <= ver[reviews[r].object]

JobsBehind ==
    \A j \in JobIds : JobDone(j) => Behind(jobs[j].snapshot, RootOf[jobs[j].object])

RecordInv == TypeOK /\ Unborn /\ CasesBehind /\ JobsBehind

\* The facts that touch a parcel accumulate.
LEMMA FactsGrow ==
    ASSUME TypeOK, TypeOK', Monotone, NEW p \in Objects
    PROVE  FactsOf(p) \subseteq FactsOf(p)'
BY DEF Monotone, FactsOf

\* The cases accepted on other parcels accumulate.
LEMMA RegisteredGrows ==
    ASSUME TypeOK, TypeOK', Monotone, NEW p \in Objects
    PROVE  Registered(p) \subseteq Registered(p)'
<1> SUFFICES ASSUME NEW r \in Registered(p) PROVE r \in Registered(p)'
  OBVIOUS
<1>1. r \in ReviewIds /\ IsAccepted(r) /\ RootOf[reviews[r].object] # p
  BY DEF Registered
<1>2. IsAccepted(r)' /\ reviews'[r].object = reviews[r].object
  BY <1>1 DEF Monotone, IsAccepted
<1>3. QED
  BY <1>1, <1>2 DEF Registered

\* What a snapshot of the parcel says of one of its objects.
LEMMA CurrentValue ==
    ASSUME TypeOK, NEW p \in Objects, NEW o \in Objects, RootOf[o] = p
    PROVE  /\ Snapshot(p).objects[o] = life[o]
           /\ Snapshot(p).current[o] = IF life[o] = "ACTIVE" THEN ver[o] ELSE 0
BY DEF TypeOK, Snapshot, Current, Mapped

\* A snapshot that lies behind a parcel still does after any step.
LEMMA StaysBehind ==
    ASSUME TypeOK, TypeOK', Monotone, Unborn, NEW p \in Objects
    PROVE  \A s \in Snapshots : Behind(s, p) => Behind(s, p)'
<1> SUFFICES ASSUME NEW s \in Snapshots, Behind(s, p) PROVE Behind(s, p)'
  OBVIOUS
<1>1. s.facts \subseteq FactsOf(p)' /\ s.registered \subseteq Registered(p)'
  BY FactsGrow, RegisteredGrows DEF Behind
<1>2. ASSUME NEW o \in Objects, RootOf[o] = p
      PROVE  /\ s.objects[o] = "SUPERSEDED" => life'[o] = "SUPERSEDED"
             /\ s.objects[o] = "ACTIVE" => life'[o] # "ABSENT"
             /\ s.objects[o] = life'[o] => s.current[o] <= Snapshot(p)'.current[o]
  <2>1. Snapshot(p).current[o] = IF life[o] = "ACTIVE" THEN ver[o] ELSE 0
    BY <1>2, CurrentValue
  <2>2. Snapshot(p)'.current[o] = IF life'[o] = "ACTIVE" THEN ver'[o] ELSE 0
    BY <1>2 DEF TypeOK, Snapshot, Current, Mapped
  <2>3. /\ s.objects[o] = "SUPERSEDED" => life[o] = "SUPERSEDED"
        /\ s.objects[o] = "ACTIVE" => life[o] # "ABSENT"
        /\ s.objects[o] = life[o] => s.current[o] <= Snapshot(p).current[o]
    BY <1>2 DEF Behind
  <2>4. /\ life[o] \in Lifecycle /\ life'[o] \in Lifecycle
        /\ ver[o] \in Nat /\ ver'[o] \in Nat
        /\ s.current[o] \in Nat
    BY DEF TypeOK, Snapshots
  <2>5. /\ life[o] = "SUPERSEDED" => life'[o] = "SUPERSEDED"
        /\ life[o] = "ACTIVE" => life'[o] # "ABSENT"
        /\ ver[o] <= ver'[o]
    BY DEF Monotone
  <2>6. QED
    BY <2>1, <2>2, <2>3, <2>4, <2>5 DEF Lifecycle
<1>3. QED
  BY <1>1, <1>2 DEF Behind

\* Antisymmetry: a snapshot behind the parcel that equals the parcel after a
\* step equalled it before, and the step moved nothing in the parcel.
LEMMA FreshBefore ==
    ASSUME TypeOK, TypeOK', Monotone, Unborn, Unborn', NEW p \in Objects
    PROVE  \A s \in Snapshots :
              Behind(s, p) /\ s = Snapshot(p)'
              => /\ s = Snapshot(p)
                 /\ \A o \in Objects : RootOf[o] = p =>
                       life'[o] = life[o] /\ ver'[o] = ver[o] /\ vol'[o] = vol[o]
<1> SUFFICES ASSUME NEW s \in Snapshots, Behind(s, p), s = Snapshot(p)'
             PROVE  /\ s = Snapshot(p)
                    /\ \A o \in Objects : RootOf[o] = p =>
                          life'[o] = life[o] /\ ver'[o] = ver[o] /\ vol'[o] = vol[o]
  OBVIOUS
<1>1. ASSUME NEW o \in Objects, RootOf[o] = p
      PROVE  life'[o] = life[o] /\ ver'[o] = ver[o] /\ vol'[o] = vol[o]
  <2>1. Snapshot(p).current[o] = IF life[o] = "ACTIVE" THEN ver[o] ELSE 0
    BY <1>1, CurrentValue
  <2>2. /\ s.objects[o] = life'[o]
        /\ s.current[o] = IF life'[o] = "ACTIVE" THEN ver'[o] ELSE 0
    BY <1>1 DEF TypeOK, Snapshot, Current, Mapped
  <2>3. /\ s.objects[o] = "SUPERSEDED" => life[o] = "SUPERSEDED"
        /\ s.objects[o] = "ACTIVE" => life[o] # "ABSENT"
        /\ s.objects[o] = life[o] => s.current[o] <= Snapshot(p).current[o]
    BY <1>1 DEF Behind
  <2>4. /\ life[o] \in Lifecycle /\ life'[o] \in Lifecycle
        /\ ver[o] \in Nat /\ ver'[o] \in Nat
    BY DEF TypeOK
  <2>5. /\ life[o] = "SUPERSEDED" => life'[o] = "SUPERSEDED"
        /\ life[o] = "ACTIVE" => life'[o] # "ABSENT"
        /\ ver[o] <= ver'[o]
        /\ ver'[o] = ver[o] => vol'[o] = vol[o]
        /\ ver'[o] # ver[o] => life[o] # "SUPERSEDED" /\ life'[o] = "ACTIVE"
    BY DEF Monotone
  <2>6. QED
    BY <2>1, <2>2, <2>3, <2>4, <2>5 DEF Lifecycle
<1>2. /\ FactsOf(p) = FactsOf(p)' /\ Registered(p) = Registered(p)'
  BY FactsGrow, RegisteredGrows DEF Behind, Snapshot
<1>3. [o \in Objects |-> IF o \in Current(p) THEN ver[o] ELSE 0]
        = [o \in Objects |-> IF o \in Current(p)' THEN ver'[o] ELSE 0]
  BY <1>1 DEF Current, Mapped
<1>4. [o \in Objects |-> IF RootOf[o] = p THEN life[o] ELSE "ABSENT"]
        = [o \in Objects |-> IF RootOf[o] = p THEN life'[o] ELSE "ABSENT"]
  BY <1>1
<1>5. Snapshot(p) = Snapshot(p)'
  BY <1>2, <1>3, <1>4 DEF Snapshot
<1>6. QED
  BY <1>1, <1>5

-----------------------------------------------------------------------------
\* Nothing is recorded for an id before its row exists, except by the change
\* that creates the row.
LEMMA UnbornStep ==
    ASSUME TypeOK, TypeOK', Monotone, Unborn
    PROVE  Unborn'
<1> SUFFICES ASSUME NEW o \in Objects, life'[o] = "ABSENT" PROVE ver'[o] = 0
  BY DEF Unborn
<1>1. ver'[o] # ver[o] => life'[o] = "ACTIVE"
  BY DEF Monotone
<1>2. life[o] = "ABSENT"
  BY DEF Monotone, TypeOK, Lifecycle
<1>3. QED
  BY <1>1, <1>2 DEF Unborn

\* A case names a version its object has reached.
LEMMA CasesStep ==
    ASSUME TypeOK, TypeOK', Monotone, CasesBehind, [Next]_vars
    PROVE  CasesBehind'
<1> SUFFICES ASSUME NEW r \in ReviewIds, reviews'[r] # NoReview
             PROVE  reviews'[r].version <= ver'[reviews'[r].object]
  BY DEF CasesBehind
<1>1. CASE reviews[r] # NoReview
  <2>1. reviews[r] \in Reviews
    BY <1>1 DEF TypeOK
  <2>2. /\ reviews[r].object \in Objects
        /\ reviews[r].version \in Nat
    BY <2>1 DEF Reviews
  <2>3. reviews[r].version <= ver[reviews[r].object]
    BY <1>1 DEF CasesBehind
  <2>4. /\ reviews'[r].object = reviews[r].object
        /\ reviews'[r].version = reviews[r].version
        /\ ver[reviews[r].object] <= ver'[reviews[r].object]
    BY <1>1, <2>2 DEF Monotone
  <2>5. ver[reviews[r].object] \in Nat /\ ver'[reviews[r].object] \in Nat
    BY <2>2 DEF TypeOK
  <2>6. QED
    BY <2>2, <2>3, <2>4, <2>5
<1>2. CASE reviews[r] = NoReview
  <2>1. reviews'[r] # reviews[r]
    BY <1>2
  <2>2. PICK q \in ReviewIds, o \in Objects, j \in JobIds, a \in Submitters :
           SubmitReview(q, o, j, a)
    <3>1. CASE EditObject
      BY <3>1, <2>1 DEF EditObject, CreateObject, AttachEvidence, CreateGeometry
    <3>2. CASE RecordAssertion
      BY <3>2, <2>1
         DEF RecordAssertion, RecordRight, AddScope, RecordRelationship, RecordFact
    <3>3. CASE Validate
      BY <3>3, <2>1 DEF Validate, EnqueueValidation, ValidatePrism, RejectStaleValidation
    <3>4. CASE Review
      <4>1. ASSUME NEW q \in ReviewIds, NEW a \in Deciders,
                   AcceptReview(q, a) \/ ReturnReview(q, a)
            PROVE  FALSE
        <5>1. reviews[q] # NoReview
          BY <4>1 DEF AcceptReview, ReturnReview, Decidable
        <5>2. \A p \in ReviewIds \ {q} : reviews'[p] = reviews[p]
          BY <4>1 DEF AcceptReview, ReturnReview, TypeOK
        <5>3. QED
          BY <5>1, <5>2, <1>2, <2>1
      <4>2. ASSUME NEW o \in Objects, IssueIdentity(o) PROVE FALSE
        BY <4>2, <2>1 DEF IssueIdentity
      <4>3. QED
        BY <3>4, <4>1, <4>2, Sentinels DEF Review
    <3>5. CASE ChangeProperty
      <4>1. reviews' = reviews
        <5>1. ASSUME NEW o \in Objects, NEW v, NEW g, ReplaceGeometry(o, v, g)
              PROVE  reviews' = reviews
          BY <5>1 DEF ReplaceGeometry
        <5>2. ASSUME NEW op, NEW ins, NEW exp, NEW out, Repartition(op, ins, exp, out)
              PROVE  reviews' = reviews
          BY <5>2 DEF Repartition
        <5>3. QED
          BY <3>5, <5>1, <5>2, ChangeCases
      <4>2. QED
        BY <2>1, <4>1
    <3>6. CASE UNCHANGED vars
      BY <3>6, <2>1 DEF vars
    <3>7. QED
      BY <3>1, <3>2, <3>3, <3>4, <3>5, <3>6 DEF Next
  <2>3. reviews'[q].version = ver[o] /\ reviews'[q].object = o /\ ver' = ver
    BY <2>2 DEF SubmitReview, TypeOK, spatial
  <2>4. \A p \in ReviewIds \ {q} : reviews'[p] = reviews[p]
    BY <2>2 DEF SubmitReview, TypeOK
  <2>5. r = q
    BY <2>1, <2>4
  <2>6. QED
    BY <2>3, <2>5 DEF TypeOK
<1>3. QED
  BY <1>1, <1>2

\* A job completes in the worker's transaction and nowhere else.
LEMMA CompletionStep ==
    ASSUME TypeOK, [Next]_vars, NEW j \in JobIds, ~JobDone(j), JobDone(j)'
    PROVE  ValidatePrism(j)
<1>0. jobs'[j] # jobs[j]
  BY DEF JobDone
<1>1. CASE EditObject
  BY <1>0, <1>1 DEF EditObject, CreateObject, AttachEvidence, CreateGeometry
<1>2. CASE RecordAssertion
  BY <1>0, <1>2
     DEF RecordAssertion, RecordRight, AddScope, RecordRelationship, RecordFact
<1>3. CASE Validate
  <2>1. ASSUME NEW k \in JobIds, NEW o \in Objects, NEW v, NEW c,
               EnqueueValidation(k, o, v, c)
        PROVE  FALSE
    <3>1. jobs'[k].status = "QUEUED" /\ \A i \in JobIds \ {k} : jobs'[i] = jobs[i]
      BY <2>1 DEF EnqueueValidation, TypeOK
    <3>2. QED
      BY <3>1, <1>0 DEF JobDone
  <2>2. ASSUME NEW k \in JobIds, RejectStaleValidation(k) PROVE FALSE
    <3>1. jobs[k] \in Jobs
      BY <2>2 DEF RejectStaleValidation, TypeOK
    <3>2. jobs'[k].status = "FAILED" /\ \A i \in JobIds \ {k} : jobs'[i] = jobs[i]
      BY <2>2, <3>1 DEF RejectStaleValidation, TypeOK, Jobs
    <3>3. QED
      BY <3>2, <1>0 DEF JobDone
  <2>3. ASSUME NEW k \in JobIds, ValidatePrism(k) PROVE ValidatePrism(j)
    <3>1. \A i \in JobIds \ {k} : jobs'[i] = jobs[i]
      BY <2>3 DEF ValidatePrism, TypeOK
    <3>2. QED
      BY <2>3, <3>1, <1>0
  <2>4. QED
    BY <1>3, <2>1, <2>2, <2>3, Sentinels DEF Validate
<1>4. CASE Review
  BY <1>0, <1>4 DEF Review, IssueIdentity, SubmitReview, AcceptReview, ReturnReview
<1>5. CASE ChangeProperty
  <2>1. ASSUME NEW o \in Objects, NEW v, NEW g, ReplaceGeometry(o, v, g)
        PROVE  jobs' = jobs
    BY <2>1 DEF ReplaceGeometry
  <2>2. ASSUME NEW op, NEW ins, NEW exp, NEW out, Repartition(op, ins, exp, out)
        PROVE  jobs' = jobs
    BY <2>2 DEF Repartition
  <2>3. QED
    BY <1>0, <1>5, <2>1, <2>2, ChangeCases
<1>6. CASE UNCHANGED vars
  BY <1>0, <1>6 DEF vars
<1>7. QED
  BY <1>1, <1>2, <1>3, <1>4, <1>5, <1>6 DEF Next

\* What the completing transaction writes, and what it leaves alone.
LEMMA CompletionEffect ==
    ASSUME TypeOK, NEW j \in JobIds, ValidatePrism(j)
    PROVE  /\ jobs[j] \in Jobs /\ jobs[j].object \in Objects
           /\ jobs'[j].object = jobs[j].object
           /\ jobs'[j].version = jobs[j].version
           /\ jobs'[j].complete = jobs[j].complete
           /\ jobs'[j].passed = ~Blocked(jobs[j].object, jobs[j].complete)
           /\ jobs'[j].snapshot = Snapshot(RootOf[jobs[j].object])
           /\ UNCHANGED <<life, ver, vol, facts, reviews>>
<1>1. jobs[j] \in Jobs
  BY DEF ValidatePrism, TypeOK
<1>2. jobs[j].object \in Objects
  BY <1>1 DEF Jobs
<1>3. UNCHANGED <<life, ver, vol, facts, reviews>>
  BY DEF ValidatePrism, spatial
<1> DEFINE passed == ~Blocked(jobs[j].object, jobs[j].complete)
           seen == Snapshot(RootOf[jobs[j].object])
<1>4. jobs' = [jobs EXCEPT ![j].status = "COMPLETED", ![j].passed = passed,
                           ![j].snapshot = seen]
  BY DEF ValidatePrism
<1> HIDE DEF passed, seen
<1>5. /\ jobs'[j].object = jobs[j].object
      /\ jobs'[j].version = jobs[j].version
      /\ jobs'[j].complete = jobs[j].complete
      /\ jobs'[j].passed = passed
      /\ jobs'[j].snapshot = seen
  BY <1>1, <1>4 DEF TypeOK, Jobs
<1>6. QED
  BY <1>1, <1>2, <1>3, <1>5 DEF passed, seen

\* A step that leaves the rows a snapshot is made of alone leaves it alone.
LEMMA SameSnapshot ==
    ASSUME UNCHANGED <<life, ver, facts, reviews>>, NEW p
    PROVE  Snapshot(p)' = Snapshot(p)
BY DEF Snapshot, Current, Mapped, FactsOf, Registered, IsAccepted

\* A snapshot that has just been taken lies behind its parcel.
LEMMA BehindItself ==
    ASSUME TypeOK, NEW p \in Objects
    PROVE  Behind(Snapshot(p), p)
<1>1. \A o \in Objects : Snapshot(p).current[o] \in Nat
  BY SnapshotType DEF Snapshots
<1>2. \A o \in Objects : RootOf[o] = p => Snapshot(p).objects[o] = life[o]
  BY CurrentValue
<1>3. Snapshot(p).facts = FactsOf(p) /\ Snapshot(p).registered = Registered(p)
  BY DEF Snapshot
<1>4. QED
  BY <1>1, <1>2, <1>3 DEF Behind

\* Every completed snapshot stays behind its parcel.
LEMMA JobsStep ==
    ASSUME TypeOK, TypeOK', Monotone, Unborn, JobsBehind, [Next]_vars
    PROVE  JobsBehind'
<1> SUFFICES ASSUME NEW j \in JobIds, JobDone(j)'
             PROVE  Behind(jobs[j].snapshot, RootOf[jobs[j].object])'
  BY DEF JobsBehind
<1>1. CASE JobDone(j)
  <2>1. jobs'[j] = jobs[j]
    BY <1>1 DEF Monotone
  <2>2. jobs[j] \in Jobs
    BY <1>1 DEF JobDone, TypeOK
  <2>3. jobs[j].snapshot \in Snapshots /\ RootOf[jobs[j].object] \in Objects
    BY <2>2, RootType DEF Jobs
  <2>4. PICK s \in Snapshots, p \in Objects :
           s = jobs[j].snapshot /\ p = RootOf[jobs[j].object]
    BY <2>3
  <2>5. Behind(s, p)
    BY <1>1, <2>4 DEF JobsBehind
  <2>6. Behind(s, p)'
    BY <2>5, StaysBehind
  <2>7. s = jobs'[j].snapshot /\ p = RootOf[jobs'[j].object]
    BY <2>1, <2>4
  <2>8. QED
    BY <2>6, <2>7 DEF Behind
<1>2. CASE ~JobDone(j)
  <2>1. ValidatePrism(j)
    BY <1>2, CompletionStep
  <2>2. PICK p \in Objects : p = RootOf[jobs[j].object]
    BY <2>1, CompletionEffect, RootType
  <2>3. /\ jobs'[j].snapshot = Snapshot(p) /\ RootOf[jobs'[j].object] = p
        /\ UNCHANGED <<life, ver, facts, reviews>>
    BY <2>1, <2>2, CompletionEffect
  <2>4. Snapshot(p)' = Snapshot(p)
    BY <2>3, SameSnapshot
  <2>5. Behind(Snapshot(p), p)
    BY BehindItself
  <2>6. FactsOf(p)' = FactsOf(p) /\ Registered(p)' = Registered(p)
    BY <2>3 DEF FactsOf, Registered, IsAccepted
  <2>7. QED
    BY <2>3, <2>4, <2>5, <2>6 DEF Behind
<1>3. QED
  BY <1>1, <1>2

\* The strengthened invariant holds initially and is kept by every step.
THEOREM RecordInvariant == Spec => []RecordInv
<1>1. Init => RecordInv
  <2>1. SUFFICES ASSUME Init PROVE RecordInv
    OBVIOUS
  <2>2. TypeOK
    BY <2>1, InitType
  <2>3. Unborn
    BY <2>1 DEF Init, Unborn
  <2>4. CasesBehind /\ JobsBehind
    BY <2>1 DEF Init, CasesBehind, JobsBehind, JobDone
  <2>5. QED
    BY <2>2, <2>3, <2>4 DEF RecordInv
<1>2. RecordInv /\ [Next]_vars => RecordInv'
  <2>1. SUFFICES ASSUME RecordInv, [Next]_vars PROVE RecordInv'
    OBVIOUS
  <2>2. TypeOK /\ Unborn /\ CasesBehind /\ JobsBehind
    BY <2>1 DEF RecordInv
  <2>3. TypeOK'
    BY <2>1, <2>2, StepType
  <2>4. Monotone
    BY <2>1, <2>2, StepMonotone
  <2>5. Unborn'
    BY <2>2, <2>3, <2>4, UnbornStep
  <2>6. CasesBehind'
    BY <2>1, <2>2, <2>3, <2>4, CasesStep
  <2>7. JobsBehind'
    BY <2>1, <2>2, <2>3, <2>4, JobsStep
  <2>8. QED
    BY <2>3, <2>5, <2>6, <2>7 DEF RecordInv
<1>3. QED
  BY <1>1, <1>2, PTL DEF Spec

-----------------------------------------------------------------------------
(* A fresh validation is valid.                                            *)

\* Rows of parcel p are as they were.
Unmoved(p) ==
    \A o \in Objects : RootOf[o] = p =>
        life'[o] = life[o] /\ ver'[o] = ver[o] /\ vol'[o] = vol[o]

\* The rules that read the object's own parcel find what they found.
LEMMA ParcelRules ==
    ASSUME TypeOK, NEW o \in Objects, NEW c, Unmoved(RootOf[o]),
           Blocked(o, c)', ~RegisteredConflict(o)'
    PROVE  Blocked(o, c)
<1> USE DEF Unmoved
<1>1. life'[o] = life[o] /\ ver'[o] = ver[o] /\ vol'[o] = vol[o]
  OBVIOUS
<1>2. Mapped(RootOf[o])' = Mapped(RootOf[o]) /\ vol'[RootOf[o]] = vol[RootOf[o]]
  <2>1. RootOf[o] \in Objects /\ RootOf[RootOf[o]] = RootOf[o]
    BY RootOfRoot
  <2>2. QED
    BY <2>1 DEF Mapped
<1>3. ParentOf[o] # NoObject =>
        Mapped(ParentOf[o])' = Mapped(ParentOf[o]) /\ vol'[ParentOf[o]] = vol[ParentOf[o]]
  <2>1. ParentOf[o] # NoObject => /\ ParentOf[o] \in Objects
                                  /\ RootOf[ParentOf[o]] = RootOf[o]
    BY Hierarchy DEF HierarchyRespected
  <2>2. QED
    BY <2>1 DEF Mapped
<1>4. /\ Current(RootOf[o])' = Current(RootOf[o])
      /\ \A n \in Current(RootOf[o]) : vol'[n] = vol[n]
  BY DEF Current, Mapped
<1>5. HeightRequired(o)' => HeightRequired(o)
  BY <1>1 DEF HeightRequired
<1>6. ParentGeometryMissing(o)' => ParentGeometryMissing(o)
  BY <1>3 DEF ParentGeometryMissing
<1>7. OutsideParent(o)' => OutsideParent(o)
  BY <1>1, <1>3 DEF OutsideParent, ParentMapped
<1>8. OutsideParentHeight(o)' => OutsideParentHeight(o)
  BY <1>1, <1>3 DEF OutsideParentHeight, ParentMapped
<1>9. OutsideParentParcel(o)' => OutsideParentParcel(o)
  BY <1>1, <1>2 DEF OutsideParentParcel
<1>10. ExclusiveConflict(o)' => ExclusiveConflict(o)
  BY <1>1, <1>4 DEF ExclusiveConflict
<1>11. SupersededObject(o)' => SupersededObject(o)
  BY <1>1 DEF SupersededObject
<1>12. VerticalExtentLimit(o)' => VerticalExtentLimit(o)
  BY <1>1 DEF VerticalExtentLimit
<1>13. PartitionNotComparable(o, c)' => PartitionNotComparable(o, c)
  BY <1>1, <1>4 DEF PartitionNotComparable
<1>14. QED
  BY <1>5, <1>6, <1>7, <1>8, <1>9, <1>10, <1>11, <1>12, <1>13 DEF Blocked

\* A space accepted by a case that was accepted before the step is the space
\* it was: accepted, active and with the same geometry.
LEMMA AcceptedBefore ==
    ASSUME TypeOK, TypeOK', Monotone, Unborn, CasesBehind,
           NEW n \in Objects, NEW r \in ReviewIds, life'[n] = "ACTIVE",
           IsAccepted(r), reviews'[r].object = n, reviews'[r].version = ver'[n]
    PROVE  /\ life[n] = "ACTIVE" /\ Accepted(n) /\ Mapped(n)
           /\ ver'[n] = ver[n] /\ vol'[n] = vol[n]
<1>1. reviews[r] \in Reviews
  BY DEF IsAccepted, TypeOK
<1>2. /\ reviews[r].object = n /\ reviews[r].version = ver'[n]
      /\ reviews[r].version \in Nat \ {0}
      /\ reviews[r].version <= ver[n]
  BY <1>1 DEF Monotone, IsAccepted, Reviews, CasesBehind
<1>3. ver[n] \in Nat /\ ver'[n] \in Nat
  BY DEF TypeOK
<1>4. ver[n] <= ver'[n] /\ (ver'[n] = ver[n] => vol'[n] = vol[n])
  BY DEF Monotone
<1>5. ver'[n] = ver[n] /\ ver[n] # 0 /\ vol'[n] = vol[n]
  BY <1>2, <1>3, <1>4
<1>6. life[n] = "ACTIVE"
  BY <1>5 DEF Monotone, TypeOK, Lifecycle, Unborn
<1>7. Accepted(n) /\ Mapped(n)
  BY <1>2, <1>3, <1>5 DEF Accepted, Mapped
<1>8. QED
  BY <1>5, <1>6, <1>7

\* While no case was accepted outside the parcel, the accepted spaces outside
\* it can only go away: they are superseded or drawn again.
LEMMA RegisteredRule ==
    ASSUME TypeOK, TypeOK', Monotone, Unborn, CasesBehind,
           NEW o \in Objects, Unmoved(RootOf[o]),
           Registered(RootOf[o])' = Registered(RootOf[o]), RegisteredConflict(o)'
    PROVE  RegisteredConflict(o)
<1>1. vol'[o] = vol[o]
  BY DEF Unmoved
<1>2. PICK n \in Objects :
         /\ RootOf[n] # RootOf[o] /\ life'[n] = "ACTIVE" /\ Accepted(n)'
         /\ Incomparable(vol'[o], vol'[n]) \/ Penetrates(vol'[o], vol'[n])
  BY DEF RegisteredConflict
<1>3. PICK r \in ReviewIds :
         IsAccepted(r)' /\ reviews'[r].object = n /\ reviews'[r].version = ver'[n]
  BY <1>2 DEF Accepted
<1>4. IsAccepted(r)
  BY <1>2, <1>3 DEF Registered
<1>5. life[n] = "ACTIVE" /\ Accepted(n) /\ vol'[n] = vol[n]
  BY <1>2, <1>3, <1>4, AcceptedBefore
<1>6. KindOf[o] \in Exclusive /\ HasHeight(vol[o])
  BY <1>1 DEF RegisteredConflict
<1>7. QED
  BY <1>1, <1>2, <1>5, <1>6 DEF RegisteredConflict

\* A validation that is fresh after a step that did not complete it was fresh
\* before, and the step moved nothing in its parcel.
LEMMA FreshStep ==
    ASSUME RecordInv, RecordInv', Monotone, NEW j \in JobIds, JobDone(j), Fresh(j)'
    PROVE  /\ jobs[j] \in Jobs /\ jobs'[j] = jobs[j]
           /\ Fresh(j)
           /\ Unmoved(RootOf[jobs[j].object])
           /\ Registered(RootOf[jobs[j].object])' = Registered(RootOf[jobs[j].object])
<1>1. TypeOK /\ TypeOK' /\ Unborn /\ Unborn' /\ JobsBehind
  BY DEF RecordInv
<1>2. jobs'[j] = jobs[j] /\ jobs[j] \in Jobs
  BY <1>1 DEF Monotone, JobDone, TypeOK
<1>3. jobs[j].snapshot \in Snapshots /\ RootOf[jobs[j].object] \in Objects
  BY <1>2, RootType DEF Jobs
<1>4. PICK s \in Snapshots, p \in Objects :
         s = jobs[j].snapshot /\ p = RootOf[jobs[j].object]
  BY <1>3
<1>5. Behind(s, p)
  BY <1>1, <1>4 DEF JobsBehind
<1>6. s = Snapshot(p)'
  BY <1>2, <1>4 DEF Fresh, Snapshot, Registered, FactsOf, Current
<1>7. s = Snapshot(p) /\ Unmoved(p)
  BY <1>1, <1>5, <1>6, FreshBefore DEF Unmoved
<1>8. Registered(p)' = Registered(p)
  BY <1>6, <1>7 DEF Snapshot
<1>9. Unmoved(RootOf[jobs[j].object])
  BY <1>4, <1>7 DEF Unmoved
<1>10. Registered(RootOf[jobs[j].object])' = Registered(RootOf[jobs[j].object])
  BY <1>2, <1>4, <1>8 DEF Registered
<1>11. QED
  BY <1>2, <1>4, <1>7, <1>9, <1>10 DEF Fresh

\* No step leaves a fresh passing validation behind that a rule would refuse.
LEMMA ValidStep ==
    ASSUME RecordInv, RecordInv', FreshMeansValid, [Next]_vars
    PROVE  FreshMeansValid'
<1>0. TypeOK /\ TypeOK' /\ Unborn /\ CasesBehind
  BY DEF RecordInv
<1>1. Monotone
  BY <1>0, StepMonotone
<1> SUFFICES ASSUME NEW j \in JobIds, jobs'[j] # NoJob,
                    RequireValidation(j, jobs[j].object, jobs[j].version)',
                    Blocked(jobs[j].object, jobs[j].complete)'
             PROVE  FALSE
  BY DEF FreshMeansValid
<1>2. JobDone(j)' /\ Fresh(j)' /\ jobs'[j].passed
      /\ jobs'[j].version = ver'[jobs'[j].object]
  BY DEF RequireValidation, CompletedFor, JobDone
<1>3. CASE JobDone(j)
  <2>1. /\ jobs[j] \in Jobs /\ jobs'[j] = jobs[j] /\ Fresh(j)
        /\ Unmoved(RootOf[jobs[j].object])
        /\ Registered(RootOf[jobs[j].object])' = Registered(RootOf[jobs[j].object])
    BY <1>1, <1>2, <1>3, FreshStep
  <2>2. PICK o \in Objects, c \in BOOLEAN : o = jobs[j].object /\ c = jobs[j].complete
    BY <2>1 DEF Jobs
  <2>3. Unmoved(RootOf[o]) /\ Registered(RootOf[o])' = Registered(RootOf[o])
    BY <2>1, <2>2 DEF Unmoved, Registered
  <2>4. Blocked(o, c)'
    BY <2>1, <2>2
  <2>5. Blocked(o, c)
    <3>1. CASE RegisteredConflict(o)'
      BY <3>1, <1>0, <1>1, <2>3, RegisteredRule DEF Blocked
    <3>2. CASE ~RegisteredConflict(o)'
      BY <3>2, <1>0, <2>3, <2>4, ParcelRules
    <3>3. QED
      BY <3>1, <3>2
  <2>6. jobs[j].passed /\ jobs[j].version = ver[o]
    BY <1>2, <2>1, <2>2, <2>3 DEF Unmoved
  <2>7. jobs[j] # NoJob /\ RequireValidation(j, jobs[j].object, jobs[j].version)
    BY <1>3, <2>1, <2>2, <2>6 DEF JobDone, RequireValidation, CompletedFor
  <2>8. QED
    BY <2>2, <2>5, <2>7 DEF FreshMeansValid
<1>4. CASE ~JobDone(j)
  <2>1. ValidatePrism(j)
    BY <1>0, <1>2, <1>4, CompletionStep
  <2>2. PICK o \in Objects, c \in BOOLEAN : o = jobs[j].object /\ c = jobs[j].complete
    BY <1>0, <2>1, CompletionEffect DEF Jobs
  <2>3. /\ jobs'[j].object = o /\ jobs'[j].complete = c
        /\ jobs'[j].passed = ~Blocked(o, c)
        /\ UNCHANGED <<life, ver, vol, facts, reviews>>
    BY <1>0, <2>1, <2>2, CompletionEffect
  <2>4. Blocked(o, c)' = Blocked(o, c)
    BY <2>3 DEF Blocked, HeightRequired, ParentGeometryMissing, OutsideParent,
       OutsideParentHeight, OutsideParentParcel, ExclusiveConflict, SupersededObject,
       VerticalExtentLimit, PartitionNotComparable, RegisteredConflict, Mapped,
       ParentMapped, Current, Accepted, IsAccepted
  <2>5. Blocked(o, c)'
    BY <2>3
  <2>6. QED
    BY <1>2, <2>3, <2>4, <2>5
<1>5. QED
  BY <1>3, <1>4

\* While a passing validation still compares equal to its parcel, every
\* blocking rule, run now, finds nothing.
THEOREM FreshValidationsAreValid == Spec => []FreshMeansValid
<1>1. Init => FreshMeansValid
  BY DEF Init, FreshMeansValid
<1>2. RecordInv /\ RecordInv' /\ FreshMeansValid /\ [Next]_vars => FreshMeansValid'
  BY ValidStep
<1>3. QED
  BY <1>1, <1>2, RecordInvariant, PTL DEF Spec

-----------------------------------------------------------------------------
(* The register is exclusive.                                              *)

\* A space that no rule refuses clashes with no accepted rival.
LEMMA ClearOfRivals ==
    ASSUME NEW a \in Objects, NEW b \in Objects, NEW c,
           a # b, Rivals(a, b), ~Blocked(a, c),
           life[b] = "ACTIVE", Accepted(b), Mapped(b)
    PROVE  ~Clash(vol[a], vol[b])
<1>1. HasHeight(vol[a])
  BY DEF Blocked, HeightRequired, Rivals, Exclusive
<1>2. ~Incomparable(vol[a], vol[b]) /\ ~Penetrates(vol[a], vol[b])
  <2>1. CASE RootOf[a] = RootOf[b]
    BY <1>1, <2>1 DEF Rivals, Blocked, ExclusiveConflict, Current
  <2>2. CASE RootOf[a] # RootOf[b]
    BY <1>1, <2>2 DEF Rivals, Blocked, RegisteredConflict
  <2>3. QED
    BY <2>1, <2>2
<1>3. ~Incomparable(vol[b], vol[a])
  BY <1>1, <1>2 DEF Incomparable, Meets
<1>4. QED
  BY <1>2, <1>3 DEF Clash

\* A case is accepted by an officer's decision and by nothing else.
LEMMA AcceptanceStep ==
    ASSUME TypeOK, Monotone, [Next]_vars,
           NEW r \in ReviewIds, ~IsAccepted(r), IsAccepted(r)'
    PROVE  \E actor \in Deciders : AcceptReview(r, actor)
<1>0. reviews'[r] # reviews[r]
  BY DEF IsAccepted
<1>1. CASE EditObject
  BY <1>0, <1>1 DEF EditObject, CreateObject, AttachEvidence, CreateGeometry
<1>2. CASE RecordAssertion
  BY <1>0, <1>2
     DEF RecordAssertion, RecordRight, AddScope, RecordRelationship, RecordFact
<1>3. CASE Validate
  BY <1>0, <1>3 DEF Validate, EnqueueValidation, ValidatePrism, RejectStaleValidation
<1>4. CASE Review
  <2>1. ASSUME NEW q \in ReviewIds, NEW o, NEW j, NEW a, SubmitReview(q, o, j, a)
        PROVE  FALSE
    <3>1. /\ reviews'[q].status = "SUBMITTED"
          /\ \A p \in ReviewIds \ {q} : reviews'[p] = reviews[p]
      BY <2>1 DEF SubmitReview, TypeOK
    <3>2. QED
      BY <1>0, <3>1 DEF IsAccepted
  <2>2. ASSUME NEW q \in ReviewIds, NEW a, ReturnReview(q, a) PROVE FALSE
    <3>1. reviews[q] \in Reviews
      BY <2>2 DEF ReturnReview, Decidable, TypeOK
    <3>2. /\ reviews'[q].status = "RETURNED"
          /\ \A p \in ReviewIds \ {q} : reviews'[p] = reviews[p]
      BY <2>2, <3>1 DEF ReturnReview, TypeOK, Reviews
    <3>3. QED
      BY <1>0, <3>2 DEF IsAccepted
  <2>3. ASSUME NEW q \in ReviewIds, NEW a \in Deciders, AcceptReview(q, a)
        PROVE  AcceptReview(r, a)
    <3>1. \A p \in ReviewIds \ {q} : reviews'[p] = reviews[p]
      BY <2>3 DEF AcceptReview, TypeOK
    <3>2. QED
      BY <1>0, <2>3, <3>1
  <2>4. ASSUME NEW o, IssueIdentity(o) PROVE FALSE
    BY <1>0, <2>4 DEF IssueIdentity
  <2>5. QED
    BY <1>4, <2>1, <2>2, <2>3, <2>4 DEF Review
<1>5. CASE ChangeProperty
  <2>1. ASSUME NEW o \in Objects, NEW v, NEW g, ReplaceGeometry(o, v, g)
        PROVE  reviews' = reviews
    BY <2>1 DEF ReplaceGeometry
  <2>2. ASSUME NEW op, NEW ins, NEW exp, NEW out, Repartition(op, ins, exp, out)
        PROVE  reviews' = reviews
    BY <2>2 DEF Repartition
  <2>3. QED
    BY <1>0, <1>5, <2>1, <2>2, ChangeCases
<1>6. CASE UNCHANGED vars
  BY <1>0, <1>6 DEF vars
<1>7. QED
  BY <1>1, <1>2, <1>3, <1>4, <1>5, <1>6 DEF Next

\* The case a step accepts clashes with no rival that was accepted before.
LEMMA NewlyAcceptedIsClear ==
    ASSUME RecordInv, RecordInv', Monotone, FreshMeansValid, [Next]_vars,
           NEW a \in Objects, NEW b \in Objects, a # b, Rivals(a, b),
           life'[b] = "ACTIVE",
           NEW q \in ReviewIds, ~IsAccepted(q), IsAccepted(q)', reviews'[q].object = a,
           reviews'[q].version = ver'[a],
           NEW r \in ReviewIds, IsAccepted(r)', reviews'[r].object = b,
           reviews'[r].version = ver'[b]
    PROVE  ~Clash(vol'[a], vol'[b])
<1>0. TypeOK /\ TypeOK' /\ Unborn /\ CasesBehind
  BY DEF RecordInv
<1>1. PICK actor \in Deciders : AcceptReview(q, actor)
  BY <1>0, AcceptanceStep
<1>2. reviews[q] \in Reviews /\ reviews[q].object = a /\ reviews[q].job \in JobIds
  BY <1>0, <1>1 DEF AcceptReview, Decidable, TypeOK, Reviews
<1>3. RequireValidation(reviews[q].job, a, reviews[q].version)
  BY <1>1, <1>2 DEF AcceptReview
<1>4. PICK j \in JobIds : j = reviews[q].job
  BY <1>2
<1>5. /\ jobs[j] # NoJob /\ jobs[j].object = a
      /\ RequireValidation(j, jobs[j].object, jobs[j].version)
  BY <1>3, <1>4 DEF RequireValidation, CompletedFor
<1>6. ~Blocked(a, jobs[j].complete)
  BY <1>5 DEF FreshMeansValid
<1>7. IsAccepted(r)
  <2>1. r # q
    OBVIOUS
  <2>2. reviews'[r] = reviews[r]
    BY <1>0, <1>1, <2>1 DEF AcceptReview, TypeOK
  <2>3. QED
    BY <2>2 DEF IsAccepted
<1>8. life[b] = "ACTIVE" /\ Accepted(b) /\ Mapped(b)
  BY <1>0, <1>7, AcceptedBefore
<1>9. PICK c : c = jobs[j].complete
  OBVIOUS
<1>10. ~Clash(vol[a], vol[b])
  BY <1>6, <1>8, <1>9, ClearOfRivals
<1>11. vol' = vol
  BY <1>1 DEF AcceptReview, spatial
<1>12. QED
  BY <1>10, <1>11

\* No step makes two clashing rivals stand accepted side by side.
LEMMA DisjointStep ==
    ASSUME RecordInv, RecordInv', FreshMeansValid, AcceptedDisjoint, [Next]_vars
    PROVE  AcceptedDisjoint'
<1>0. TypeOK /\ TypeOK' /\ Unborn /\ CasesBehind
  BY DEF RecordInv
<1>1. Monotone
  BY <1>0, StepMonotone
<1> SUFFICES ASSUME NEW a \in Objects, NEW b \in Objects, a # b, Rivals(a, b),
                    life'[a] = "ACTIVE", Accepted(a)', life'[b] = "ACTIVE", Accepted(b)'
             PROVE  ~Clash(vol'[a], vol'[b])
  BY DEF AcceptedDisjoint, Rivals
<1>2. PICK q \in ReviewIds :
         IsAccepted(q)' /\ reviews'[q].object = a /\ reviews'[q].version = ver'[a]
  BY DEF Accepted
<1>3. PICK r \in ReviewIds :
         IsAccepted(r)' /\ reviews'[r].object = b /\ reviews'[r].version = ver'[b]
  BY DEF Accepted
<1>4. CASE ~IsAccepted(q)
  BY <1>1, <1>2, <1>3, <1>4, NewlyAcceptedIsClear
<1>5. CASE ~IsAccepted(r)
  <2>1. Rivals(b, a)
    BY DEF Rivals
  <2>2. ~Clash(vol'[b], vol'[a])
    BY <1>1, <1>2, <1>3, <1>5, <2>1, NewlyAcceptedIsClear
  <2>3. QED
    BY <2>2 DEF Clash, Incomparable, Penetrates, Meets
<1>6. CASE IsAccepted(q) /\ IsAccepted(r)
  <2>1. life[a] = "ACTIVE" /\ Accepted(a) /\ vol'[a] = vol[a]
    BY <1>0, <1>1, <1>2, <1>6, AcceptedBefore
  <2>2. life[b] = "ACTIVE" /\ Accepted(b) /\ vol'[b] = vol[b]
    BY <1>0, <1>1, <1>3, <1>6, AcceptedBefore
  <2>3. QED
    BY <2>1, <2>2 DEF AcceptedDisjoint
<1>7. QED
  BY <1>4, <1>5, <1>6

\* The register of accepted prototype decisions never holds two active rivals
\* that claim the same ground at the same or at incomparable heights.
THEOREM RegisterIsExclusive == Spec => []AcceptedDisjoint
<1>1. Init => AcceptedDisjoint
  BY DEF Init, AcceptedDisjoint, Accepted, IsAccepted
<1>2. RecordInv /\ RecordInv' /\ FreshMeansValid /\ AcceptedDisjoint /\ [Next]_vars
        => AcceptedDisjoint'
  BY DisjointStep
<1>3. QED
  BY <1>1, <1>2, RecordInvariant, FreshValidationsAreValid, PTL DEF Spec

\* No ABA: a validation that has become stale never compares equal again.
THEOREM StaleValidationsStayStale == Spec => StaleForever
<1>1. RecordInv /\ RecordInv' /\ [Next]_vars =>
        [\A j \in JobIds :
            /\ jobs[j] # NoJob /\ jobs[j].status = "COMPLETED" /\ ~Fresh(j)
            => ~Fresh(j)']_vars
  <2> SUFFICES ASSUME RecordInv, RecordInv', [Next]_vars, NEW j \in JobIds,
                      jobs[j] # NoJob, jobs[j].status = "COMPLETED", Fresh(j)'
               PROVE  Fresh(j)
    OBVIOUS
  <2>1. TypeOK
    BY DEF RecordInv
  <2>2. Monotone
    BY <2>1, StepMonotone
  <2>3. JobDone(j)
    BY DEF JobDone
  <2>4. QED
    BY <2>2, <2>3, FreshStep
<1>2. QED
  BY <1>1, RecordInvariant, PTL DEF Spec, StaleForever

-----------------------------------------------------------------------------
(* What a split or merge takes over is over; what is accepted is known.    *)

\* A decided acceptance is not written again.
LEMMA AcceptedUntouched ==
    ASSUME TypeOK, [Next]_vars, NEW r \in ReviewIds, IsAccepted(r)
    PROVE  reviews'[r] = reviews[r]
<1>1. CASE EditObject
  BY <1>1 DEF EditObject, CreateObject, AttachEvidence, CreateGeometry
<1>2. CASE RecordAssertion
  BY <1>2 DEF RecordAssertion, RecordRight, AddScope, RecordRelationship, RecordFact
<1>3. CASE Validate
  BY <1>3 DEF Validate, EnqueueValidation, ValidatePrism, RejectStaleValidation
<1>4. CASE Review
  <2>1. ASSUME NEW q \in ReviewIds, NEW o, NEW j, NEW a, SubmitReview(q, o, j, a)
        PROVE  reviews'[r] = reviews[r]
    <3>1. q # r
      BY <2>1 DEF SubmitReview, IsAccepted
    <3>2. QED
      BY <2>1, <3>1 DEF SubmitReview, TypeOK
  <2>2. ASSUME NEW q \in ReviewIds, NEW a, ReturnReview(q, a) \/ AcceptReview(q, a)
        PROVE  reviews'[r] = reviews[r]
    <3>1. q # r
      BY <2>2 DEF ReturnReview, AcceptReview, Decidable, IsAccepted
    <3>2. QED
      BY <2>2, <3>1 DEF ReturnReview, AcceptReview, TypeOK
  <2>3. ASSUME NEW o, IssueIdentity(o) PROVE reviews'[r] = reviews[r]
    BY <2>3 DEF IssueIdentity
  <2>4. QED
    BY <1>4, <2>1, <2>2, <2>3 DEF Review
<1>5. CASE ChangeProperty
  <2>1. ASSUME NEW o \in Objects, NEW v, NEW g, ReplaceGeometry(o, v, g)
        PROVE  reviews' = reviews
    BY <2>1 DEF ReplaceGeometry
  <2>2. ASSUME NEW op, NEW ins, NEW exp, NEW out, Repartition(op, ins, exp, out)
        PROVE  reviews' = reviews
    BY <2>2 DEF Repartition
  <2>3. QED
    BY <1>5, <2>1, <2>2, ChangeCases
<1>6. CASE UNCHANGED vars
  BY <1>6 DEF vars
<1>7. QED
  BY <1>1, <1>2, <1>3, <1>4, <1>5, <1>6 DEF Next

\* An identity version is issued by IssueIdentity and by nothing else.
LEMMA IdentityStep ==
    ASSUME [Next]_vars, ident' # ident
    PROVE  \E o \in Objects : IssueIdentity(o)
<1>1. CASE EditObject
  BY <1>1 DEF EditObject, CreateObject, AttachEvidence, CreateGeometry
<1>2. CASE RecordAssertion
  BY <1>2 DEF RecordAssertion, RecordRight, AddScope, RecordRelationship, RecordFact
<1>3. CASE Validate
  BY <1>3 DEF Validate, EnqueueValidation, ValidatePrism, RejectStaleValidation
<1>4. CASE Review
  BY <1>4, Sentinels DEF Review, SubmitReview, AcceptReview, ReturnReview
<1>5. CASE ChangeProperty
  <2>1. ASSUME NEW o \in Objects, NEW v, NEW g, ReplaceGeometry(o, v, g)
        PROVE  ident' = ident
    BY <2>1 DEF ReplaceGeometry
  <2>2. ASSUME NEW op, NEW ins, NEW exp, NEW out, Repartition(op, ins, exp, out)
        PROVE  ident' = ident
    BY <2>2 DEF Repartition
  <2>3. QED
    BY <1>5, <2>1, <2>2, ChangeCases
<1>6. CASE UNCHANGED vars
  BY <1>6 DEF vars
<1>7. QED
  BY <1>1, <1>2, <1>3, <1>4, <1>5, <1>6 DEF Next

\* Whoever consumes a validation consumes it for an active object.
LEMMA ConsumedIsActive ==
    ASSUME TypeOK, FreshMeansValid, NEW j \in JobIds, NEW o \in Objects, NEW v,
           RequireValidation(j, o, v)
    PROVE  life[o] = "ACTIVE"
<1>1. /\ jobs[j] # NoJob /\ jobs[j].object = o
      /\ RequireValidation(j, jobs[j].object, jobs[j].version)
  BY DEF RequireValidation, CompletedFor
<1>2. ~Blocked(o, jobs[j].complete)
  BY <1>1 DEF FreshMeansValid
<1>3. QED
  BY <1>2 DEF Blocked, SupersededObject

\* A superseded space gains no version, no identity version and no acceptance,
\* whatever was pending for it when it was split or merged.
THEOREM SupersededStaysFinal == Spec => SupersededIsFinal
<1> DEFINE Final(o) ==
      /\ life'[o] = "SUPERSEDED" /\ ver'[o] = ver[o]
      /\ {m \in ident' : m[1] = o} = {m \in ident : m[1] = o}
      /\ \A r \in ReviewIds :
            /\ reviews'[r] # NoReview /\ reviews'[r].object = o
            /\ reviews'[r].status = "ACCEPTED_PROTOTYPE"
            => reviews'[r] = reviews[r]
<1>1. ASSUME RecordInv, FreshMeansValid, [Next]_vars,
             NEW o \in Objects, life[o] = "SUPERSEDED"
      PROVE  Final(o)
  <2>1. TypeOK
    BY <1>1 DEF RecordInv
  <2>2. Monotone
    BY <1>1, <2>1, StepMonotone
  <2>3. life'[o] = "SUPERSEDED" /\ ver'[o] = ver[o]
    BY <1>1, <2>2 DEF Monotone
  <2>4. ASSUME NEW m \in ident', m \notin ident PROVE m[1] # o
    <3>1. PICK x \in Objects : IssueIdentity(x)
      BY <1>1, <2>4, IdentityStep
    <3>2. m = <<x, ver[x]>>
      BY <2>4, <3>1 DEF IssueIdentity
    <3>3. lastDone[x] \in JobIds /\ RequireValidation(lastDone[x], x, ver[x])
      BY <2>1, <3>1 DEF IssueIdentity, TypeOK
    <3>4. life[x] = "ACTIVE"
      BY <1>1, <2>1, <3>3, ConsumedIsActive
    <3>5. QED
      BY <1>1, <3>2, <3>4
  <2>5. {m \in ident' : m[1] = o} = {m \in ident : m[1] = o}
    BY <2>2, <2>4 DEF Monotone
  <2>6. ASSUME NEW r \in ReviewIds, reviews'[r] # NoReview, reviews'[r].object = o,
               reviews'[r].status = "ACCEPTED_PROTOTYPE"
        PROVE  reviews'[r] = reviews[r]
    <3>1. CASE IsAccepted(r)
      BY <1>1, <2>1, <3>1, AcceptedUntouched
    <3>2. CASE ~IsAccepted(r)
      <4>1. IsAccepted(r)'
        BY <2>6 DEF IsAccepted
      <4>2. PICK actor \in Deciders : AcceptReview(r, actor)
        BY <1>1, <2>1, <2>2, <3>2, <4>1, AcceptanceStep
      <4>3. reviews[r] \in Reviews /\ reviews[r] # NoReview
        BY <2>1, <4>2 DEF AcceptReview, Decidable, TypeOK
      <4>4. reviews[r].object = o
        BY <2>2, <2>6, <4>3 DEF Monotone
      <4>5. /\ reviews[r].job \in JobIds
            /\ RequireValidation(reviews[r].job, o, reviews[r].version)
        BY <4>2, <4>3, <4>4 DEF AcceptReview, Reviews
      <4>6. life[o] = "ACTIVE"
        BY <1>1, <2>1, <4>5, ConsumedIsActive
      <4>7. QED
        BY <1>1, <4>6
    <3>3. QED
      BY <3>1, <3>2
  <2>7. QED
    BY <2>3, <2>5, <2>6
<1>2. RecordInv /\ FreshMeansValid /\ [Next]_vars =>
        [\A o \in Objects : life[o] = "SUPERSEDED" => Final(o)]_vars
  BY <1>1
<1>3. QED
  BY <1>2, RecordInvariant, FreshValidationsAreValid, PTL DEF Spec, SupersededIsFinal

-----------------------------------------------------------------------------
\* Every consumed version is behind: its space is superseded or has moved on.
Spent == \A c \in changes : \A m \in c.before :
            life[m[1]] = "SUPERSEDED" \/ m[2] < ver[m[1]]

ConsumptionInv == Spent /\ ConsumedOnce

\* A change consumes versions of active spaces and puts them behind.
LEMMA ConsumptionStep ==
    ASSUME TypeOK, TypeOK', ConsumptionInv, [Next]_vars
    PROVE  ConsumptionInv'
<1>0. Monotone
  BY StepMonotone
<1>a. \A c \in changes : \A m \in c.before : m[1] \in Objects /\ m[2] \in Nat
  BY DEF TypeOK, Changes, Members
<1>b. \A c \in changes : \A m \in c.before :
         life'[m[1]] = "SUPERSEDED" \/ m[2] < ver'[m[1]]
  <2>1. \A o \in Objects : ver[o] \in Nat /\ ver'[o] \in Nat /\ ver[o] <= ver'[o]
    BY <1>0 DEF Monotone, TypeOK
  <2>2. \A o \in Objects : life[o] = "SUPERSEDED" => life'[o] = "SUPERSEDED"
    BY <1>0 DEF Monotone
  <2>3. QED
    BY <1>a, <2>1, <2>2 DEF ConsumptionInv, Spent
<1>1. ASSUME changes' = changes PROVE ConsumptionInv'
  BY <1>1, <1>b DEF ConsumptionInv, Spent, ConsumedOnce
<1>2. ASSUME NEW d, changes' = changes \cup {d},
             \A m \in d.before : /\ life[m[1]] = "ACTIVE" /\ m[2] = ver[m[1]]
                                 /\ m[1] \in Objects
                                 /\ life'[m[1]] = "SUPERSEDED" \/ m[2] < ver'[m[1]]
      PROVE  ConsumptionInv'
  <2>1. \A c \in changes : c.before \cap d.before = {}
    BY <1>2 DEF ConsumptionInv, Spent, TypeOK
  <2>2. QED
    BY <1>2, <1>b, <2>1 DEF ConsumptionInv, Spent, ConsumedOnce
<1>3. CASE EditObject
  BY <1>1, <1>3 DEF EditObject, CreateObject, AttachEvidence, CreateGeometry, spatial
<1>4. CASE RecordAssertion
  BY <1>1, <1>4
     DEF RecordAssertion, RecordRight, AddScope, RecordRelationship, RecordFact, spatial
<1>5. CASE Validate
  BY <1>1, <1>5
     DEF Validate, EnqueueValidation, ValidatePrism, RejectStaleValidation, spatial
<1>6. CASE Review
  BY <1>1, <1>6
     DEF Review, IssueIdentity, SubmitReview, AcceptReview, ReturnReview, spatial
<1>7. CASE ChangeProperty
  <2>1. ASSUME NEW o \in Objects, NEW v \in Versions, NEW g \in Volumes,
               ReplaceGeometry(o, v, g)
        PROVE  ConsumptionInv'
    <3> DEFINE d == [operation |-> "REPLACE", before |-> {Member(o, ver[o])},
                     after |-> {Member(o, ver[o] + 1)}]
    <3>1. changes' = changes \cup {d} /\ life[o] = "ACTIVE" /\ ver'[o] = ver[o] + 1
      BY <2>1 DEF ReplaceGeometry, Changeable, TypeOK
    <3>2. d.before = {<<o, ver[o]>>}
      BY DEF Member
    <3>3. ver[o] \in Nat
      BY DEF TypeOK
    <3> HIDE DEF d
    <3>4. QED
      BY <1>2, <3>1, <3>2, <3>3
  <2>2. ASSUME NEW op \in {"SPLIT", "MERGE"}, NEW ins \in SUBSET Objects,
               NEW outs \in SUBSET Objects, NEW exp, NEW out \in [outs -> Volumes],
               Repartition(op, ins, exp, out)
        PROVE  ConsumptionInv'
    <3> DEFINE d == [operation |-> op,
                     before |-> {Member(i, ver[i]) : i \in ins},
                     after |-> {Member(o, ver[o] + 1) : o \in DOMAIN out}]
    <3>1. changes' = changes \cup {d}
      BY <2>2 DEF Repartition
    <3>2. \A i \in ins : life[i] = "ACTIVE" /\ life'[i] = "SUPERSEDED"
      BY <2>2 DEF Repartition, Changeable
    <3>3. d.before = {<<i, ver[i]>> : i \in ins}
      BY DEF Member
    <3> HIDE DEF d
    <3>4. QED
      BY <1>2, <3>1, <3>2, <3>3
  <2>3. QED
    BY <1>7, <2>1, <2>2, ChangeCases
<1>8. CASE UNCHANGED vars
  BY <1>1, <1>8 DEF vars
<1>9. QED
  BY <1>3, <1>4, <1>5, <1>6, <1>7, <1>8 DEF Next

\* Two changes asked for from the same page never both succeed.
THEOREM VersionsAreConsumedOnce == Spec => []ConsumedOnce
<1>1. Init => ConsumptionInv
  BY DEF Init, ConsumptionInv, Spent, ConsumedOnce
<1>2. TypeOK /\ TypeOK' /\ ConsumptionInv /\ [Next]_vars => ConsumptionInv'
  BY ConsumptionStep
<1>3. ConsumptionInv => ConsumedOnce
  BY DEF ConsumptionInv
<1>4. QED
  BY <1>1, <1>2, <1>3, TypeCorrect, PTL DEF Spec

-----------------------------------------------------------------------------
\* A right is recorded on one object.
RightsShape == \A f \in facts : f[1] = "RIGHT" => f[2] = f[3]

\* Scopes and relationships are recorded under names of their own.
LEMMA RightsStep ==
    ASSUME RightsShape, [Next]_vars
    PROVE  RightsShape'
<1> USE DEF RightsShape
<1>1. CASE EditObject
  BY <1>1 DEF EditObject, CreateObject, AttachEvidence, CreateGeometry
<1>2. CASE RecordAssertion
  <2>1. PICK f : RecordFact(f) /\ (f[1] = "RIGHT" => f[2] = f[3])
    <3>1. \A o, s : /\ <<"RIGHT", o, o>>[2] = <<"RIGHT", o, o>>[3]
                    /\ <<"SCOPE", o, s>>[1] # "RIGHT"
                    /\ <<"RELATION", o, s>>[1] # "RIGHT"
      OBVIOUS
    <3>2. PICK o, s : RecordRight(o) \/ AddScope(o, s) \/ RecordRelationship(o, s)
      BY <1>2 DEF RecordAssertion
    <3>3. CASE RecordRight(o)
      BY <3>1, <3>3 DEF RecordRight
    <3>4. CASE AddScope(o, s)
      BY <3>1, <3>4 DEF AddScope
    <3>5. CASE RecordRelationship(o, s)
      BY <3>1, <3>5 DEF RecordRelationship
    <3>6. QED
      BY <3>2, <3>3, <3>4, <3>5
  <2>2. QED
    BY <2>1 DEF RecordFact
<1>3. CASE Validate
  BY <1>3 DEF Validate, EnqueueValidation, ValidatePrism, RejectStaleValidation
<1>4. CASE Review
  BY <1>4 DEF Review, IssueIdentity, SubmitReview, AcceptReview, ReturnReview
<1>5. CASE ChangeProperty
  <2>1. ASSUME NEW o \in Objects, NEW v, NEW g, ReplaceGeometry(o, v, g)
        PROVE  RightsShape'
    BY <2>1 DEF ReplaceGeometry
  <2>2. ASSUME NEW op, NEW ins, NEW exp, NEW out, Repartition(op, ins, exp, out)
        PROVE  RightsShape'
    <3>1. \A f \in facts' : f \in facts \/ f[1] = "RELATION"
      BY <2>2 DEF Repartition
    <3>2. QED
      BY <3>1
  <2>3. QED
    BY <1>5, <2>1, <2>2, ChangeCases
<1>6. CASE UNCHANGED vars
  BY <1>6 DEF vars
<1>7. QED
  BY <1>1, <1>2, <1>3, <1>4, <1>5, <1>6 DEF Next

\* Every assertion with an end in the parcel is part of its snapshot.
LEMMA TouchingFacts ==
    ASSUME TypeOK, RightsShape, NEW p \in Objects, NEW f \in facts,
           RootOf[f[2]] = p \/ RootOf[f[3]] = p
    PROVE  f \in FactsOf(p)
<1>1. /\ f[1] \in {"RIGHT", "SCOPE", "RELATION"} /\ f[2] \in Objects /\ f[3] \in Objects
      /\ f = <<f[1], f[2], f[3]>>
  BY DEF TypeOK, Facts
<1>2. CASE f[1] = "RIGHT"
  BY <1>2 DEF FactsOf, RightsShape
<1>3. CASE f[1] = "SCOPE"
  BY <1>1, <1>3 DEF FactsOf
<1>4. CASE f[1] = "RELATION"
  BY <1>4 DEF FactsOf
<1>5. QED
  BY <1>1, <1>2, <1>3, <1>4

\* A new acceptance rests on a validation that has seen every right, scope and
\* relationship with an end in the parcel.
THEOREM AcceptancesKnowAssertions == Spec => AcceptedKnowingAssertions
<1> DEFINE Knows(r) ==
      /\ reviews'[r] # reviews[r]
      /\ reviews'[r].status = "ACCEPTED_PROTOTYPE"
      => LET p == RootOf[reviews'[r].object]
         IN \A f \in facts : RootOf[f[2]] = p \/ RootOf[f[3]] = p
               => f \in jobs[reviews'[r].job].snapshot.facts
<1>1. ASSUME TypeOK, TypeOK', RightsShape, [Next]_vars, NEW r \in ReviewIds
      PROVE  Knows(r)
  <2> SUFFICES ASSUME reviews'[r] # reviews[r],
                      reviews'[r].status = "ACCEPTED_PROTOTYPE",
                      NEW f \in facts,
                      \/ RootOf[f[2]] = RootOf[reviews'[r].object]
                      \/ RootOf[f[3]] = RootOf[reviews'[r].object]
               PROVE  f \in jobs[reviews'[r].job].snapshot.facts
    OBVIOUS
  <2>1. Monotone
    BY <1>1, StepMonotone
  <2>2. IsAccepted(r)'
    BY <1>1, <2>1 DEF IsAccepted, Monotone, TypeOK
  <2>3. ~IsAccepted(r)
    BY <1>1, AcceptedUntouched
  <2>4. PICK actor \in Deciders : AcceptReview(r, actor)
    BY <1>1, <2>1, <2>2, <2>3, AcceptanceStep
  <2>5. reviews[r] \in Reviews
    BY <1>1, <2>4 DEF AcceptReview, Decidable, TypeOK
  <2>6. reviews'[r].object = reviews[r].object /\ reviews'[r].job = reviews[r].job
    BY <1>1, <2>4, <2>5 DEF AcceptReview, TypeOK, Reviews
  <2>7. /\ Fresh(reviews[r].job)
        /\ jobs[reviews[r].job].object = reviews[r].object
    BY <2>4 DEF AcceptReview, RequireValidation, CompletedFor
  <2>8. RootOf[reviews[r].object] \in Objects
    BY <2>5, RootType DEF Reviews
  <2>9. jobs[reviews[r].job].snapshot.facts = FactsOf(RootOf[reviews[r].object])
    BY <2>7 DEF Fresh, Snapshot
  <2>10. f \in FactsOf(RootOf[reviews[r].object])
    BY <1>1, <2>6, <2>8, TouchingFacts
  <2>11. QED
    BY <2>6, <2>9, <2>10
<1>2. Init => RightsShape
  BY DEF Init, RightsShape
<1>3. RightsShape /\ [Next]_vars => RightsShape'
  BY RightsStep
<1>4. TypeOK /\ TypeOK' /\ RightsShape /\ [Next]_vars
      => [\A r \in ReviewIds : Knows(r)]_vars
  BY <1>1
<1>5. QED
  BY <1>2, <1>3, <1>4, TypeCorrect, PTL DEF Spec, AcceptedKnowingAssertions
=============================================================================
