------------------------------ MODULE Cadastre ------------------------------
(***************************************************************************)
(* The cadastral record of the prototype: spatial objects, the versions of *)
(* their geometry, prism validation against a snapshot of the root parcel, *)
(* proposed identities, evidence, recorded assertions, review cases and    *)
(* their decisions, property changes (replace, split, merge) and the       *)
(* workflow ledger (backend/app/services: objects, validation, topology,   *)
(* records, history, workflow).                                            *)
(*                                                                         *)
(* Every service function below starts with                                *)
(* pg_advisory_xact_lock(26011002) and keeps it until its transaction      *)
(* commits, so each of them is one atomic action.  What interleaves is     *)
(* the time BETWEEN the transactions: a validation is queued for one       *)
(* version and runs against whatever the parcel has become, and its result *)
(* is consumed by identity issuance, submission and acceptance much later. *)
(***************************************************************************)
EXTENDS Naturals, FiniteSets

CONSTANTS
    Objects,      \* ids of the rows spatial_objects may hold
    KindOf,       \* kind of each object; immutable, as its parent and root are
    ParentOf,     \* parent_id of each object, NoObject for a parcel
    RootOf,       \* parcel_id or id: the parcel each object belongs to
    Volumes,      \* the geometries that may be recorded
    Survey,       \* the geometry of the objects that are mapped initially
    JobIds,       \* ids of validation jobs
    ReviewIds,    \* ids of review cases
    Submitters,   \* active surveyors and admins
    Deciders,     \* active officers and admins
    Edited,       \* bound of the model: the objects that users work on
    Documented,   \* bound of the model: those that evidence is attached to
    Asserted,     \* bound of the model: those that assertions start from
    MaxExtent,    \* settings.max_vertical_extent_m, in levels
    MaxVersion,   \* bound of the model: geometry versions per object
    MaxFacts,     \* bound of the model: recorded rights, scopes, relations
    NoObject, NoVolume, NoJob, NoReview

Kinds == {"PARCEL", "BUILDING", "FLOOR", "UNIT", "UNDERGROUND", "SHARED",
          "EASEMENT", "INFRASTRUCTURE"}

\* Which kinds a child may hang under.
PARENTS ==
    [BUILDING       |-> {"PARCEL"},
     FLOOR          |-> {"BUILDING"},
     UNIT           |-> {"FLOOR"},
     UNDERGROUND    |-> {"PARCEL", "BUILDING"},
     SHARED         |-> {"PARCEL", "BUILDING", "FLOOR"},
     EASEMENT       |-> {"PARCEL"},
     INFRASTRUCTURE |-> {"PARCEL", "EASEMENT"}]

(***************************************************************************)
(* Kind, parent and root are columns the hierarchy trigger freezes at      *)
(* insertion, so they are constants of an object's id.                     *)
(***************************************************************************)
HierarchyRespected ==
    /\ KindOf \in [Objects -> Kinds]
    /\ RootOf \in [Objects -> Objects]
    /\ ParentOf \in [Objects -> Objects \cup {NoObject}]
    /\ \A o \in Objects :
          IF KindOf[o] = "PARCEL"
          THEN ParentOf[o] = NoObject /\ RootOf[o] = o
          ELSE /\ ParentOf[o] \in Objects
               /\ KindOf[ParentOf[o]] \in PARENTS[KindOf[o]]
               /\ RootOf[o] = RootOf[ParentOf[o]]

ASSUME Hierarchy == HierarchyRespected

(***************************************************************************)
(* A volume is a vertical prism: the ground cells of its footprint, the    *)
(* elevation levels it occupies (none when z_min is missing) and the       *)
(* elevation reference its levels are measured in.                         *)
(***************************************************************************)
IsVolume(g) ==
    /\ DOMAIN g = {"foot", "levels", "datum"}
    /\ g.foot # {}

ASSUME VolumeShape == \A g \in Volumes : IsVolume(g)

ASSUME SurveyShape ==
    /\ DOMAIN Survey \subseteq Objects
    /\ \A o \in DOMAIN Survey : Survey[o] \in Volumes

ASSUME Sentinels ==
    /\ NoObject \notin Objects
    /\ NoVolume \notin Volumes
    /\ Edited \subseteq Objects
    /\ MaxVersion \in Nat /\ MaxFacts \in Nat

-----------------------------------------------------------------------------
VARIABLES
    life,      \* lifecycle of each object; ABSENT before its row exists
    ver,       \* version of its latest geometry, 0 when it has none
    vol,       \* its latest geometry
    evidence,  \* objects with at least one evidence row
    facts,     \* recorded rights, right scopes and relationships
    ident,     \* identity versions: the <<object, version>> they link
    jobs,      \* validation jobs
    lastDone,  \* the validation job of an object that completed last
    reviews,   \* review cases
    changes,   \* geometry changes with their BEFORE and AFTER members
    last,      \* after_state of the object's latest workflow event
    shown      \* after_state of the latest event of its current geometry

vars == <<life, ver, vol, evidence, facts, ident, jobs, lastDone, reviews,
          changes, last, shown>>

spatial == <<life, ver, vol, changes>>
ledger  == <<last, shown>>

Lifecycle == {"ABSENT", "ACTIVE", "SUPERSEDED"}
States == {"UNTRACKED", "DRAFT", "VALIDATED", "CORRECTION_REQUIRED",
           "REVIEW", "ACCEPTED"}

Facts == {"RIGHT", "SCOPE", "RELATION"} \X Objects \X Objects
Members == Objects \X (Nat \ {0})

Snapshots == [current    : [Objects -> Nat],
              objects    : [Objects -> Lifecycle],
              facts      : SUBSET Facts,
              registered : SUBSET ReviewIds]

\* The result column of a job that has not completed.
NoSnapshot == [current    |-> [o \in Objects |-> 0],
               objects    |-> [o \in Objects |-> "ABSENT"],
               facts      |-> {},
               registered |-> {}]

Jobs == [object : Objects, version : Nat \ {0}, complete : BOOLEAN,
         status : {"QUEUED", "COMPLETED", "FAILED"},
         passed : BOOLEAN, snapshot : Snapshots]

Reviews == [object : Objects, version : Nat \ {0}, job : JobIds,
            submitter : Submitters,
            status : {"SUBMITTED", "ACCEPTED_PROTOTYPE", "RETURNED"}]

\* The sentinels are not rows.
ASSUME NoRow == NoReview \notin Reviews /\ NoJob \notin Jobs

Changes == [operation : {"REPLACE", "SPLIT", "MERGE"},
            before : SUBSET Members, after : SUBSET Members]

TypeOK ==
    /\ life \in [Objects -> Lifecycle]
    /\ ver \in [Objects -> Nat]
    /\ vol \in [Objects -> Volumes \cup {NoVolume}]
    /\ \A o \in Objects : ver[o] > 0 => vol[o] \in Volumes
    /\ evidence \subseteq Objects
    /\ facts \subseteq Facts
    /\ ident \subseteq Members
    /\ jobs \in [JobIds -> Jobs \cup {NoJob}]
    /\ lastDone \in [Objects -> JobIds \cup {NoJob}]
    /\ reviews \in [ReviewIds -> Reviews \cup {NoReview}]
    /\ changes \subseteq Changes
    /\ last \in [Objects -> States]
    /\ shown \in [Objects -> States]

Init ==
    /\ life = [o \in Objects |-> IF o \in DOMAIN Survey THEN "ACTIVE"
                                                        ELSE "ABSENT"]
    /\ ver = [o \in Objects |-> IF o \in DOMAIN Survey THEN 1 ELSE 0]
    /\ vol = [o \in Objects |-> IF o \in DOMAIN Survey THEN Survey[o]
                                                       ELSE NoVolume]
    /\ evidence = {}
    /\ facts = {}
    /\ ident = {}
    /\ jobs = [j \in JobIds |-> NoJob]
    /\ lastDone = [o \in Objects |-> NoJob]
    /\ reviews = [r \in ReviewIds |-> NoReview]
    /\ changes = {}
    /\ last = [o \in Objects |-> IF o \in DOMAIN Survey THEN "DRAFT"
                                                        ELSE "UNTRACKED"]
    /\ shown = last

-----------------------------------------------------------------------------
(* Geometry predicates.                                                    *)

HasHeight(g) == g.levels # {}
Meets(a, b) == a.foot \cap b.foot # {}
Penetrates(a, b) == Meets(a, b) /\ a.levels \cap b.levels # {}
Incomparable(a, b) == Meets(a, b) /\ (~HasHeight(b) \/ a.datum # b.datum)

\* Two spaces that cannot both be held exclusively: they share ground, and
\* either share a level or cannot be compared level by level.
Clash(a, b) == Incomparable(a, b) \/ Incomparable(b, a) \/ Penetrates(a, b)

(* Reading the record.                                                     *)

Mapped(o) == ver[o] > 0

\* current_geometries: the latest versions of the ACTIVE objects of a parcel.
Current(p) == {o \in Objects : RootOf[o] = p /\ life[o] = "ACTIVE" /\ Mapped(o)}

\* Slip: every case that was not returned counts as accepted.
NotReturned(r) == reviews[r] # NoReview /\ reviews[r].status # "RETURNED"

IsAccepted(r) == reviews[r] # NoReview /\ reviews[r].status = "ACCEPTED_PROTOTYPE"

\* The latest geometry of o carries an accepted prototype decision.
Accepted(o) == \E r \in ReviewIds : /\ IsAccepted(r)
                                    /\ reviews[r].object = o
                                    /\ reviews[r].version = ver[o]

\* Slip: = for #, the cases accepted on the parcel itself.
OwnRegistered(p) == {r \in ReviewIds : IsAccepted(r) /\ RootOf[reviews[r].object] = p}

\* Review cases on other parcels that are accepted.
Registered(p) == {r \in ReviewIds : IsAccepted(r) /\ RootOf[reviews[r].object] # p}

\* Slip: only what is recorded on the parcel's own spaces.
FactsHeldOn(p) == {f \in facts : RootOf[f[2]] = p}

\* Rights held on or scoped to a space of the parcel, every scope of those
\* rights, and the relationships with one end in the parcel.
FactsOf(p) ==
    LET touches(o) == RootOf[o] = p
        held(o) == \/ touches(o)
                   \/ \E s \in Objects : <<"SCOPE", o, s>> \in facts /\ touches(s)
    IN {f \in facts : IF f[1] = "RELATION" THEN touches(f[2]) \/ touches(f[3])
                                           ELSE held(f[2])}

\* Slip: the lifecycles without the geometries.
LivesOf(p) ==
    [current    |-> [o \in Objects |-> 0],
     objects    |-> [o \in Objects |-> IF RootOf[o] = p THEN life[o] ELSE "ABSENT"],
     facts      |-> FactsOf(p),
     registered |-> Registered(p)]

Snapshot(p) ==
    [current    |-> [o \in Objects |-> IF o \in Current(p) THEN ver[o] ELSE 0],
     objects    |-> [o \in Objects |-> IF RootOf[o] = p THEN life[o] ELSE "ABSENT"],
     facts      |-> FactsOf(p),
     registered |-> Registered(p)]

-----------------------------------------------------------------------------
(* The blocking rules (severity ERROR or CRITICAL) of one geometry.        *)

HeightRequired(o) == KindOf[o] # "PARCEL" /\ ~HasHeight(vol[o])

ParentGeometryMissing(o) == ParentOf[o] # NoObject /\ ~Mapped(ParentOf[o])

ParentMapped(o) == ParentOf[o] # NoObject /\ Mapped(ParentOf[o])

\* Easements and infrastructure may leave their parent: a warning only.
MustStayInside(o) == KindOf[o] \notin {"EASEMENT", "INFRASTRUCTURE"}

OutsideParent(o) ==
    /\ ParentMapped(o) /\ MustStayInside(o)
    /\ ~(vol[o].foot \subseteq vol[ParentOf[o]].foot)

OutsideParentHeight(o) ==
    LET parent == vol[ParentOf[o]]
    IN /\ ParentMapped(o) /\ HasHeight(vol[o]) /\ HasHeight(parent)
       /\ \/ vol[o].datum # parent.datum          \* VERTICAL_REFERENCE_MISMATCH
          \/ ~(vol[o].levels \subseteq parent.levels)

OutsideParentParcel(o) ==
    /\ KindOf[o] # "PARCEL" /\ MustStayInside(o) /\ Mapped(RootOf[o])
    /\ ~(vol[o].foot \subseteq vol[RootOf[o]].foot)

\* INCOMPARABLE_NEIGHBOUR and EXCLUSIVE_VOLUME_OVERLAP.
ExclusiveConflict(o) ==
    /\ KindOf[o] = "UNIT" /\ HasHeight(vol[o])
    /\ \E n \in Current(RootOf[o]) \ {o} :
          /\ KindOf[n] = "UNIT"
          /\ Incomparable(vol[o], vol[n]) \/ Penetrates(vol[o], vol[n])

SupersededObject(o) == life[o] # "ACTIVE"

VerticalExtentLimit(o) == HasHeight(vol[o]) /\ Cardinality(vol[o].levels) > MaxExtent

\* Only a floor whose job asked for a complete partition.
PartitionNotComparable(o, complete) ==
    /\ KindOf[o] = "FLOOR" /\ complete
    /\ \/ ~HasHeight(vol[o])
       \/ \E c \in Current(RootOf[o]) :
             /\ ParentOf[c] = o /\ KindOf[c] \in {"UNIT", "SHARED"}
             /\ vol[c].levels # vol[o].levels \/ vol[c].datum # vol[o].datum

Exclusive == {"UNIT", "UNDERGROUND", "INFRASTRUCTURE"}

\* REGISTERED_REFERENCE_MISMATCH and REGISTERED_VOLUME_PENETRATION: accepted
\* spaces of other parcels, while they are active and not yet re-versioned.
RegisteredConflict(o) ==
    /\ KindOf[o] \in Exclusive /\ HasHeight(vol[o])
    /\ \E n \in Objects :
          /\ RootOf[n] # RootOf[o] /\ life[n] = "ACTIVE" /\ Accepted(n)
          /\ Incomparable(vol[o], vol[n]) \/ Penetrates(vol[o], vol[n])

Blocked(o, complete) ==
    \/ HeightRequired(o)
    \/ ParentGeometryMissing(o)
    \/ OutsideParent(o)
    \/ OutsideParentHeight(o)
    \/ OutsideParentParcel(o)
    \/ ExclusiveConflict(o)
    \/ SupersededObject(o)
    \/ VerticalExtentLimit(o)
    \/ PartitionNotComparable(o, complete)
    \/ RegisteredConflict(o)

-----------------------------------------------------------------------------
\* Slip: an event about an old geometry is shown on the current one.
TransitionOfAny(o, v, state) ==
    /\ last' = [last EXCEPT ![o] = state]
    /\ shown' = [shown EXCEPT ![o] = state]

(* A workflow event: before_state is the object's previous event, whatever *)
(* geometry that event was about.                                          *)
Transition(o, v, state) ==
    /\ last' = [last EXCEPT ![o] = state]
    /\ shown' = IF v = ver[o] THEN [shown EXCEPT ![o] = state] ELSE shown

\* require_validation: the geometry is the latest, the job completed for it
\* and passed, and the parcel is still what the job saw.
CompletedFor(j, o, v) ==
    /\ jobs[j] # NoJob
    /\ jobs[j].status = "COMPLETED"
    /\ jobs[j].object = o /\ jobs[j].version = v

\* Slip: a validation is good for as long as its geometry is the latest.
SameVersionOnly(j) == jobs[j].version = ver[jobs[j].object]

Fresh(j) == jobs[j].snapshot = Snapshot(RootOf[jobs[j].object])

RequireValidation(j, o, v) ==
    /\ v = ver[o]
    /\ CompletedFor(j, o, v)
    /\ jobs[j].passed
    /\ Fresh(j)

-----------------------------------------------------------------------------
CreateObject(o) ==
    /\ life[o] = "ABSENT"
    /\ ParentOf[o] = NoObject \/ life[ParentOf[o]] # "ABSENT"
    /\ life' = [life EXCEPT ![o] = "ACTIVE"]
    /\ UNCHANGED <<ver, vol, evidence, facts, ident, jobs, lastDone, reviews,
                   changes, ledger>>

\* create_geometry's own checks; REPLACE, SPLIT and MERGE go through it too.
Recordable(o, g) == /\ ver[o] < MaxVersion
                    /\ KindOf[o] = "PARCEL" => ~HasHeight(g)

CreateGeometry(o, g) ==
    /\ life[o] = "ACTIVE"
    /\ Recordable(o, g)
    /\ ver' = [ver EXCEPT ![o] = @ + 1]
    /\ vol' = [vol EXCEPT ![o] = g]
    /\ last' = [last EXCEPT ![o] = "DRAFT"]
    /\ shown' = [shown EXCEPT ![o] = "DRAFT"]
    /\ UNCHANGED <<life, evidence, facts, ident, jobs, lastDone, reviews, changes>>

AttachEvidence(o) ==
    /\ life[o] # "ABSENT" /\ o \notin evidence
    /\ evidence' = evidence \cup {o}
    /\ UNCHANGED <<spatial, facts, ident, jobs, lastDone, reviews, ledger>>

RecordFact(f) ==
    /\ f \notin facts /\ Cardinality(facts) < MaxFacts
    /\ facts' = facts \cup {f}
    /\ UNCHANGED <<spatial, evidence, ident, jobs, lastDone, reviews, ledger>>

RecordRight(o) == life[o] # "ABSENT" /\ o \in evidence /\ RecordFact(<<"RIGHT", o, o>>)

AddScope(o, s) ==
    /\ o # s /\ life[s] # "ABSENT"
    /\ <<"RIGHT", o, o>> \in facts
    /\ RecordFact(<<"SCOPE", o, s>>)

RecordRelationship(a, b) ==
    /\ life[a] # "ABSENT" /\ life[b] # "ABSENT"
    /\ a \in evidence \/ b \in evidence
    /\ RecordFact(<<"RELATION", a, b>>)

-----------------------------------------------------------------------------
\* Queue a validation of any recorded version: the object's page asks for the
\* latest, the processing endpoint takes a geometry id.
EnqueueValidation(j, o, v, complete) ==
    /\ jobs[j] = NoJob
    /\ v \in 1 .. ver[o]
    /\ jobs' = [jobs EXCEPT ![j] =
          [object |-> o, version |-> v, complete |-> complete,
           status |-> "QUEUED", passed |-> FALSE, snapshot |-> NoSnapshot]]
    /\ UNCHANGED <<spatial, evidence, facts, ident, lastDone, reviews, ledger>>

\* The worker's transaction: the rules are evaluated, the snapshot taken, two
\* workflow events appended (VALIDATION, then the outcome) and the job completed.
ValidatePrism(j) ==
    LET o == jobs[j].object
        passed == ~Blocked(o, jobs[j].complete)
    IN /\ jobs[j] # NoJob /\ jobs[j].status = "QUEUED"
       /\ jobs[j].version = ver[o]
       /\ jobs' = [jobs EXCEPT ![j].status = "COMPLETED",
                               ![j].passed = passed,
                               ![j].snapshot = Snapshot(RootOf[o])]
       /\ lastDone' = [lastDone EXCEPT ![o] = j]
       /\ Transition(o, ver[o], IF passed THEN "VALIDATED" ELSE "CORRECTION_REQUIRED")
       /\ UNCHANGED <<spatial, evidence, facts, ident, reviews>>

\* "Validation requested for a superseded geometry version".
RejectStaleValidation(j) ==
    /\ jobs[j] # NoJob /\ jobs[j].status = "QUEUED"
    /\ jobs[j].version # ver[jobs[j].object]
    /\ jobs' = [jobs EXCEPT ![j].status = "FAILED"]
    /\ UNCHANGED <<spatial, evidence, facts, ident, lastDone, reviews, ledger>>

IdentityKinds == Kinds \ {"PARCEL", "FLOOR"}

IssueIdentity(o) ==
    /\ KindOf[o] \in IdentityKinds
    /\ Mapped(o)
    /\ lastDone[o] # NoJob /\ RequireValidation(lastDone[o], o, ver[o])
    /\ HasHeight(vol[o])
    /\ ident' = ident \cup {<<o, ver[o]>>}
    /\ UNCHANGED <<spatial, evidence, facts, jobs, lastDone, reviews, ledger>>

SubmitReview(r, o, j, actor) ==
    /\ reviews[r] = NoReview
    /\ Mapped(o)
    /\ RequireValidation(j, o, ver[o])
    /\ o \in evidence
    /\ <<o, ver[o]>> \in ident
    \* UNIQUE (geometry_id, validation_job_id)
    /\ \A q \in ReviewIds : reviews[q] # NoReview => reviews[q].job # j
    /\ reviews' = [reviews EXCEPT ![r] =
          [object |-> o, version |-> ver[o], job |-> j, submitter |-> actor,
           status |-> "SUBMITTED"]]
    /\ Transition(o, ver[o], "REVIEW")
    /\ UNCHANGED <<spatial, evidence, facts, ident, jobs, lastDone>>

Decidable(r, actor) ==
    /\ reviews[r] # NoReview
    /\ reviews[r].status = "SUBMITTED"
    /\ reviews[r].submitter # actor

AcceptReview(r, actor) ==
    LET o == reviews[r].object
        v == reviews[r].version
    IN /\ Decidable(r, actor)
       /\ RequireValidation(reviews[r].job, o, v)
       /\ reviews' = [reviews EXCEPT ![r].status = "ACCEPTED_PROTOTYPE"]
       /\ Transition(o, v, "ACCEPTED")
       /\ UNCHANGED <<spatial, evidence, facts, ident, jobs, lastDone>>

\* A return needs neither a current geometry nor a fresh validation.
ReturnReview(r, actor) ==
    /\ Decidable(r, actor)
    /\ reviews' = [reviews EXCEPT ![r].status = "RETURNED"]
    /\ Transition(reviews[r].object, reviews[r].version, "CORRECTION_REQUIRED")
    /\ UNCHANGED <<spatial, evidence, facts, ident, jobs, lastDone>>

-----------------------------------------------------------------------------
\* Slip: the inputs' lifecycle is not looked at.
ChangeableInAnyLife(ins) ==
    /\ \A o \in ins : KindOf[o] = "UNIT" /\ Mapped(o) /\ HasHeight(vol[o])
    /\ \A a, b \in ins : /\ ParentOf[a] = ParentOf[b]
                         /\ vol[a].levels = vol[b].levels
                         /\ vol[a].datum = vol[b].datum
    /\ ins \cap evidence # {}

(* change_property: inputs are active units of one floor with one vertical *)
(* extent, evidence is attached to one of them.                            *)
Changeable(ins) ==
    /\ \A o \in ins : KindOf[o] = "UNIT" /\ life[o] = "ACTIVE" /\ Mapped(o)
    /\ \A a, b \in ins : /\ ParentOf[a] = ParentOf[b]
                         /\ vol[a].levels = vol[b].levels
                         /\ vol[a].datum = vol[b].datum
    /\ \A o \in ins : HasHeight(vol[o])
    /\ ins \cap evidence # {}

\* Slip: the columns of a change member swapped.
SwappedMember(o, v) == <<v, o>>

Member(o, v) == <<o, v>>

\* The same object receives a corrected geometry.  The caller names the
\* version it saw; a change made since is refused.
ReplaceGeometry(o, expected, g) ==
    /\ Changeable({o})
    /\ expected = ver[o]
    /\ Recordable(o, g)
    /\ ver' = [ver EXCEPT ![o] = @ + 1]
    /\ vol' = [vol EXCEPT ![o] = g]
    /\ changes' = changes \cup {[operation |-> "REPLACE",
                                 before |-> {Member(o, ver[o])},
                                 after |-> {Member(o, ver[o] + 1)}]}
    /\ last' = [last EXCEPT ![o] = "DRAFT"]
    /\ shown' = [shown EXCEPT ![o] = "DRAFT"]
    /\ UNCHANGED <<life, evidence, facts, ident, jobs, lastDone, reviews>>

\* New objects on the same floor take over exactly the ground of the inputs,
\* which are superseded; rights are not transferred.
Conserves(ins, out) ==
    /\ \A o \in DOMAIN out : \A i \in ins : /\ out[o].levels = vol[i].levels
                                            /\ out[o].datum = vol[i].datum
    /\ \A a, b \in DOMAIN out : a # b => ~Meets(out[a], out[b])
    /\ UNION {out[o].foot : o \in DOMAIN out} = UNION {vol[i].foot : i \in ins}

Repartition(operation, ins, expected, out) ==
    LET outs == DOMAIN out
    IN /\ Changeable(ins)
       /\ \A i \in ins : expected[i] = ver[i]
       /\ Conserves(ins, out)
       /\ \A o \in outs : /\ life[o] = "ABSENT" /\ KindOf[o] = "UNIT"
                          /\ Recordable(o, out[o])
                          /\ \A i \in ins : ParentOf[o] = ParentOf[i]
       /\ life' = [o \in Objects |-> IF o \in ins THEN "SUPERSEDED"
                                     ELSE IF o \in outs THEN "ACTIVE" ELSE life[o]]
       /\ ver' = [o \in Objects |-> IF o \in outs THEN ver[o] + 1 ELSE ver[o]]
       /\ vol' = [o \in Objects |-> IF o \in outs THEN out[o] ELSE vol[o]]
       \* PREDECESSOR relationships
       /\ facts' = facts \cup {<<"RELATION", o, i>> : o \in outs, i \in ins}
       /\ changes' = changes \cup {[operation |-> operation,
                                    before |-> {Member(i, ver[i]) : i \in ins},
                                    after |-> {Member(o, ver[o] + 1) : o \in outs}]}
       /\ last' = [o \in Objects |-> IF o \in outs THEN "DRAFT" ELSE last[o]]
       /\ shown' = [o \in Objects |-> IF o \in outs THEN "DRAFT" ELSE shown[o]]
       /\ UNCHANGED <<evidence, ident, jobs, lastDone, reviews>>

Split(i, expected, out) ==
    /\ Cardinality(DOMAIN out) >= 2
    /\ Repartition("SPLIT", {i}, expected, out)

Merge(ins, expected, out) ==
    /\ Cardinality(ins) >= 2 /\ Cardinality(DOMAIN out) = 1
    /\ Repartition("MERGE", ins, expected, out)

-----------------------------------------------------------------------------
(* Everything below is asked for by independent users and by the worker,   *)
(* in any order.                                                           *)

EditObject ==
    \E o \in Edited :
        \/ CreateObject(o)
        \/ o \in Documented /\ AttachEvidence(o)
        \/ \E g \in Volumes : CreateGeometry(o, g)

RecordAssertion ==
    \E o \in Edited \cap Asserted :
        \/ RecordRight(o)
        \/ \E s \in Edited : AddScope(o, s) \/ RecordRelationship(o, s)

Validate ==
    \/ \E j \in JobIds, o \in Edited, v \in 1 .. MaxVersion, complete \in BOOLEAN :
          /\ complete => KindOf[o] = "FLOOR"
          /\ EnqueueValidation(j, o, v, complete)
    \/ \E j \in JobIds : ValidatePrism(j) \/ RejectStaleValidation(j)

Review ==
    \/ \E o \in Edited : IssueIdentity(o)
    \/ \E r \in ReviewIds, o \in Edited, j \in JobIds, actor \in Submitters :
          SubmitReview(r, o, j, actor)
    \/ \E r \in ReviewIds, actor \in Deciders :
          AcceptReview(r, actor) \/ ReturnReview(r, actor)

Versions == 1 .. MaxVersion

Replacement ==
    \E o \in Edited, v \in Versions, g \in Volumes : ReplaceGeometry(o, v, g)

Division ==
    \E i \in Edited : \E outs \in SUBSET (Edited \ {i}) :
        \E v \in Versions, out \in [outs -> Volumes] : Split(i, [x \in {i} |-> v], out)

Merger ==
    \E ins \in SUBSET Edited : \E o \in Edited \ ins :
        \E expected \in [ins -> Versions], g \in Volumes :
            Merge(ins, expected, [x \in {o} |-> g])

ChangeProperty == Replacement \/ Division \/ Merger

Next == EditObject \/ RecordAssertion \/ Validate \/ Review \/ ChangeProperty

Spec == Init /\ [][Next]_vars

-----------------------------------------------------------------------------
(* Two active spaces are rivals when the rules hold them exclusive: units  *)
(* of one parcel, and units, underground spaces and infrastructure across  *)
(* parcels.                                                                *)
Rivals(a, b) ==
    IF RootOf[a] = RootOf[b] THEN KindOf[a] = "UNIT" /\ KindOf[b] = "UNIT"
                             ELSE KindOf[a] \in Exclusive /\ KindOf[b] \in Exclusive

\* The register of accepted prototype decisions never holds two rivals that
\* claim the same ground at the same or at incomparable heights, whatever was
\* drawn, re-validated, split or accepted in whatever order on either parcel
\* between a validation and the decision that consumes it.
AcceptedDisjoint ==
    \A a, b \in Objects :
        /\ a # b /\ Rivals(a, b)
        /\ life[a] = "ACTIVE" /\ Accepted(a)
        /\ life[b] = "ACTIVE" /\ Accepted(b)
        => ~Clash(vol[a], vol[b])

\* The snapshot is a sufficient cache key: while a passing validation of the
\* latest geometry still compares equal to the parcel, running every blocking
\* rule again, now, finds nothing - although the rules also read rows of other
\* parcels that the snapshot does not contain.
FreshMeansValid ==
    \A j \in JobIds :
        /\ jobs[j] # NoJob
        /\ RequireValidation(j, jobs[j].object, jobs[j].version)
        => ~Blocked(jobs[j].object, jobs[j].complete)

\* What the ledger shows for the current geometry is what the tables hold:
\* a DRAFT has no completed validation and no case, VALIDATED and
\* CORRECTION_REQUIRED have the job or the return that says so, REVIEW has a
\* pending case and ACCEPTED an accepted one.
ShownStateIsBacked ==
    \A o \in Objects :
        LET done(passed) == \E j \in JobIds : /\ CompletedFor(j, o, ver[o])
                                              /\ jobs[j].passed = passed
            case(status) == \E r \in ReviewIds : /\ reviews[r] # NoReview
                                                 /\ reviews[r].object = o
                                                 /\ reviews[r].version = ver[o]
                                                 /\ reviews[r].status = status
            any == {"SUBMITTED", "ACCEPTED_PROTOTYPE", "RETURNED"}
        IN CASE shown[o] = "DRAFT" ->
                  /\ ~done(TRUE) /\ ~done(FALSE)
                  /\ \A s \in any : ~case(s)
             [] shown[o] = "VALIDATED" -> done(TRUE)
             [] shown[o] = "CORRECTION_REQUIRED" -> done(FALSE) \/ case("RETURNED")
             [] shown[o] = "REVIEW" -> case("SUBMITTED")
             [] shown[o] = "ACCEPTED" -> case("ACCEPTED_PROTOTYPE")
             [] OTHER -> TRUE

\* A version is consumed by at most one change: two users who split, merge or
\* replace the same unit from the same page never both succeed.
ConsumedOnce ==
    \A c, d \in changes : c # d => c.before \cap d.before = {}

\* A superseded space never comes back to life as a result: whatever was
\* pending for it when a split or merge took it over, it gains no version, no
\* identity version and no acceptance afterwards.
SupersededIsFinal ==
    [][\A o \in Objects : life[o] = "SUPERSEDED" =>
          /\ life'[o] = "SUPERSEDED" /\ ver'[o] = ver[o]
          /\ {m \in ident' : m[1] = o} = {m \in ident : m[1] = o}
          /\ \A r \in ReviewIds :
                /\ reviews'[r] # NoReview /\ reviews'[r].object = o
                /\ reviews'[r].status = "ACCEPTED_PROTOTYPE"
                => reviews'[r] = reviews[r]]_vars

\* "Changed records require revalidation before review" (PHASE_4_REPORT.md):
\* every right, scope or relationship with an end in the parcel is one that
\* the validation behind a new acceptance has seen.
AcceptedKnowingAssertions ==
    [][\A r \in ReviewIds :
          /\ reviews'[r] # reviews[r]
          /\ reviews'[r].status = "ACCEPTED_PROTOTYPE"
          => LET p == RootOf[reviews'[r].object]
             IN \A f \in facts : RootOf[f[2]] = p \/ RootOf[f[3]] = p
                   => f \in jobs[reviews'[r].job].snapshot.facts]_vars

\* No ABA: a completed validation whose snapshot differs from the parcel can
\* never compare equal to it again, so a case that has become stale can only
\* be returned.
StaleForever ==
    [][\A j \in JobIds :
          /\ jobs[j] # NoJob /\ jobs[j].status = "COMPLETED" /\ ~Fresh(j)
          => ~Fresh(j)']_vars
=============================================================================
