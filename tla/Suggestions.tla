----------------------------- MODULE Suggestions -----------------------------
(***************************************************************************)
(* Processing sources, assistive jobs, the suggestions and heights they    *)
(* yield, the human decisions on suggestions, and floor levels             *)
(* (backend/app/services/pipeline.py with pipeline_schemas.py, and the     *)
(* generic endpoints that create objects and geometry beside them).        *)
(*                                                                         *)
(* Requests and jobs are transactions.  adopt_suggestion, create_floor_    *)
(* levels, create_object and create_geometry run under the advisory lock;  *)
(* jobs and heights do not, but only insert rows of their own.  Parents of *)
(* suggestions are parcels and floors, which no change ever supersedes.    *)
(***************************************************************************)
EXTENDS Planes

CONSTANTS
    Given,        \* rows of the objects mapped initially
    Datasets,     \* ids of source files
    Synthetic,    \* the sources registered as synthetic
    JobIds,       \* ids of assistive jobs
    Numbers,      \* bound of the model: numbers of suggestions in a job
    FloorNumbers, \* bound of the model: floor numbers
    Elevations,   \* bound of the model: elevations
    Requests,     \* bound of the model: the processing requests users make
    Edited,       \* bound of the model: given objects that users draw on
    MaxDrawn,     \* bound of the model: geometry versions beside the given
    MaxHeights,   \* bound of the model: height observations
    NoObject, NoDataset, NoJob

Kinds == {"PARCEL", "BUILDING", "FLOOR", "UNIT", "SHARED"}

\* Ids are uuid5 names of what founded the object, or arbitrary.
SuggestedId(parent, kind, n) == <<"suggestion", parent, kind, n>>
FloorId(building, n) == <<"floor", building, n>>
ManualId(building, n) == <<"manual", building, n>>

GivenIds == {o.id : o \in Given}

Ids == GivenIds
       \cup {SuggestedId(o, k, n) : o \in GivenIds, k \in {"BUILDING", "UNIT"}, n \in Numbers}
       \cup {FloorId(o, n) : o \in GivenIds, n \in FloorNumbers}
       \cup {ManualId(o, n) : o \in GivenIds, n \in FloorNumbers}

ObjectRows == [id : Ids, kind : Kinds, parent : Ids \cup {NoObject},
               synthetic : BOOLEAN, number : FloorNumbers \cup {0}]

\* Ids are keys, and parents are rows.
ASSUME GivenShape ==
    /\ Given \subseteq ObjectRows /\ Edited \subseteq GivenIds
    /\ IsFiniteSet(Given) /\ NoObject \notin Ids
    /\ \A a, b \in Given : a.id = b.id => a = b
    /\ \A a \in Given : a.parent \in GivenIds \cup {NoObject}
    /\ \A a, b \in Given : a.parent = b.id => a.synthetic = b.synthetic

ASSUME SourceShape ==
    /\ Synthetic \subseteq Datasets /\ NoDataset \notin Datasets
    /\ Numbers \subseteq Nat \ {0} /\ FloorNumbers \subseteq Nat \ {0}
    /\ Elevations \subseteq Nat /\ MaxDrawn \in Nat /\ MaxHeights \in Nat

\* The given objects can be drawn: see Whole.
ASSUME ElevationShape ==
    \E low, top \in Elevations : /\ low + 1 \in Elevations
                                 /\ \A x \in Elevations : low <= x /\ x <= top

\* A vertical extent, z_min below z_max.
Bounds == {z \in [lo : Elevations, hi : Elevations] : z.lo < z.hi}

Categories == {"MANUAL", "DERIVED", "AI_ESTIMATE", "SURVEY", "APPROVED_PLAN"}

-----------------------------------------------------------------------------
VARIABLES
    objects,      \* rows of spatial_objects
    geometries,   \* rows of geometry_versions
    sources,      \* status of each source, NONE before its upload
    jobs,         \* rows of processing_jobs
    suggestions,  \* rows of spatial_suggestions
    decisions,    \* rows of suggestion_decisions
    heights       \* rows of height_observations

vars == <<objects, geometries, sources, jobs, suggestions, decisions, heights>>

\* READY stands for the EVIDENCE_ONLY sources too, which serve alike.
JobKinds == {"SUGGEST_BUILDINGS", "SUGGEST_UNITS", "ESTIMATE_HEIGHT", "SUGGEST_LEVELS"}

Jobs == [kind : JobKinds, object : Ids, dataset : Datasets,
         second : Datasets \cup {NoDataset},
         status : {"QUEUED", "COMPLETED", "FAILED"}]

\* Requests name objects and sources, as the request's schema has it.
ASSUME RequestShape ==
    Requests \subseteq [kind : JobKinds, object : GivenIds, dataset : Datasets,
                       second : Datasets \cup {NoDataset}]

SuggestionRows == [job : JobIds, kind : {"BUILDING", "UNIT"}, number : Numbers,
                   parent : Ids, dataset : Datasets, synthetic : BOOLEAN]

Geometries == [object : Ids, version : Nat \ {0}, z : Bounds,
               dataset : Datasets \cup {NoDataset}, category : Categories]

TypeOK ==
    /\ objects \subseteq ObjectRows
    /\ geometries \subseteq Geometries
    /\ sources \in [Datasets -> {"NONE", "READY", "REJECTED"}]
    /\ jobs \in [JobIds -> Jobs \cup {NoJob}]
    /\ suggestions \subseteq SuggestionRows
    /\ decisions \subseteq [suggestion : SuggestionRows, object : Ids \cup {NoObject}]
    /\ heights \subseteq [object : Ids, dataset : Datasets,
                          second : Datasets \cup {NoDataset}]

\* The given objects are mapped from the lowest to the highest elevation, a
\* given floor up to the first level above it.
Whole(kind) ==
    CHOOSE z \in Bounds :
        /\ \A x \in Elevations : z.lo <= x
        /\ IF kind = "FLOOR" THEN z.hi = z.lo + 1 ELSE \A x \in Elevations : x <= z.hi

Init ==
    /\ objects = Given
    /\ geometries = {[object |-> o.id, version |-> 1, z |-> Whole(o.kind),
                      dataset |-> NoDataset, category |-> "MANUAL"] : o \in Given}
    /\ sources = [d \in Datasets |-> "NONE"]
    /\ jobs = [j \in JobIds |-> NoJob]
    /\ suggestions = {} /\ decisions = {} /\ heights = {}

-----------------------------------------------------------------------------
(* Reading rows.                                                           *)

Row(id) == CHOOSE o \in objects : o.id = id

Versions(id) == {g \in geometries : g.object = id}

Latest(id) == CHOOSE g \in Versions(id) : \A h \in Versions(id) : h.version <= g.version

Usable(d) == sources[d] = "READY"

SameDesignation(d, o) == (d \in Synthetic) = o.synthetic

(* Registering a source: inspected, or kept with the reason of its refusal. *)
Register(d) ==
    /\ sources[d] = "NONE"
    /\ \E s \in {"READY", "REJECTED"} : sources' = [sources EXCEPT ![d] = s]
    /\ UNCHANGED <<objects, geometries, jobs, suggestions, decisions, heights>>

-----------------------------------------------------------------------------
(* Creating objects and geometry: services shared by all the operations.   *)

\* Slip: a row that exists is taken for the one to create.
Reuse(o) == TRUE

\* The primary key.
NewId(o) == \A x \in objects : x.id # o.id

PARENTS == [BUILDING |-> {"PARCEL"}, FLOOR |-> {"BUILDING"}, UNIT |-> {"FLOOR"},
            SHARED |-> {"PARCEL", "BUILDING", "FLOOR"}]

Creatable(o) ==
    /\ NewId(o)
    /\ Row(o.parent).kind \in PARENTS[o.kind]
    /\ Row(o.parent).synthetic = o.synthetic

\* A geometry from a source needs a usable one of the same designation;
\* without a source it is MANUAL.
Sourced(o, d, category) ==
    IF d = NoDataset THEN category = "MANUAL" ELSE Usable(d) /\ SameDesignation(d, o)

\* Slip: versions are counted from zero.
GeometryFromZero(id, z, d, category) ==
    [object |-> id, version |-> Cardinality(Versions(id)), z |-> z,
     dataset |-> d, category |-> category]

Geometry(id, z, d, category) ==
    [object |-> id, version |-> Cardinality(Versions(id)) + 1, z |-> z,
     dataset |-> d, category |-> category]

\* Bound of the model.
MayDraw(n) == Cardinality(geometries) + n <= Cardinality(Given) + MaxDrawn

\* POST /objects for a further floor; its number is not compared with others.
CreateFloor(b, n) ==
    LET o == [id |-> ManualId(b.id, n), kind |-> "FLOOR", parent |-> b.id,
              synthetic |-> b.synthetic, number |-> n]
    IN /\ b.kind = "BUILDING" /\ Creatable(o)
       /\ objects' = objects \cup {o}
       /\ UNCHANGED <<geometries, sources, jobs, suggestions, decisions, heights>>

\* POST /objects/{id}/geometry.
CreateGeometry(o, z, d, category) ==
    /\ MayDraw(1)
    /\ o.kind # "PARCEL" /\ Sourced(o, d, category)
    /\ geometries' = geometries \cup {Geometry(o.id, z, d, category)}
    /\ UNCHANGED <<objects, sources, jobs, suggestions, decisions, heights>>

-----------------------------------------------------------------------------
(* Assistive jobs.                                                         *)

\* Slip: the second source of a request is not looked at.
FirstSource(d, second) == {d}

Requested(d, second) == {d, second} \ {NoDataset}

QueueProcessing(j, kind, o, d, second) ==
    /\ jobs[j] = NoJob
    /\ kind = "ESTIMATE_HEIGHT" => second # NoDataset
    /\ \A x \in Requested(d, second) : Usable(x) /\ SameDesignation(x, o)
    /\ jobs' = [jobs EXCEPT ![j] = [kind |-> kind, object |-> o.id, dataset |-> d,
                                    second |-> second, status |-> "QUEUED"]]
    /\ UNCHANGED <<objects, geometries, sources, suggestions, decisions, heights>>

Ended(j, status) == jobs' = [jobs EXCEPT ![j].status = status]

\* The kind of object each kind of job works on.
Targets == [SUGGEST_BUILDINGS |-> "PARCEL", SUGGEST_UNITS |-> "FLOOR",
            ESTIMATE_HEIGHT |-> "BUILDING"]

\* The primary source is looked at again when the job runs, the second one
\* for its status alone.
Processable(j) ==
    LET job == jobs[j]
    IN /\ Versions(job.object) # {}
       /\ job.kind \in DOMAIN Targets => Row(job.object).kind = Targets[job.kind]
       /\ Usable(job.dataset) /\ SameDesignation(job.dataset, Row(job.object))
       /\ job.second # NoDataset => Usable(job.second)

EstimateHeight(j) ==
    LET job == jobs[j]
    IN /\ job # NoJob /\ job.kind = "ESTIMATE_HEIGHT" /\ job.status = "QUEUED"
       /\ Processable(j)
       /\ Cardinality(heights) < MaxHeights
       /\ heights' = heights \cup {[object |-> job.object, dataset |-> job.dataset,
                                    second |-> job.second]}
       /\ Ended(j, "COMPLETED")
       /\ UNCHANGED <<objects, geometries, sources, suggestions, decisions>>

\* Regions are numbered in the order of their bounds; those that miss the
\* parent's footprint are skipped and leave a gap.
Suggest(j, found) ==
    LET job == jobs[j]
        kind == IF job.kind = "SUGGEST_BUILDINGS" THEN "BUILDING" ELSE "UNIT"
    IN /\ job # NoJob /\ job.status = "QUEUED"
       /\ job.kind \in {"SUGGEST_BUILDINGS", "SUGGEST_UNITS"}
       /\ Processable(j)
       /\ suggestions' = suggestions \cup
             {[job |-> j, kind |-> kind, number |-> n, parent |-> job.object,
               dataset |-> job.dataset, synthetic |-> job.dataset \in Synthetic]
              : n \in found}
       /\ Ended(j, "COMPLETED")
       /\ UNCHANGED <<objects, geometries, sources, decisions, heights>>

\* Elevation clusters of a point source: the answer of the job, no rows.
SuggestLevels(j) ==
    /\ jobs[j] # NoJob /\ jobs[j].kind = "SUGGEST_LEVELS" /\ jobs[j].status = "QUEUED"
    /\ Processable(j)
    /\ Ended(j, "COMPLETED")
    /\ UNCHANGED <<objects, geometries, sources, suggestions, decisions, heights>>

\* Any error in the handler.
ProcessingFails(j) ==
    /\ jobs[j] # NoJob /\ jobs[j].status = "QUEUED"
    /\ Ended(j, "FAILED")
    /\ UNCHANGED <<objects, geometries, sources, suggestions, decisions, heights>>

-----------------------------------------------------------------------------
(* Decisions.                                                              *)

Undecided(s) == \A d \in decisions : d.suggestion # s

Reject(s) ==
    /\ Undecided(s)
    /\ decisions' = decisions \cup {[suggestion |-> s, object |-> NoObject]}
    /\ UNCHANGED <<objects, geometries, sources, jobs, suggestions, heights>>

\* What the human confirms refers to the suggestion's source, and claims
\* neither survey nor plan.
Confirmed(s, d, category) ==
    d = s.dataset /\ category \in {"MANUAL", "DERIVED", "AI_ESTIMATE"}

\* The object is named after parent, kind and number of the suggestion: when
\* another job's suggestion of the same name was adopted, the key conflicts.
Adopt(s, target, z, d, category) ==
    LET o == [id |-> SuggestedId(s.parent, s.kind, s.number), kind |-> target,
              parent |-> s.parent, synthetic |-> s.synthetic, number |-> 0]
    IN /\ MayDraw(1)
       /\ Undecided(s)
       /\ Confirmed(s, d, category)
       /\ target # s.kind => s.kind = "UNIT" /\ target = "SHARED"
       /\ Creatable(o) /\ Sourced(o, d, category)
       /\ objects' = objects \cup {o}
       /\ geometries' = geometries \cup {Geometry(o.id, z, d, category)}
       /\ decisions' = decisions \cup {[suggestion |-> s, object |-> o.id]}
       /\ UNCHANGED <<sources, jobs, suggestions, heights>>

RecordHeight(o, d) ==
    /\ Cardinality(heights) < MaxHeights
    /\ o.kind = "BUILDING" /\ Usable(d) /\ SameDesignation(d, o)
    /\ heights' = heights \cup {[object |-> o.id, dataset |-> d, second |-> NoDataset]}
    /\ UNCHANGED <<objects, geometries, sources, jobs, suggestions, decisions>>

-----------------------------------------------------------------------------
(* Floor levels: records of a number and its bounds.                       *)

Levels == [number : FloorNumbers, z : Bounds]

\* More levels than MaxDrawn exceed that bound anyway.
LevelSets == {levels \in SUBSET Levels :
                 IsFiniteSet(levels) /\ Cardinality(levels) \in 1 .. MaxDrawn}

Overlap(y, z) == y.lo < z.hi /\ z.lo < y.hi

\* unique_levels: distinct numbers, and in the order of their elevations each
\* level ends before the next begins; only neighbours are compared.
WellFormed(levels) ==
    /\ \A a, b \in levels : a.number = b.number => a = b
    /\ \A a, b \in levels :
          /\ a # b /\ a.z.lo <= b.z.lo
          /\ ~\E c \in levels : a.z.lo < c.z.lo /\ c.z.lo < b.z.lo
          => a.z.hi <= b.z.lo

FloorsOf(id) == {o \in objects : o.parent = id /\ o.kind = "FLOOR"}

\* Slip: floors are compared in the version they were created with.
FirstFits(levels, b) ==
    \A l \in levels, o \in FloorsOf(b.id) :
        \A g \in Versions(o.id) : g.version = 1 => ~Overlap(g.z, l.z)

\* No level overlaps the latest geometry of an existing floor.
Fits(levels, b) ==
    \A l \in levels, o \in FloorsOf(b.id) :
        Versions(o.id) # {} => ~Overlap(Latest(o.id).z, l.z)

CreateFloorLevels(b, d, category, levels) ==
    LET extent == Latest(b.id).z
        row(l) == [id |-> FloorId(b.id, l.number), kind |-> "FLOOR", parent |-> b.id,
                   synthetic |-> b.synthetic, number |-> l.number]
    IN /\ b.kind = "BUILDING" /\ Versions(b.id) # {}
       /\ MayDraw(Cardinality(levels))
       /\ \A l \in levels : Creatable(row(l)) /\ Sourced(row(l), d, category)
       /\ WellFormed(levels)
       /\ {o.number : o \in FloorsOf(b.id)} \cap {l.number : l \in levels} = {}
       /\ \A l \in levels : extent.lo <= l.z.lo /\ l.z.hi <= extent.hi
       /\ Fits(levels, b)
       /\ objects' = objects \cup {row(l) : l \in levels}
       /\ geometries' = geometries \cup
             {Geometry(FloorId(b.id, l.number), l.z, d, category) : l \in levels}
       /\ UNCHANGED <<sources, jobs, suggestions, decisions, heights>>

-----------------------------------------------------------------------------
(* The inputs users and workers may choose.                                *)

Anything == Datasets \cup {NoDataset}

Draw ==
    \/ \E b \in Edited, n \in FloorNumbers : CreateFloor(Row(b), n)
    \/ \E o \in Edited, z \in Bounds, d \in Anything :
          CreateGeometry(Row(o), z, d, IF d = NoDataset THEN "MANUAL" ELSE "SURVEY")

Process ==
    \/ \E j \in JobIds, r \in Requests :
          QueueProcessing(j, r.kind, Row(r.object), r.dataset, r.second)
    \/ \E j \in JobIds : \/ EstimateHeight(j) \/ SuggestLevels(j) \/ ProcessingFails(j)
                         \/ \E found \in SUBSET Numbers : Suggest(j, found)

Decide ==
    \E s \in suggestions :
        \/ Reject(s)
        \/ \E k \in Kinds, d \in Datasets, c \in {"DERIVED", "SURVEY"} :
              Adopt(s, k, Whole("FLOOR"), d, c)

Floors ==
    \E b \in Edited, d \in Datasets, levels \in LevelSets :
        CreateFloorLevels(Row(b), d, "APPROVED_PLAN", levels)

Next == \/ \E d \in Datasets : Register(d) \/ \E o \in Given : RecordHeight(o, d)
        \/ Draw \/ Process \/ Decide \/ Floors

Spec == Init /\ [][Next]_vars

-----------------------------------------------------------------------------
\* Synthetic and real data are never mixed: not between an object and its
\* parent, the source of any of its geometries, either source of a height, or
\* a suggestion it came from - each link being checked by another operation,
\* some when the job is queued and some when it runs.
DesignationNeverMixed ==
    /\ \A o, x \in objects : o.parent = x.id => o.synthetic = x.synthetic
    /\ \A g \in geometries : g.dataset # NoDataset => SameDesignation(g.dataset, Row(g.object))
    /\ \A h \in heights : \A d \in {h.dataset, h.second} \ {NoDataset} :
          SameDesignation(d, Row(h.object))
    /\ \A s \in suggestions : /\ s.synthetic = Row(s.parent).synthetic
                              /\ s.synthetic = (s.dataset \in Synthetic)

\* An adopted object has one founding suggestion, whichever jobs suggested the
\* same name for the same parent, and its first geometry refers to that
\* suggestion's source and claims no verification; a suggestion is decided
\* once.
AdoptionIsTraceable ==
    /\ \A d, e \in decisions : d.suggestion = e.suggestion => d = e
    /\ \A d, e \in decisions : d.object = e.object /\ d.object # NoObject => d = e
    /\ \A d \in decisions : d.object # NoObject =>
          \E g \in geometries :
              /\ g.object = d.object /\ g.version = 1
              /\ g.dataset = d.suggestion.dataset
              /\ g.category \notin {"SURVEY", "APPROVED_PLAN"}

\* Whatever points its source holds, a SUGGEST_LEVELS job that completes has
\* clustered them by density, also when elevations are exactly the tolerance
\* apart.
LevelsAreDensityClusters ==
    \A j \in JobIds :
        /\ jobs[j] # NoJob
        /\ jobs[j].kind = "SUGGEST_LEVELS" /\ jobs[j].status = "COMPLETED"
        => LabelsAreExact

\* The floors a request creates lie inside the building, apart from each other
\* and from every floor the building has, as those are drawn by then, and
\* their numbers are their own - though the request compares neighbours only
\* and other endpoints draw floors without any comparison.
NewFloorsDisjoint ==
    [][\A o \in objects' \ objects : o.id[1] = "floor" =>
          LET drawn(id) == {g \in geometries' : g.object = id}
              now(id) == CHOOSE g \in drawn(id) : \A h \in drawn(id) : h.version <= g.version
              siblings == {x \in objects' : x.kind = "FLOOR" /\ x.parent = o.parent /\ x # o}
          IN /\ \A x \in siblings : x.number # o.number
             /\ \A x \in siblings : drawn(x.id) # {} => ~Overlap(now(x.id).z, now(o.id).z)
             /\ now(o.parent).z.lo <= now(o.id).z.lo
             /\ now(o.id).z.hi <= now(o.parent).z.hi]_vars
=============================================================================
