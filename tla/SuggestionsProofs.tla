-------------------------- MODULE SuggestionsProofs --------------------------
(***************************************************************************)
(* Theorems about Suggestions: its rows are well typed, synthetic and real *)
(* data stay apart, an adoption can be traced, and the floors one request  *)
(* creates are disjoint from each other and from those that exist.         *)
(*                                                                         *)
(* The inductive invariant has one part per table.  All rest on ObjectInv: *)
(* ids are keys, parents are rows, and rows are only ever added, so that   *)
(* what one operation checked of a row still holds of it when another uses *)
(* the reference (Grown).                                                  *)
(***************************************************************************)
EXTENDS Suggestions, FiniteSetTheorems, WellFoundedInduction, TLAPS

Names == {o.id : o \in objects}

ObjectInv ==
    /\ objects \subseteq ObjectRows
    /\ Given \subseteq objects
    /\ \A a, b \in objects : a.id = b.id => a = b
    /\ \A a \in objects : a.parent \in Names \cup {NoObject}
    /\ \A a, b \in objects : a.parent = b.id => a.synthetic = b.synthetic

SourceInv == sources \in [Datasets -> {"NONE", "READY", "REJECTED"}]

GeometryInv ==
    /\ geometries \subseteq Geometries /\ IsFiniteSet(geometries)
    /\ \A g \in geometries :
          /\ g.object \in Names
          /\ g.dataset # NoDataset => SameDesignation(g.dataset, Row(g.object))

\* What a request was checked for is still so when its job runs.
JobInv ==
    /\ jobs \in [JobIds -> Jobs \cup {NoJob}]
    /\ \A j \in JobIds : jobs[j] # NoJob =>
          /\ jobs[j].object \in GivenIds
          /\ \A d \in Requested(jobs[j].dataset, jobs[j].second) :
                SameDesignation(d, Row(jobs[j].object))

SuggestionInv ==
    /\ suggestions \subseteq SuggestionRows
    /\ \A s \in suggestions : /\ s.parent \in GivenIds
                              /\ s.synthetic = Row(s.parent).synthetic
                              /\ s.synthetic = (s.dataset \in Synthetic)

HeightInv ==
    /\ heights \subseteq [object : Ids, dataset : Datasets,
                          second : Datasets \cup {NoDataset}]
    /\ \A h \in heights :
          /\ h.object \in GivenIds
          /\ \A d \in Requested(h.dataset, h.second) : SameDesignation(d, Row(h.object))

DecisionInv ==
    /\ decisions \subseteq [suggestion : SuggestionRows, object : Ids \cup {NoObject}]
    /\ \A d \in decisions : d.object \in Names \cup {NoObject}
    /\ AdoptionIsTraceable

Inv == ObjectInv /\ SourceInv /\ GeometryInv /\ JobInv /\ SuggestionInv
       /\ HeightInv /\ DecisionInv

\* A set of naturals has a least element.
LEMMA LeastElement ==
    ASSUME NEW S, S \subseteq Nat, S # {}
    PROVE  \E x \in S : \A y \in S : x <= y
<1> DEFINE R == OpToRel(<, Nat)
<1>1. IsWellFoundedOn(R, Nat)
  BY NatLessThanWellFounded
<1>2. \A x, y \in Nat : <<y, x>> \in R <=> y < x
  BY DEF OpToRel
<1> HIDE DEF R
<1>3. PICK x \in S : \A y \in S : <<y, x>> \notin R
  BY <1>1, WFMin
<1>4. ASSUME NEW y \in S PROVE x <= y
  <2>1. x \in Nat /\ y \in Nat /\ ~(y < x)
    BY <1>2, <1>3
  <2>2. QED
    BY <2>1
<1>5. QED
  BY <1>4

-----------------------------------------------------------------------------
(* Rows are looked up by key and stay.                                     *)

\* A name leads to the row that has it.
LEMMA RowOfName ==
    ASSUME NEW id \in Names
    PROVE  Row(id) \in objects /\ Row(id).id = id
BY DEF Names, Row

\* With keys unique, the row a name leads to is the one with that key.
LEMMA RowOfKey ==
    ASSUME ObjectInv, NEW o \in objects
    PROVE  o.id \in Names /\ Row(o.id) = o
<1>1. o.id \in Names
  BY DEF Names
<1>2. QED
  BY <1>1, RowOfName DEF ObjectInv

\* What one step does to the rows: each name still leads to the same one.
Grown == \A id \in Names : id \in Names' /\ Row(id)' = Row(id)

\* Rows created under new keys, under a parent of their designation, keep the
\* keys unique and the rows that were there.
LEMMA RowsGrow ==
    ASSUME ObjectInv, NEW new, new \subseteq ObjectRows,
           objects' = objects \cup new,
           \A o \in new : Creatable(o) /\ o.parent \in Names,
           \A a, b \in new : a.id = b.id => a = b
    PROVE  ObjectInv' /\ Grown
<1> USE DEF Creatable, NewId
<1>1. Names \subseteq Names'
  BY DEF Names
<1>2. ASSUME NEW a \in objects', NEW b \in objects', a.id = b.id PROVE a = b
  BY <1>2 DEF ObjectInv
<1>3. ASSUME NEW a \in objects' PROVE (a.parent \in Names \cup {NoObject})'
  BY <1>1 DEF ObjectInv
<1>4. ASSUME NEW a \in objects', NEW b \in objects', a.parent = b.id
      PROVE  a.synthetic = b.synthetic
  <2>1. \A o \in objects : o.parent # NoObject => o.parent \in Names
    BY DEF ObjectInv
  <2>2. b.id # NoObject
    BY GivenShape DEF ObjectInv, ObjectRows
  <2>3. CASE b \in objects /\ a \in objects
    BY <1>4, <2>3 DEF ObjectInv
  <2>4. CASE b \in objects /\ a \in new
    <3>1. Row(a.parent) \in objects /\ Row(a.parent).id = a.parent
      BY <2>4, RowOfName
    <3>2. Row(a.parent) = b
      BY <1>4, <2>4, <3>1 DEF ObjectInv
    <3>3. QED
      BY <2>4, <3>2
  <2>5. CASE b \in new
    <3>1. b.id \notin Names
      BY <2>5 DEF Names
    <3>2. a.parent \in Names
      BY <1>4, <2>1, <2>2
    <3>3. QED
      BY <1>4, <3>1, <3>2
  <2>6. QED
    BY <2>3, <2>4, <2>5
<1>5. ObjectInv'
  <2>1. objects' \subseteq ObjectRows
    BY DEF ObjectInv
  <2>2. Given \subseteq objects'
    BY DEF ObjectInv
  <2>3. QED
    BY <1>2, <1>3, <1>4, <2>1, <2>2 DEF ObjectInv
<1>6. ASSUME NEW id \in Names PROVE id \in Names' /\ Row(id)' = Row(id)
  <2>1. Row(id) \in objects' /\ Row(id).id = id
    BY RowOfName
  <2>2. Row(id)' \in objects' /\ Row(id)'.id = id
    BY <2>1 DEF Row
  <2>3. QED
    BY <1>1, <1>2, <2>1, <2>2
<1>7. QED
  BY <1>5, <1>6 DEF Grown

\* A step that creates no object.
LEMMA RowsStay ==
    ASSUME ObjectInv, UNCHANGED objects
    PROVE  ObjectInv' /\ Grown
<1>1. Names' = Names
  BY DEF Names
<1>2. \A id : Row(id)' = Row(id)
  BY DEF Row
<1>3. QED
  BY <1>1, <1>2 DEF ObjectInv, Grown

\* The given names are names, before and after.
LEMMA GivenNames ==
    ASSUME ObjectInv, Grown, NEW id \in GivenIds
    PROVE  id \in Names /\ id \in Ids /\ Row(id)' = Row(id)
BY DEF ObjectInv, Grown, Ids, GivenIds, Names

\* Tables that a step leaves alone refer to the same rows after it.
LEMMA GeometryStays ==
    ASSUME GeometryInv, Grown, UNCHANGED geometries
    PROVE  GeometryInv'
BY DEF GeometryInv, Grown, SameDesignation

\* The same of the jobs.
LEMMA JobStays ==
    ASSUME ObjectInv, JobInv, Grown, UNCHANGED jobs
    PROVE  JobInv'
BY GivenNames DEF JobInv, SameDesignation, Requested

\* The same of the suggestions.
LEMMA SuggestionStays ==
    ASSUME ObjectInv, SuggestionInv, Grown, UNCHANGED suggestions
    PROVE  SuggestionInv'
BY GivenNames DEF SuggestionInv

\* The same of the heights.
LEMMA HeightStays ==
    ASSUME ObjectInv, HeightInv, Grown, UNCHANGED heights
    PROVE  HeightInv'
BY GivenNames DEF HeightInv, SameDesignation, Requested

\* The same of the decisions, as long as the geometry they rest on stays.
LEMMA DecisionStays ==
    ASSUME DecisionInv, Grown, UNCHANGED decisions, geometries \subseteq geometries'
    PROVE  DecisionInv'
<1>1. AdoptionIsTraceable'
  BY DEF DecisionInv, AdoptionIsTraceable
<1>2. \A d \in decisions' : d.object \in Names' \cup {NoObject}
  BY DEF DecisionInv, Grown
<1>3. QED
  BY <1>1, <1>2 DEF DecisionInv

-----------------------------------------------------------------------------
(* Geometry and its versions.                                              *)

\* The extents given objects are drawn with exist.
LEMMA WholeTyped ==
    ASSUME NEW kind
    PROVE  Whole(kind) \in Bounds
<1>1. PICK low \in Elevations, top \in Elevations :
         /\ low + 1 \in Elevations
         /\ \A x \in Elevations : low <= x /\ x <= top
  BY ElevationShape
<1>2. [lo |-> low, hi |-> low + 1] \in Bounds /\ [lo |-> low, hi |-> top] \in Bounds
  BY <1>1, SourceShape DEF Bounds
<1>3. CASE kind = "FLOOR"
  <2> DEFINE z == [lo |-> low, hi |-> low + 1]
  <2>1. z \in Bounds /\ (\A x \in Elevations : z.lo <= x) /\ z.hi = z.lo + 1
    BY <1>1, <1>2
  <2>2. QED
    BY <1>3, <2>1 DEF Whole
<1>4. CASE kind # "FLOOR"
  <2> DEFINE z == [lo |-> low, hi |-> top]
  <2>1. z \in Bounds /\ (\A x \in Elevations : z.lo <= x) /\ \A x \in Elevations : x <= z.hi
    BY <1>1, <1>2
  <2>2. QED
    BY <1>4, <2>1 DEF Whole
<1>5. QED
  BY <1>3, <1>4

\* A new version is numbered from one.
LEMMA GeometryTyped ==
    ASSUME GeometryInv, NEW id \in Ids, NEW z \in Bounds,
           NEW d \in Datasets \cup {NoDataset}, NEW category \in Categories
    PROVE  Geometry(id, z, d, category) \in Geometries
<1>1. IsFiniteSet(Versions(id))
  BY FS_Subset DEF GeometryInv, Versions
<1>2. Cardinality(Versions(id)) \in Nat
  BY <1>1, FS_CardinalityType
<1>3. QED
  BY <1>2 DEF Geometry, Geometries

\* An object that is not there yet has no geometry, so its first is version 1.
LEMMA FirstVersion ==
    ASSUME GeometryInv, NEW id, id \notin Names
    PROVE  /\ Versions(id) = {}
           /\ \A z, d, category : Geometry(id, z, d, category).version = 1
<1>1. Versions(id) = {}
  BY DEF GeometryInv, Versions
<1>2. QED
  BY <1>1, FS_EmptySet DEF Geometry

\* Geometry is added for rows that exist by then, from sources of their
\* designation.
LEMMA GeometryGrows ==
    ASSUME GeometryInv, Grown, NEW added, IsFiniteSet(added),
           geometries' = geometries \cup added,
           \A g \in added :
              /\ g \in Geometries
              /\ g.object \in Names'
              /\ g.dataset # NoDataset => SameDesignation(g.dataset, Row(g.object)')
    PROVE  GeometryInv'
<1>1. IsFiniteSet(geometries')
  BY FS_Union DEF GeometryInv
<1>2. ASSUME NEW g \in geometries'
      PROVE  g \in Geometries /\ g.object \in Names'
             /\ (g.dataset # NoDataset => SameDesignation(g.dataset, Row(g.object)'))
  BY <1>2 DEF GeometryInv, Grown, SameDesignation
<1>3. QED
  BY <1>1, <1>2 DEF GeometryInv, SameDesignation

-----------------------------------------------------------------------------
(* The steps. One lemma each, for the tables the step writes.              *)

\* The given rows satisfy the invariant.
LEMMA InitInv == Init => Inv
<1> SUFFICES ASSUME Init PROVE Inv
  OBVIOUS
<1> USE DEF Init
<1>1. ObjectInv
  BY GivenShape DEF ObjectInv, Names, GivenIds
<1>2. SourceInv /\ JobInv /\ SuggestionInv /\ HeightInv
  BY DEF SourceInv, JobInv, SuggestionInv, HeightInv
<1>3. DecisionInv
  BY DEF DecisionInv, AdoptionIsTraceable
<1>4. GeometryInv
  <2> DEFINE G(o) == [object |-> o.id, version |-> 1, z |-> Whole(o.kind),
                      dataset |-> NoDataset, category |-> "MANUAL"]
  <2>1. geometries = {G(o) : o \in Given}
    OBVIOUS
  <2>2. IsFiniteSet(geometries)
    <3> DEFINE h == [o \in Given |-> G(o)]
    <3>1. h \in Surjection(Given, geometries)
      BY <2>1 DEF Surjection
    <3>2. QED
      BY <3>1, FS_Surjection, GivenShape
  <2>3. ASSUME NEW o \in Given
        PROVE  G(o) \in Geometries /\ G(o).object \in Names /\ G(o).dataset = NoDataset
    <3>1. o.id \in Ids /\ o.id \in Names
      BY GivenShape DEF Names, ObjectRows
    <3>2. QED
      BY <3>1, WholeTyped DEF Geometries, Categories
  <2>4. \A g \in geometries : g \in Geometries /\ g.object \in Names /\ g.dataset = NoDataset
    BY <2>1, <2>3
  <2>5. QED
    BY <2>2, <2>4 DEF GeometryInv
<1>5. QED
  BY <1>1, <1>2, <1>3, <1>4 DEF Inv

\* Register writes the sources alone.
LEMMA RegisterStep ==
    ASSUME Inv, NEW d \in Datasets, Register(d)
    PROVE  Inv'
<1>1. SourceInv'
  BY DEF Inv, SourceInv, Register
<1>2. ObjectInv' /\ Grown
  BY RowsStay DEF Inv, Register
<1>3. QED
  BY <1>1, <1>2, GeometryStays, JobStays, SuggestionStays, HeightStays, DecisionStays
  DEF Inv, Register

\* RecordHeight checks the source against the building it is told of.
LEMMA RecordHeightStep ==
    ASSUME Inv, NEW o \in Given, NEW d \in Datasets, RecordHeight(o, d)
    PROVE  Inv'
<1>1. ObjectInv' /\ Grown
  BY RowsStay DEF Inv, RecordHeight
<1>2. o.id \in GivenIds
  BY DEF GivenIds
<1>3. Row(o.id) = o /\ Row(o.id)' = o
  BY <1>1, <1>2, GivenNames, RowOfKey DEF Inv, ObjectInv
<1>4. HeightInv'
  <2>1. SameDesignation(d, Row(o.id))'
    BY <1>3 DEF RecordHeight, SameDesignation
  <2>2. \A h \in heights : Row(h.object)' = Row(h.object)
    BY <1>1, GivenNames DEF Inv, HeightInv
  <2>3. \A x \in Requested(d, NoDataset) : x = d
    BY DEF Requested
  <2>4. o.id \in Ids
    BY <1>2 DEF Ids
  <2> DEFINE new == [object |-> o.id, dataset |-> d, second |-> NoDataset]
  <2>5. heights' = heights \cup {new}
    BY DEF RecordHeight
  <2>6. ASSUME NEW h \in heights'
        PROVE  /\ h \in [object : Ids, dataset : Datasets,
                         second : Datasets \cup {NoDataset}]
               /\ h.object \in GivenIds
               /\ \A x \in Requested(h.dataset, h.second) :
                     SameDesignation(x, Row(h.object))'
    <3>1. CASE h = new
      BY <1>2, <2>1, <2>3, <2>4, <3>1
    <3>2. CASE h \in heights
      BY <2>2, <3>2 DEF Inv, HeightInv, SameDesignation
    <3>3. QED
      BY <2>5, <3>1, <3>2
  <2>7. QED
    BY <2>6 DEF HeightInv
<1>5. QED
  BY <1>1, <1>4, GeometryStays, JobStays, SuggestionStays, DecisionStays
  DEF Inv, RecordHeight, SourceInv

\* The row users draw on.
LEMMA EditedRow ==
    ASSUME ObjectInv, NEW b \in Edited
    PROVE  /\ b \in GivenIds /\ b \in Ids /\ b \in Names
           /\ Row(b) \in objects /\ Row(b) \in ObjectRows /\ Row(b).id = b
<1>1. b \in GivenIds
  BY GivenShape
<1>2. b \in Ids /\ b \in Names
  BY <1>1 DEF Ids, GivenIds, ObjectInv, Names
<1>3. QED
  BY <1>1, <1>2, RowOfName DEF ObjectInv

\* CreateFloor adds one row below the building.
LEMMA CreateFloorStep ==
    ASSUME Inv, NEW b \in Edited, NEW n \in FloorNumbers, CreateFloor(Row(b), n)
    PROVE  Inv'
<1>1. /\ b \in GivenIds /\ b \in Names
      /\ Row(b) \in ObjectRows /\ Row(b).id = b
  BY EditedRow DEF Inv
<1>0. PICK o : o = [id |-> ManualId(b, n), kind |-> "FLOOR", parent |-> b,
                    synthetic |-> Row(b).synthetic, number |-> n]
  OBVIOUS
<1>2. Creatable(o) /\ objects' = objects \cup {o}
  BY <1>0, <1>1 DEF CreateFloor
<1>3. o \in ObjectRows /\ o.parent \in Names
  <2>1. ManualId(b, n) \in Ids /\ b \in Ids
    BY <1>1 DEF Ids
  <2>2. Row(b).synthetic \in BOOLEAN
    BY <1>1 DEF ObjectRows
  <2>3. QED
    BY <1>0, <1>1, <2>1, <2>2 DEF ObjectRows, Kinds
<1>4. ObjectInv' /\ Grown
  <2>1. PICK new : new = {o}
    OBVIOUS
  <2>2. new \subseteq ObjectRows /\ objects' = objects \cup new
    BY <1>2, <1>3, <2>1
  <2>3. \A x \in new : Creatable(x) /\ x.parent \in Names
    BY <1>2, <1>3, <2>1
  <2>4. \A x, y \in new : x.id = y.id => x = y
    BY <2>1
  <2>5. ObjectInv
    BY DEF Inv
  <2>6. QED
    BY <2>2, <2>3, <2>4, <2>5, RowsGrow
<1>5. QED
  BY <1>4, GeometryStays, JobStays, SuggestionStays, HeightStays, DecisionStays
  DEF Inv, CreateFloor, SourceInv

\* CreateGeometry adds one version, of what the user asserts.
LEMMA CreateGeometryStep ==
    ASSUME Inv, NEW o \in Edited, NEW z \in Bounds, NEW d \in Anything,
           NEW category \in Categories, CreateGeometry(Row(o), z, d, category)
    PROVE  Inv'
<1>1. o \in Ids /\ o \in Names /\ Row(o).id = o
  BY EditedRow DEF Inv
<1>2. ObjectInv' /\ Grown
  BY RowsStay DEF Inv, CreateGeometry
<1>0. PICK g : g = Geometry(o, z, d, category)
  OBVIOUS
<1>3. g \in Geometries
  BY <1>0, <1>1, GeometryTyped DEF Inv, Anything
<1>4. g.object = o /\ g.dataset = d
  BY <1>0 DEF Geometry
<1>5. d # NoDataset => SameDesignation(d, Row(o))
  BY DEF CreateGeometry, Sourced
<1>6. o \in Names' /\ Row(o)' = Row(o)
  BY <1>1, <1>2 DEF Grown
<1>7. geometries' = geometries \cup {g}
  BY <1>0, <1>1 DEF CreateGeometry
<1>8. GeometryInv'
  <2>1. GeometryInv /\ IsFiniteSet({g})
    BY FS_Singleton DEF Inv
  <2>2. g.dataset # NoDataset => SameDesignation(g.dataset, Row(g.object)')
    BY <1>4, <1>5, <1>6
  <2>3. QED
    BY <1>2, <1>3, <1>4, <1>6, <1>7, <2>1, <2>2, GeometryGrows
<1>9. geometries \subseteq geometries'
  BY <1>7
<1>10. QED
  BY <1>2, <1>8, <1>9, JobStays, SuggestionStays, HeightStays, DecisionStays
  DEF Inv, CreateGeometry, SourceInv

\* QueueProcessing checks every source the request names.
LEMMA QueueStep ==
    ASSUME Inv, NEW j \in JobIds, NEW r \in Requests,
           QueueProcessing(j, r.kind, Row(r.object), r.dataset, r.second)
    PROVE  Inv'
<1>1. /\ r.kind \in JobKinds /\ r.object \in GivenIds /\ r.dataset \in Datasets
      /\ r.second \in Datasets \cup {NoDataset}
  BY RequestShape
<1>2. ObjectInv' /\ Grown
  BY RowsStay DEF Inv, QueueProcessing
<1>3. r.object \in Names /\ r.object \in Ids /\ Row(r.object)' = Row(r.object)
  BY <1>1, <1>2, GivenNames DEF Inv
<1>4. Row(r.object).id = r.object
  BY <1>3, RowOfName
<1> DEFINE job == [kind |-> r.kind, object |-> r.object, dataset |-> r.dataset,
                   second |-> r.second, status |-> "QUEUED"]
<1>5. job \in Jobs /\ job.object = r.object /\ job.dataset = r.dataset
      /\ job.second = r.second
  BY <1>1, <1>3 DEF Jobs
<1>6. jobs' = [jobs EXCEPT ![j] = job]
  BY <1>4 DEF QueueProcessing
<1>7. \A d \in Requested(r.dataset, r.second) : SameDesignation(d, Row(r.object))'
  BY <1>3 DEF QueueProcessing, SameDesignation
<1> HIDE DEF job
<1>8. JobInv'
  <2>1. jobs' \in [JobIds -> Jobs \cup {NoJob}]
    BY <1>5, <1>6 DEF Inv, JobInv
  <2>2. ASSUME NEW i \in JobIds, (jobs[i] # NoJob)'
        PROVE  (/\ jobs[i].object \in GivenIds
                /\ \A d \in Requested(jobs[i].dataset, jobs[i].second) :
                      SameDesignation(d, Row(jobs[i].object)))'
    <3>1. CASE i = j
      <4>1. jobs'[i] = job
        BY <1>6, <3>1 DEF Inv, JobInv
      <4>2. QED
        BY <1>1, <1>5, <1>7, <4>1 DEF SameDesignation, Requested
    <3>2. CASE i # j
      <4>1. jobs'[i] = jobs[i]
        BY <1>6, <3>2 DEF Inv, JobInv
      <4>2. \A id \in GivenIds : Row(id)' = Row(id)
        BY <1>2, GivenNames DEF Inv
      <4>3. QED
        BY <2>2, <4>1, <4>2 DEF Inv, JobInv, SameDesignation, Requested
    <3>3. QED
      BY <3>1, <3>2
  <2>3. QED
    BY <2>1, <2>2 DEF JobInv, SameDesignation, Requested
<1>9. QED
  BY <1>2, <1>8, GeometryStays, SuggestionStays, HeightStays, DecisionStays
  DEF Inv, QueueProcessing, SourceInv

\* A job that ends keeps what it was queued with.
LEMMA JobEnds ==
    ASSUME ObjectInv, JobInv, Grown, NEW j \in JobIds, jobs[j] # NoJob,
           NEW status \in {"COMPLETED", "FAILED"}, Ended(j, status)
    PROVE  JobInv'
<1>1. jobs[j] \in Jobs
  BY DEF JobInv
<1>2. PICK job : job = [jobs[j] EXCEPT !.status = status]
  OBVIOUS
<1>3. /\ job \in Jobs
      /\ job.object = jobs[j].object /\ job.dataset = jobs[j].dataset
      /\ job.second = jobs[j].second
  BY <1>1, <1>2 DEF Jobs
<1>4. jobs' = [jobs EXCEPT ![j] = job]
  BY <1>2 DEF Ended
<1>5. jobs' \in [JobIds -> Jobs \cup {NoJob}]
  BY <1>3, <1>4 DEF JobInv
<1>6. \A id \in GivenIds : Row(id)' = Row(id)
  BY GivenNames
<1>7. ASSUME NEW i \in JobIds, (jobs[i] # NoJob)'
      PROVE  (/\ jobs[i].object \in GivenIds
              /\ \A d \in Requested(jobs[i].dataset, jobs[i].second) :
                    SameDesignation(d, Row(jobs[i].object)))'
  <2>1. jobs[i] # NoJob
    BY <1>4, <1>7 DEF JobInv
  <2>2. /\ jobs'[i].object = jobs[i].object /\ jobs'[i].dataset = jobs[i].dataset
        /\ jobs'[i].second = jobs[i].second
    BY <1>3, <1>4 DEF JobInv
  <2>3. QED
    BY <1>6, <2>1, <2>2 DEF JobInv, SameDesignation, Requested
<1>8. QED
  BY <1>5, <1>7 DEF JobInv

\* SuggestLevels and ProcessingFails write the job alone.
LEMMA EndStep ==
    ASSUME Inv, NEW j \in JobIds, SuggestLevels(j) \/ ProcessingFails(j)
    PROVE  Inv'
<1>1. ObjectInv' /\ Grown
  BY RowsStay DEF Inv, SuggestLevels, ProcessingFails
<1>2. JobInv'
  BY <1>1, JobEnds DEF Inv, SuggestLevels, ProcessingFails
<1>3. QED
  BY <1>1, <1>2, GeometryStays, SuggestionStays, HeightStays, DecisionStays
  DEF Inv, SuggestLevels, ProcessingFails, SourceInv

\* EstimateHeight adds a height from the sources the job was queued with.
LEMMA EstimateHeightStep ==
    ASSUME Inv, NEW j \in JobIds, EstimateHeight(j)
    PROVE  Inv'
<1>1. ObjectInv' /\ Grown
  BY RowsStay DEF Inv, EstimateHeight
<1>2. JobInv'
  BY <1>1, JobEnds DEF Inv, EstimateHeight
<1>3. /\ jobs[j] \in Jobs /\ jobs[j].object \in GivenIds
      /\ \A d \in Requested(jobs[j].dataset, jobs[j].second) :
            SameDesignation(d, Row(jobs[j].object))
  BY DEF Inv, JobInv, EstimateHeight
<1>4. PICK new : new = [object |-> jobs[j].object, dataset |-> jobs[j].dataset,
                        second |-> jobs[j].second]
  OBVIOUS
<1>5. \A h \in heights' : h \in heights \/ h = new
  BY <1>4 DEF EstimateHeight
<1>6. \A id \in GivenIds : Row(id)' = Row(id)
  BY <1>1, GivenNames DEF Inv
<1>7. /\ new \in [object : Ids, dataset : Datasets, second : Datasets \cup {NoDataset}]
      /\ new.object \in GivenIds
      /\ \A x \in Requested(new.dataset, new.second) : SameDesignation(x, Row(new.object))
  BY <1>3, <1>4 DEF Jobs
<1>8. HeightInv'
  BY <1>5, <1>6, <1>7 DEF Inv, HeightInv, SameDesignation, Requested
<1>9. QED
  BY <1>1, <1>2, <1>8, GeometryStays, SuggestionStays, DecisionStays
  DEF Inv, EstimateHeight, SourceInv

\* Suggest adds rows of the job's parent and source.
LEMMA SuggestStep ==
    ASSUME Inv, NEW j \in JobIds, NEW found \in SUBSET Numbers, Suggest(j, found)
    PROVE  Inv'
<1>1. ObjectInv' /\ Grown
  BY RowsStay DEF Inv, Suggest
<1>2. JobInv'
  BY <1>1, JobEnds DEF Inv, Suggest
<1>3. jobs[j] \in Jobs /\ jobs[j].object \in GivenIds
  BY DEF Inv, JobInv, Suggest
<1>4. SameDesignation(jobs[j].dataset, Row(jobs[j].object))
  BY DEF Suggest, Processable
<1>5. PICK kind \in {"BUILDING", "UNIT"} :
         kind = IF jobs[j].kind = "SUGGEST_BUILDINGS" THEN "BUILDING" ELSE "UNIT"
  OBVIOUS
<1>6. PICK row : row = [n \in found |->
          [job |-> j, kind |-> kind, number |-> n, parent |-> jobs[j].object,
           dataset |-> jobs[j].dataset, synthetic |-> jobs[j].dataset \in Synthetic]]
  OBVIOUS
<1>7. \A s \in suggestions' : s \in suggestions \/ \E n \in found : s = row[n]
  BY <1>5, <1>6 DEF Suggest
<1>8. \A id \in GivenIds : Row(id)' = Row(id)
  BY <1>1, GivenNames DEF Inv
<1>9. ASSUME NEW n \in found
      PROVE  /\ row[n] \in SuggestionRows /\ row[n].parent \in GivenIds
             /\ row[n].synthetic = Row(row[n].parent).synthetic
             /\ row[n].synthetic = (row[n].dataset \in Synthetic)
  <2>1. row[n] = [job |-> j, kind |-> kind, number |-> n, parent |-> jobs[j].object,
           dataset |-> jobs[j].dataset, synthetic |-> jobs[j].dataset \in Synthetic]
    BY <1>6
  <2>2. row[n] \in SuggestionRows
    BY <1>3, <1>5, <2>1 DEF SuggestionRows, Jobs
  <2>3. row[n].parent = jobs[j].object /\ row[n].dataset = jobs[j].dataset
        /\ row[n].synthetic = (jobs[j].dataset \in Synthetic)
    BY <2>1
  <2>4. QED
    BY <1>3, <1>4, <2>2, <2>3 DEF SameDesignation
<1>10. SuggestionInv'
  BY <1>7, <1>8, <1>9 DEF Inv, SuggestionInv
<1>11. QED
  BY <1>1, <1>2, <1>10, GeometryStays, HeightStays, DecisionStays
  DEF Inv, Suggest, SourceInv

\* Reject decides what was undecided.
LEMMA RejectStep ==
    ASSUME Inv, NEW s \in suggestions, Reject(s)
    PROVE  Inv'
<1>1. ObjectInv' /\ Grown
  BY RowsStay DEF Inv, Reject
<1>2. PICK new : new = [suggestion |-> s, object |-> NoObject]
  OBVIOUS
<1>3. \A d \in decisions' : d \in decisions \/ d = new
  BY <1>2 DEF Reject
<1>4. \A d \in decisions : d.suggestion # s
  BY DEF Reject, Undecided
<1>5. AdoptionIsTraceable'
  BY <1>2, <1>3, <1>4 DEF Inv, DecisionInv, AdoptionIsTraceable, Reject
<1>6. s \in SuggestionRows
  BY DEF Inv, SuggestionInv
<1>7. DecisionInv'
  BY <1>1, <1>2, <1>3, <1>5, <1>6 DEF Inv, DecisionInv, Grown
<1>8. QED
  BY <1>1, <1>7, GeometryStays, JobStays, SuggestionStays, HeightStays
  DEF Inv, Reject, SourceInv

\* Adopt founds an object on a suggestion, under a name no row has yet.
LEMMA AdoptStep ==
    ASSUME Inv, NEW s \in suggestions, NEW target \in Kinds, NEW z \in Bounds,
           NEW d \in Datasets, NEW category \in Categories, Adopt(s, target, z, d, category)
    PROVE  Inv'
<1>1. s \in SuggestionRows /\ s.parent \in GivenIds
  BY DEF Inv, SuggestionInv
<1>2. s.parent \in Names /\ s.parent \in Ids
  BY <1>1 DEF Inv, ObjectInv, GivenIds, Names, Ids
<1>3. PICK o : o = [id |-> SuggestedId(s.parent, s.kind, s.number), kind |-> target,
                    parent |-> s.parent, synthetic |-> s.synthetic, number |-> 0]
  OBVIOUS
<1>4. o \in ObjectRows /\ o.parent \in Names /\ o.id \in Ids
  <2>1. SuggestedId(s.parent, s.kind, s.number) \in Ids
    BY <1>1 DEF Ids, SuggestionRows
  <2>2. s.synthetic \in BOOLEAN
    BY <1>1 DEF SuggestionRows
  <2>3. QED
    BY <1>2, <1>3, <2>1, <2>2 DEF ObjectRows
<1>5. Creatable(o) /\ Sourced(o, d, category) /\ objects' = objects \cup {o}
  BY <1>3 DEF Adopt
<1>6. o.id \notin Names
  BY <1>5 DEF Creatable, NewId, Names
<1>7. ObjectInv' /\ Grown
  <2>1. PICK new : new = {o}
    OBVIOUS
  <2>2. new \subseteq ObjectRows /\ objects' = objects \cup new
    BY <1>4, <1>5, <2>1
  <2>3. \A x \in new : Creatable(x) /\ x.parent \in Names
    BY <1>4, <1>5, <2>1
  <2>4. \A x, y \in new : x.id = y.id => x = y
    BY <2>1
  <2>5. ObjectInv
    BY DEF Inv
  <2>6. QED
    BY <2>2, <2>3, <2>4, <2>5, RowsGrow
<1>8. o.id \in Names' /\ Row(o.id)' = o
  BY <1>5, <1>7 DEF Names, Row, ObjectInv
<1>9. PICK g : g = Geometry(o.id, z, d, category)
  OBVIOUS
<1>10. geometries' = geometries \cup {g}
  BY <1>3, <1>9 DEF Adopt
<1>11. /\ g \in Geometries /\ g.object = o.id /\ g.version = 1
       /\ g.dataset = d /\ g.category = category
  <2>1. g \in Geometries
    BY <1>4, <1>9, GeometryTyped DEF Inv
  <2>2. g.version = 1
    BY <1>6, <1>9, FirstVersion DEF Inv
  <2>3. QED
    BY <1>9, <2>1, <2>2 DEF Geometry
<1>12. GeometryInv'
  <2>1. GeometryInv /\ IsFiniteSet({g})
    BY FS_Singleton DEF Inv
  <2>2. SameDesignation(d, o)
    BY <1>5, SourceShape DEF Sourced
  <2>3. g.dataset # NoDataset => SameDesignation(g.dataset, Row(g.object)')
    BY <1>8, <1>11, <2>2
  <2>4. QED
    BY <1>7, <1>8, <1>10, <1>11, <2>1, <2>3, GeometryGrows
<1>13. PICK e : e = [suggestion |-> s, object |-> o.id]
  OBVIOUS
<1>14. decisions' = decisions \cup {e}
  BY <1>3, <1>13 DEF Adopt
<1>15. \A x \in decisions : x.suggestion # s /\ x.object # o.id
  <2>1. o.id # NoObject
    BY <1>4, GivenShape
  <2>2. QED
    BY <1>6, <2>1 DEF Adopt, Undecided, Inv, DecisionInv
<1>16. d = s.dataset /\ category \notin {"SURVEY", "APPROVED_PLAN"}
  BY DEF Adopt, Confirmed
<1>17. AdoptionIsTraceable'
  <2>1. \A x, y \in decisions' : x.suggestion = y.suggestion => x = y
    BY <1>13, <1>14, <1>15 DEF Inv, DecisionInv, AdoptionIsTraceable
  <2>2. \A x, y \in decisions' : x.object = y.object /\ x.object # NoObject => x = y
    BY <1>13, <1>14, <1>15 DEF Inv, DecisionInv, AdoptionIsTraceable
  <2>3. \A x \in decisions' : x.object # NoObject =>
           \E h \in geometries' :
              /\ h.object = x.object /\ h.version = 1
              /\ h.dataset = x.suggestion.dataset
              /\ h.category \notin {"SURVEY", "APPROVED_PLAN"}
    BY <1>10, <1>11, <1>13, <1>14, <1>16 DEF Inv, DecisionInv, AdoptionIsTraceable
  <2>4. QED
    BY <2>1, <2>2, <2>3 DEF AdoptionIsTraceable
<1>18. DecisionInv'
  BY <1>1, <1>4, <1>7, <1>8, <1>13, <1>14, <1>17 DEF Inv, DecisionInv, Grown
<1>19. QED
  BY <1>7, <1>12, <1>18, JobStays, SuggestionStays, HeightStays
  DEF Inv, Adopt, SourceInv

\* The rows and the geometry that CreateFloorLevels adds below the building b.
LevelRow(b, l) == [id |-> FloorId(b, l.number), kind |-> "FLOOR", parent |-> b,
                   synthetic |-> Row(b).synthetic, number |-> l.number]

LevelGeometry(b, l, d, category) == Geometry(FloorId(b, l.number), l.z, d, category)

\* What a request for floor levels adds: a row and a first version under a new
\* name for each of its levels, whose numbers differ.
LEMMA LevelsAdded ==
    ASSUME Inv, NEW b \in Edited, NEW d \in Datasets, NEW levels \in LevelSets,
           NEW category \in Categories, CreateFloorLevels(Row(b), d, category, levels)
    PROVE  /\ objects' = objects \cup {LevelRow(b, l) : l \in levels}
           /\ geometries' = geometries \cup {LevelGeometry(b, l, d, category) : l \in levels}
           /\ \A l \in levels :
                 /\ l.number \in FloorNumbers /\ l.z \in Bounds
                 /\ LevelRow(b, l) \in ObjectRows /\ FloorId(b, l.number) \in Ids
                 /\ Creatable(LevelRow(b, l)) /\ FloorId(b, l.number) \notin Names
                 /\ SameDesignation(d, Row(b))
                 /\ LevelGeometry(b, l, d, category) \in Geometries
                 /\ LevelGeometry(b, l, d, category).version = 1
           /\ \A k, l \in levels : k.number = l.number => k = l
<1>1. /\ b \in GivenIds /\ b \in Ids /\ b \in Names
      /\ Row(b) \in ObjectRows /\ Row(b).id = b
  BY EditedRow DEF Inv
<1>2. /\ objects' = objects \cup {LevelRow(b, l) : l \in levels}
      /\ geometries' = geometries \cup {LevelGeometry(b, l, d, category) : l \in levels}
  BY <1>1 DEF CreateFloorLevels, LevelRow, LevelGeometry
<1>3. \A k, l \in levels : k.number = l.number => k = l
  BY DEF CreateFloorLevels, WellFormed
<1>4. ASSUME NEW l \in levels
      PROVE  /\ l.number \in FloorNumbers /\ l.z \in Bounds
             /\ LevelRow(b, l) \in ObjectRows /\ FloorId(b, l.number) \in Ids
             /\ Creatable(LevelRow(b, l)) /\ FloorId(b, l.number) \notin Names
             /\ SameDesignation(d, Row(b))
             /\ LevelGeometry(b, l, d, category) \in Geometries
             /\ LevelGeometry(b, l, d, category).version = 1
  <2>1. l.number \in FloorNumbers /\ l.z \in Bounds
    BY DEF LevelSets, Levels
  <2>2. FloorId(b, l.number) \in Ids
    BY <1>1, <2>1 DEF Ids
  <2>3. LevelRow(b, l) \in ObjectRows
    BY <1>1, <2>1, <2>2 DEF LevelRow, ObjectRows, Kinds
  <2>4. Creatable(LevelRow(b, l)) /\ Sourced(LevelRow(b, l), d, category)
    BY <1>1 DEF CreateFloorLevels, LevelRow
  <2>5. FloorId(b, l.number) \notin Names
    BY <2>4 DEF Creatable, NewId, Names, LevelRow
  <2>6. SameDesignation(d, Row(b))
    BY <2>4, SourceShape DEF Sourced, SameDesignation, LevelRow
  <2>7. LevelGeometry(b, l, d, category) \in Geometries
    BY <2>1, <2>2, GeometryTyped DEF Inv, LevelGeometry
  <2>8. LevelGeometry(b, l, d, category).version = 1
    BY <2>5, FirstVersion DEF Inv, LevelGeometry
  <2>9. QED
    BY <2>1, <2>2, <2>3, <2>4, <2>5, <2>6, <2>7, <2>8
<1>5. QED
  BY <1>2, <1>3, <1>4

\* CreateFloorLevels adds those rows and their geometry.
LEMMA FloorLevelsStep ==
    ASSUME Inv, NEW b \in Edited, NEW d \in Datasets, NEW levels \in LevelSets,
           NEW category \in Categories, CreateFloorLevels(Row(b), d, category, levels)
    PROVE  Inv'
<1>1. b \in Names
  BY EditedRow DEF Inv
<1>2. PICK row : row = [l \in levels |-> LevelRow(b, l)]
  OBVIOUS
<1>3. PICK drawn : drawn = [l \in levels |-> LevelGeometry(b, l, d, category)]
  OBVIOUS
<1>4. /\ objects' = objects \cup {row[l] : l \in levels}
      /\ geometries' = geometries \cup {drawn[l] : l \in levels}
  BY <1>2, <1>3, LevelsAdded
<1>5. ASSUME NEW l \in levels
      PROVE  /\ row[l] \in ObjectRows /\ Creatable(row[l])
             /\ row[l].parent = b /\ row[l].id = FloorId(b, l.number)
             /\ row[l].synthetic = Row(b).synthetic
             /\ drawn[l] \in Geometries /\ drawn[l].dataset = d
             /\ drawn[l].object = FloorId(b, l.number)
             /\ SameDesignation(d, Row(b))
  <2>1. row[l] = LevelRow(b, l) /\ drawn[l] = LevelGeometry(b, l, d, category)
    BY <1>2, <1>3
  <2>2. /\ LevelRow(b, l) \in ObjectRows /\ Creatable(LevelRow(b, l))
        /\ LevelGeometry(b, l, d, category) \in Geometries
        /\ SameDesignation(d, Row(b))
    BY LevelsAdded
  <2>3. QED
    BY <2>1, <2>2 DEF LevelRow, LevelGeometry, Geometry
<1>6. \A k, l \in levels : row[k].id = row[l].id => row[k] = row[l]
  <2>1. \A k, l \in levels : k.number = l.number => k = l
    BY LevelsAdded
  <2>2. QED
    BY <1>5, <2>1 DEF FloorId
<1>7. ObjectInv' /\ Grown
  <2>1. PICK new : new = {row[l] : l \in levels}
    OBVIOUS
  <2>2. new \subseteq ObjectRows /\ objects' = objects \cup new
    BY <1>4, <1>5, <2>1
  <2>3. \A x \in new : Creatable(x) /\ x.parent \in Names
    BY <1>1, <1>5, <2>1
  <2>4. \A x, y \in new : x.id = y.id => x = y
    BY <1>6, <2>1
  <2>5. ObjectInv
    BY DEF Inv
  <2>6. QED
    BY <2>2, <2>3, <2>4, <2>5, RowsGrow
<1>8. PICK added : added = {drawn[l] : l \in levels}
  OBVIOUS
<1>9. IsFiniteSet(added)
  <2> DEFINE h == [l \in levels |-> drawn[l]]
  <2>1. h \in Surjection(levels, added)
    BY <1>8 DEF Surjection
  <2>2. IsFiniteSet(levels)
    BY DEF LevelSets
  <2>3. QED
    BY <2>1, <2>2, FS_Surjection
<1>10. ASSUME NEW g \in added
       PROVE  /\ g \in Geometries
              /\ g.object \in Names'
              /\ g.dataset # NoDataset => SameDesignation(g.dataset, Row(g.object)')
  <2>1. PICK l \in levels : g = drawn[l]
    BY <1>8
  <2>2. row[l] \in objects' /\ row[l].id = g.object
    BY <1>4, <1>5, <2>1
  <2>3. g.object \in Names' /\ Row(g.object)' = row[l]
    <3>1. g.object \in Names'
      BY <2>2 DEF Names
    <3>2. Row(g.object)' \in objects' /\ Row(g.object)'.id = g.object
      BY <2>2 DEF Row
    <3>3. QED
      BY <1>7, <2>2, <3>1, <3>2 DEF ObjectInv
  <2>4. QED
    BY <1>5, <2>1, <2>3 DEF SameDesignation
<1>11. GeometryInv'
  BY <1>4, <1>7, <1>8, <1>9, <1>10, GeometryGrows DEF Inv
<1>12. geometries \subseteq geometries'
  BY <1>4
<1>13. QED
  BY <1>7, <1>11, <1>12, JobStays, SuggestionStays, HeightStays, DecisionStays
  DEF Inv, CreateFloorLevels, SourceInv

-----------------------------------------------------------------------------
(* The invariant and what follows from it.                                 *)

\* Every step preserves the invariant.
LEMMA StepInv == Inv /\ [Next]_vars => Inv'
<1> SUFFICES ASSUME Inv, [Next]_vars PROVE Inv'
  OBVIOUS
<1>1. CASE UNCHANGED vars
  <2>1. ObjectInv' /\ Grown
    BY <1>1, RowsStay DEF Inv, vars
  <2>2. QED
    BY <1>1, <2>1, GeometryStays, JobStays, SuggestionStays, HeightStays, DecisionStays
    DEF Inv, vars, SourceInv
<1>2. CASE \E d \in Datasets : Register(d) \/ \E o \in Given : RecordHeight(o, d)
  BY <1>2, RegisterStep, RecordHeightStep
<1>3. CASE Draw
  <2>1. CASE \E b \in Edited, n \in FloorNumbers : CreateFloor(Row(b), n)
    BY <2>1, CreateFloorStep
  <2>2. CASE \E o \in Edited, z \in Bounds, d \in Anything :
                CreateGeometry(Row(o), z, d, IF d = NoDataset THEN "MANUAL" ELSE "SURVEY")
    <3>1. PICK o \in Edited, z \in Bounds, d \in Anything, c \in Categories :
             CreateGeometry(Row(o), z, d, c)
      BY <2>2 DEF Categories
    <3>2. QED
      BY <3>1, CreateGeometryStep
  <2>3. QED
    BY <1>3, <2>1, <2>2 DEF Draw
<1>4. CASE Process
  <2>1. CASE \E j \in JobIds, r \in Requests :
                QueueProcessing(j, r.kind, Row(r.object), r.dataset, r.second)
    BY <2>1, QueueStep
  <2>2. CASE \E j \in JobIds : EstimateHeight(j)
    BY <2>2, EstimateHeightStep
  <2>3. CASE \E j \in JobIds : SuggestLevels(j) \/ ProcessingFails(j)
    BY <2>3, EndStep
  <2>4. CASE \E j \in JobIds : \E found \in SUBSET Numbers : Suggest(j, found)
    BY <2>4, SuggestStep
  <2>5. QED
    BY <1>4, <2>1, <2>2, <2>3, <2>4 DEF Process
<1>5. CASE Decide
  <2>1. CASE \E s \in suggestions : Reject(s)
    BY <2>1, RejectStep
  <2>2. CASE \E s \in suggestions : \E k \in Kinds, d \in Datasets, c \in {"DERIVED", "SURVEY"} :
                Adopt(s, k, Whole("FLOOR"), d, c)
    <3>1. PICK s \in suggestions, k \in Kinds, d \in Datasets, c \in {"DERIVED", "SURVEY"} :
             Adopt(s, k, Whole("FLOOR"), d, c)
      BY <2>2
    <3>2. PICK z \in Bounds : z = Whole("FLOOR")
      BY WholeTyped
    <3>3. c \in Categories
      BY DEF Categories
    <3>4. Adopt(s, k, z, d, c)
      BY <3>1, <3>2
    <3>5. QED
      BY <3>3, <3>4, AdoptStep
  <2>3. QED
    BY <1>5, <2>1, <2>2 DEF Decide
<1>6. CASE Floors
  <2>1. PICK b \in Edited, d \in Datasets, levels \in LevelSets :
           CreateFloorLevels(Row(b), d, "APPROVED_PLAN", levels)
    BY <1>6 DEF Floors
  <2>2. "APPROVED_PLAN" \in Categories
    BY DEF Categories
  <2>3. QED
    BY <2>1, <2>2, FloorLevelsStep
<1>7. QED
  BY <1>1, <1>2, <1>3, <1>4, <1>5, <1>6 DEF Next

\* The invariant holds of every reachable state.
LEMMA Invariant == Spec => []Inv
BY InitInv, StepInv, PTL DEF Spec

\* Every row is well typed: versions count from one, and objects, jobs,
\* suggestions and heights name objects and sources that can exist.
THEOREM SuggestionsTypeCorrect == Spec => []TypeOK
<1>1. Inv => TypeOK
  <2> SUFFICES ASSUME Inv PROVE TypeOK
    OBVIOUS
  <2>1. heights \subseteq [object : Ids, dataset : Datasets,
                           second : Datasets \cup {NoDataset}]
    BY DEF Inv, HeightInv
  <2>2. QED
    BY <2>1 DEF Inv, ObjectInv, SourceInv, GeometryInv, JobInv, SuggestionInv,
                DecisionInv, TypeOK
<1>2. QED
  BY <1>1, Invariant, PTL

\* Whichever operations created the rows, in whatever order jobs were queued,
\* ran and were decided on: synthetic and real data stay apart.
THEOREM DesignationStaysApart == Spec => []DesignationNeverMixed
<1>1. Inv => DesignationNeverMixed
  <2> SUFFICES ASSUME Inv PROVE DesignationNeverMixed
    OBVIOUS
  <2>1. \A o, x \in objects : o.parent = x.id => o.synthetic = x.synthetic
    BY DEF Inv, ObjectInv
  <2>2. \A g \in geometries :
           g.dataset # NoDataset => SameDesignation(g.dataset, Row(g.object))
    BY DEF Inv, GeometryInv
  <2>3. \A h \in heights : \A d \in {h.dataset, h.second} \ {NoDataset} :
           SameDesignation(d, Row(h.object))
    BY DEF Inv, HeightInv, Requested
  <2>4. \A s \in suggestions : /\ s.synthetic = Row(s.parent).synthetic
                               /\ s.synthetic = (s.dataset \in Synthetic)
    BY DEF Inv, SuggestionInv
  <2>5. QED
    BY <2>1, <2>2, <2>3, <2>4 DEF DesignationNeverMixed
<1>2. QED
  BY <1>1, Invariant, PTL

\* A suggestion is decided once, an object has one founding suggestion, and its
\* first geometry is from that suggestion's source and claims no verification.
THEOREM AdoptionsAreTraceable == Spec => []AdoptionIsTraceable
<1>1. Inv => AdoptionIsTraceable
  BY DEF Inv, DecisionInv
<1>2. QED
  BY <1>1, Invariant, PTL

-----------------------------------------------------------------------------
(* New floors are disjoint.                                                *)

\* Comparing each level with the next is enough: a level ends before any later
\* one begins, because it ends before the first of the later ones does.
LEMMA NeighboursSuffice ==
    ASSUME NEW levels \in LevelSets, WellFormed(levels),
           NEW a \in levels, NEW b \in levels, a # b, a.z.lo <= b.z.lo
    PROVE  a.z.hi <= b.z.lo
<1>1. \A l \in levels : l.z.lo \in Nat /\ l.z.hi \in Nat /\ l.z.lo < l.z.hi
  BY SourceShape DEF LevelSets, Levels, Bounds
<1> DEFINE later == {l.z.lo : l \in {c \in levels : a.z.lo < c.z.lo}}
<1>2. CASE b.z.lo \notin later
  <2>1. ~\E c \in levels : a.z.lo < c.z.lo /\ c.z.lo < b.z.lo
    BY <1>1, <1>2
  <2>2. QED
    BY <2>1 DEF WellFormed
<1>3. CASE b.z.lo \in later
  <2>1. later \subseteq Nat /\ later # {}
    BY <1>1, <1>3
  <2>2. \A l \in levels : a.z.lo < l.z.lo => l.z.lo \in later
    OBVIOUS
  <2>3. \A x \in later : \E l \in levels : a.z.lo < l.z.lo /\ l.z.lo = x
    OBVIOUS
  <2> HIDE DEF later
  <2>4. PICK x \in later : \A y \in later : x <= y
    BY <2>1, LeastElement
  <2>5. PICK c \in levels : a.z.lo < c.z.lo /\ c.z.lo = x
    BY <2>3, <2>4
  <2>6. ~\E m \in levels : a.z.lo < m.z.lo /\ m.z.lo < c.z.lo
    BY <1>1, <2>2, <2>4, <2>5
  <2>7. a # c /\ a.z.lo <= c.z.lo
    BY <1>1, <2>5
  <2>8. a.z.hi <= c.z.lo
    BY <2>6, <2>7 DEF WellFormed
  <2>9. c.z.lo <= b.z.lo
    BY <1>3, <2>4, <2>5
  <2>10. QED
    BY <1>1, <2>8, <2>9
<1>4. QED
  BY <1>2, <1>3

\* So no two levels of a request overlap.
LEMMA LevelsApart ==
    ASSUME NEW levels \in LevelSets, WellFormed(levels),
           NEW a \in levels, NEW b \in levels, a # b
    PROVE  ~Overlap(a.z, b.z)
<1>1. a.z.lo \in Nat /\ a.z.hi \in Nat /\ b.z.lo \in Nat /\ b.z.hi \in Nat
  BY SourceShape DEF LevelSets, Levels, Bounds
<1>2. CASE a.z.lo <= b.z.lo
  BY <1>1, <1>2, NeighboursSuffice DEF Overlap
<1>3. CASE b.z.lo <= a.z.lo
  BY <1>1, <1>3, NeighboursSuffice DEF Overlap
<1>4. QED
  BY <1>1, <1>2, <1>3

\* Only CreateFloorLevels gives an object the name of a floor.
LEMMA NewFloorsAreLevels ==
    ASSUME Inv, [Next]_vars, NEW o \in objects' \ objects, o.id[1] = "floor"
    PROVE  \E b \in Edited, d \in Datasets, levels \in LevelSets :
              CreateFloorLevels(Row(b), d, "APPROVED_PLAN", levels)
<1>1. ASSUME NEW b, NEW n, CreateFloor(b, n)
      PROVE  FALSE
  BY <1>1 DEF CreateFloor, ManualId
<1>2. ASSUME NEW s, NEW k, NEW z, NEW d, NEW c, Adopt(s, k, z, d, c)
      PROVE  FALSE
  BY <1>2 DEF Adopt, SuggestedId
<1>3. objects' # objects
  OBVIOUS
<1>4. ~UNCHANGED vars
  BY <1>3 DEF vars
<1>5. ~\E d \in Datasets : Register(d) \/ \E x \in Given : RecordHeight(x, d)
  BY <1>3 DEF Register, RecordHeight
<1>6. ~Draw
  BY <1>1, <1>3 DEF Draw, CreateGeometry
<1>7. ~Process
  BY <1>3 DEF Process, QueueProcessing, EstimateHeight, SuggestLevels, ProcessingFails,
              Suggest
<1>8. ~Decide
  BY <1>2, <1>3 DEF Decide, Reject
<1>9. QED
  BY <1>4, <1>5, <1>6, <1>7, <1>8 DEF Next, Floors

\* Geometry of an object that was there is the same after floors are created.
LEMMA OldDrawn ==
    ASSUME Inv, NEW b \in Edited, NEW d \in Datasets, NEW levels \in LevelSets,
           NEW category \in Categories, CreateFloorLevels(Row(b), d, category, levels),
           NEW id \in Names
    PROVE  {g \in geometries' : g.object = id} = Versions(id)
<1>1. ASSUME NEW g \in geometries', g.object = id PROVE g \in geometries
  <2>1. g \in geometries \/ \E l \in levels : g = LevelGeometry(b, l, d, category)
    BY LevelsAdded
  <2>2. ASSUME NEW l \in levels, g = LevelGeometry(b, l, d, category) PROVE FALSE
    <3>1. g.object = FloorId(b, l.number)
      BY <2>2 DEF LevelGeometry, Geometry
    <3>2. FloorId(b, l.number) \notin Names
      BY LevelsAdded
    <3>3. QED
      BY <1>1, <3>1, <3>2
  <2>3. QED
    BY <2>1, <2>2
<1>2. geometries \subseteq geometries'
  BY LevelsAdded
<1>3. QED
  BY <1>1, <1>2 DEF Versions

\* A floor just created has one geometry, the level it was requested with.
LEMMA NewDrawn ==
    ASSUME Inv, NEW b \in Edited, NEW d \in Datasets, NEW levels \in LevelSets,
           NEW category \in Categories, CreateFloorLevels(Row(b), d, category, levels),
           NEW l \in levels
    PROVE  {g \in geometries' : g.object = FloorId(b, l.number)}
             = {LevelGeometry(b, l, d, category)}
<1>1. FloorId(b, l.number) \notin Names
  BY LevelsAdded
<1>2. \A g \in geometries : g.object # FloorId(b, l.number)
  BY <1>1 DEF Inv, GeometryInv
<1>3. \A k \in levels : LevelGeometry(b, k, d, category).object = FloorId(b, k.number)
  BY DEF LevelGeometry, Geometry
<1>4. \A k \in levels : FloorId(b, k.number) = FloorId(b, l.number) => k = l
  <2>1. \A k \in levels : k.number = l.number => k = l
    BY LevelsAdded
  <2>2. QED
    BY <2>1 DEF FloorId
<1>5. geometries' = geometries \cup {LevelGeometry(b, k, d, category) : k \in levels}
  BY LevelsAdded
<1>6. QED
  BY <1>2, <1>3, <1>4, <1>5

\* What NewFloorsDisjoint says of one floor.
DrawnThen(id) == {g \in geometries : g.object = id}'

ThenOf(id) == CHOOSE g \in DrawnThen(id) : \A h \in DrawnThen(id) : h.version <= g.version

NewFloorDisjoint(o) ==
    LET siblings == {x \in objects' : x.kind = "FLOOR" /\ x.parent = o.parent /\ x # o}
    IN /\ \A x \in siblings : x.number # o.number
       /\ \A x \in siblings : DrawnThen(x.id) # {} => ~Overlap(ThenOf(x.id).z, ThenOf(o.id).z)
       /\ ThenOf(o.parent).z.lo <= ThenOf(o.id).z.lo
       /\ ThenOf(o.id).z.hi <= ThenOf(o.parent).z.hi

\* Existing floors were compared in their latest version, the others of the
\* request by WellFormed, the building's extent before; and none of the
\* geometry that was compared is touched by the step.
LEMMA NewFloorStep ==
    ASSUME Inv, [Next]_vars, NEW o \in objects' \ objects, o.id[1] = "floor"
    PROVE  NewFloorDisjoint(o)
<1>1. PICK b \in Edited, d \in Datasets, levels \in LevelSets :
         CreateFloorLevels(Row(b), d, "APPROVED_PLAN", levels)
  BY NewFloorsAreLevels
<1>2. PICK category \in Categories : category = "APPROVED_PLAN"
  BY DEF Categories
<1>3. CreateFloorLevels(Row(b), d, category, levels)
  BY <1>1, <1>2
<1>4. b \in Names /\ Row(b).id = b
  BY EditedRow DEF Inv
<1>5. objects' = objects \cup {LevelRow(b, l) : l \in levels}
  BY <1>3, LevelsAdded
<1>6. ASSUME NEW l \in levels
      PROVE  /\ LevelRow(b, l).id = FloorId(b, l.number)
             /\ LevelRow(b, l).parent = b /\ LevelRow(b, l).number = l.number
             /\ DrawnThen(FloorId(b, l.number)) # {}
             /\ ThenOf(FloorId(b, l.number)).z = l.z
  <2>1. DrawnThen(FloorId(b, l.number)) = {LevelGeometry(b, l, d, category)}
    BY <1>3, NewDrawn DEF DrawnThen
  <2>2. LevelGeometry(b, l, d, category).version = 1
        /\ LevelGeometry(b, l, d, category).z = l.z
    <3>1. LevelGeometry(b, l, d, category).version = 1
      BY <1>3, LevelsAdded
    <3>2. QED
      BY <3>1 DEF LevelGeometry, Geometry
  <2>3. ThenOf(FloorId(b, l.number)) = LevelGeometry(b, l, d, category)
    BY <2>1, <2>2 DEF ThenOf
  <2>4. QED
    BY <2>1, <2>2, <2>3 DEF LevelRow
<1>7. ASSUME NEW id \in Names
      PROVE  DrawnThen(id) = Versions(id) /\ ThenOf(id) = Latest(id)
  <2>1. DrawnThen(id) = Versions(id)
    BY <1>3, OldDrawn DEF DrawnThen
  <2>2. QED
    BY <2>1 DEF ThenOf, Latest
<1>8. PICK l \in levels : o = LevelRow(b, l)
  BY <1>5
<1>9. o.id = FloorId(b, l.number) /\ o.parent = b /\ o.number = l.number
      /\ ThenOf(o.id).z = l.z
  BY <1>6, <1>8
<1>10. ASSUME NEW x \in objects', x.kind = "FLOOR", x.parent = o.parent, x # o
       PROVE  /\ x.number # o.number
              /\ DrawnThen(x.id) # {} => ~Overlap(ThenOf(x.id).z, ThenOf(o.id).z)
  <2>1. CASE x \in objects
    <3>1. x \in FloorsOf(b) /\ x.id \in Names
      BY <1>9, <1>10, <2>1 DEF FloorsOf, Names
    <3>2. x.number # l.number
      BY <1>3, <1>4, <3>1 DEF CreateFloorLevels
    <3>3. Versions(x.id) # {} => ~Overlap(Latest(x.id).z, l.z)
      BY <1>3, <1>4, <3>1 DEF CreateFloorLevels, Fits
    <3>4. QED
      BY <1>7, <1>9, <3>1, <3>2, <3>3
  <2>2. CASE x \notin objects
    <3>1. PICK k \in levels : x = LevelRow(b, k)
      BY <1>5, <2>2
    <3>2. k # l
      BY <1>8, <1>10, <3>1
    <3>3. k.number # l.number
      BY <1>3, <3>2, LevelsAdded
    <3>4. WellFormed(levels)
      BY <1>3 DEF CreateFloorLevels
    <3>5. ~Overlap(k.z, l.z)
      BY <3>2, <3>4, LevelsApart
    <3>6. x.number = k.number /\ ThenOf(x.id).z = k.z
      BY <1>6, <3>1
    <3>7. QED
      BY <1>9, <3>3, <3>5, <3>6
  <2>3. QED
    BY <2>1, <2>2
<1>11. ThenOf(o.parent).z.lo <= ThenOf(o.id).z.lo /\ ThenOf(o.id).z.hi <= ThenOf(o.parent).z.hi
  <2>1. Latest(b).z.lo <= l.z.lo /\ l.z.hi <= Latest(b).z.hi
    BY <1>3, <1>4 DEF CreateFloorLevels
  <2>2. QED
    BY <1>4, <1>7, <1>9, <2>1
<1>12. QED
  BY <1>10, <1>11 DEF NewFloorDisjoint

\* Whatever else drew floors before: the floors a request creates lie inside the
\* building, apart from each other and from every floor as drawn by then, and
\* have numbers of their own.
THEOREM CreatedFloorsAreDisjoint == Spec => NewFloorsDisjoint
<1>1. Inv /\ [Next]_vars =>
        [\A o \in objects' \ objects : o.id[1] = "floor" =>
          LET drawn(id) == {g \in geometries' : g.object = id}
              now(id) == CHOOSE g \in drawn(id) : \A h \in drawn(id) : h.version <= g.version
              siblings == {x \in objects' : x.kind = "FLOOR" /\ x.parent = o.parent /\ x # o}
          IN /\ \A x \in siblings : x.number # o.number
             /\ \A x \in siblings : drawn(x.id) # {} => ~Overlap(now(x.id).z, now(o.id).z)
             /\ now(o.parent).z.lo <= now(o.id).z.lo
             /\ now(o.id).z.hi <= now(o.parent).z.hi]_vars
  <2>1. SUFFICES ASSUME Inv, [Next]_vars, NEW o \in objects' \ objects, o.id[1] = "floor"
                 PROVE  NewFloorDisjoint(o)
    BY DEF NewFloorDisjoint, DrawnThen, ThenOf
  <2>2. QED
    BY <2>1, NewFloorStep
<1>2. QED
  BY <1>1, Invariant, PTL DEF Spec, NewFloorsDisjoint
-----------------------------------------------------------------------------
(* The elevation clusters, for every tolerance and every input.            *)

\* A bounded one has a greatest.
LEMMA GreatestElement ==
    ASSUME NEW S, S \subseteq Nat, S # {}, NEW b \in Nat, \A x \in S : x <= b
    PROVE  \E x \in S : \A y \in S : y <= x
<1>1. PICK D : D = {b - x : x \in S}
  OBVIOUS
<1>2. D \subseteq Nat /\ D # {}
  <2>1. \A x \in S : b - x \in Nat
    OBVIOUS
  <2>2. QED
    BY <1>1, <2>1
<1>3. PICK d \in D : \A e \in D : d <= e
  BY <1>2, LeastElement
<1>4. PICK x \in S : d = b - x
  BY <1>1
<1>5. ASSUME NEW y \in S PROVE y <= x
  <2>1. b - y \in D
    BY <1>1
  <2>2. QED
    BY <1>3, <1>4, <2>1
<1>6. QED
  BY <1>5

\* An input is a sorted sequence of naturals.
LEMMA InputIsSorted ==
    ASSUME NEW v \in Inputs
    PROVE  \E n \in Nat : /\ DOMAIN v = 1..n
                          /\ \A i \in 1..n : v[i] \in Nat
                          /\ \A i, k \in 1..n : i <= k => v[i] <= v[k]
<1>1. PICK n \in 1..MaxPoints : v \in [1..n -> 0..MaxValue]
  BY DEF Inputs
<1>2. n \in Nat /\ DOMAIN v = 1..n /\ \A i \in 1..n : v[i] \in Nat
  BY <1>1, PlaneShape
<1>3. Len(v) = n
  BY <1>1, <1>2
<1>4. \A i \in 2..n : v[i - 1] <= v[i]
  BY <1>3 DEF Inputs
<1>5. ASSUME NEW i \in 1..n, NEW k \in 1..n, i <= k PROVE v[i] <= v[k]
  <2>1. PICK bad : bad = {m \in 1..n : i <= m /\ ~(v[i] <= v[m])}
    OBVIOUS
  <2>2. CASE bad = {}
    BY <1>5, <2>1, <2>2
  <2>3. CASE bad # {}
    <3>0. bad \subseteq Nat
      BY <2>1
    <3>1. PICK m \in bad : \A x \in bad : m <= x
      BY <2>3, <3>0, LeastElement
    <3>2. m \in 1..n /\ i <= m /\ ~(v[i] <= v[m])
      BY <2>1, <3>1
    <3>3. i # m
      BY <1>2, <3>2
    <3>4. m - 1 \in 1..n /\ i <= m - 1 /\ m \in 2..n
      BY <1>2, <3>2, <3>3
    <3>5. m - 1 \notin bad
      BY <1>2, <3>1, <3>4
    <3>6. v[i] <= v[m - 1]
      BY <2>1, <3>4, <3>5
    <3>7. v[m - 1] <= v[m]
      BY <1>4, <3>4
    <3>8. v[i] \in Nat /\ v[m - 1] \in Nat /\ v[m] \in Nat
      BY <1>2, <3>2, <3>4
    <3>9. QED
      BY <3>2, <3>6, <3>7, <3>8
  <2>4. QED
    BY <2>2, <2>3
<1>6. QED
  BY <1>2, <1>5

\* The core points up to i that open a cluster: CoreLabel counts them.
Openers(v, i) == {k \in Core(v) : k <= i /\ Opens(v, k)}

\* Core points and openers are finite sets of positions.
LEMMA CoreIsFinite ==
    ASSUME NEW v \in Inputs
    PROVE  /\ Core(v) \subseteq Nat \ {0} /\ IsFiniteSet(Core(v))
           /\ Core(v) \subseteq DOMAIN v
           /\ \A i : /\ Openers(v, i) \subseteq Core(v) /\ IsFiniteSet(Openers(v, i))
                     /\ Cardinality(Openers(v, i)) \in Nat
                     /\ CoreLabel(v, i) = Cardinality(Openers(v, i)) - 1
<1>1. PICK n \in Nat : DOMAIN v = 1..n
  BY InputIsSorted
<1>2. Core(v) \subseteq 1..n
  BY <1>1 DEF Core
<1>3. IsFiniteSet(Core(v))
  <2>1. IsFiniteSet(1..n)
    BY FS_Interval
  <2>2. QED
    BY <1>2, <2>1, FS_Subset
<1>4. ASSUME NEW i
      PROVE  /\ Openers(v, i) \subseteq Core(v) /\ IsFiniteSet(Openers(v, i))
             /\ Cardinality(Openers(v, i)) \in Nat
             /\ CoreLabel(v, i) = Cardinality(Openers(v, i)) - 1
  <2>1. Openers(v, i) \subseteq Core(v)
    BY DEF Openers
  <2>2. IsFiniteSet(Openers(v, i))
    BY <1>3, <2>1, FS_Subset
  <2>3. QED
    BY <2>1, <2>2, FS_CardinalityType DEF CoreLabel, Openers
<1>5. QED
  BY <1>1, <1>2, <1>3, <1>4

\* Two core points have one label when none between them opens a cluster.
LEMMA SameLabel ==
    ASSUME NEW v \in Inputs, NEW i \in Core(v), NEW k \in Core(v), i <= k
    PROVE  CoreLabel(v, i) = CoreLabel(v, k)
             <=> \A m \in Core(v) : i < m /\ m <= k => ~Opens(v, m)
<1>1. Core(v) \subseteq Nat
  BY CoreIsFinite
<1>2. Openers(v, i) \subseteq Openers(v, k)
  BY <1>1 DEF Openers
<1>3. CoreLabel(v, i) = CoreLabel(v, k) <=> Openers(v, i) = Openers(v, k)
  <2>1. Cardinality(Openers(v, i)) \in Nat /\ Cardinality(Openers(v, k)) \in Nat
    BY CoreIsFinite
  <2>2. CoreLabel(v, i) = CoreLabel(v, k)
          <=> Cardinality(Openers(v, k)) = Cardinality(Openers(v, i))
    BY <2>1, CoreIsFinite
  <2>3. Cardinality(Openers(v, k)) = Cardinality(Openers(v, i))
          => Openers(v, k) = Openers(v, i)
    BY <1>2, CoreIsFinite, FS_Subset
  <2>4. QED
    BY <2>2, <2>3
<1>4. Openers(v, i) = Openers(v, k)
        <=> \A m \in Core(v) : i < m /\ m <= k => ~Opens(v, m)
  BY <1>1 DEF Openers
<1>5. QED
  BY <1>3, <1>4

\* What a window holds, in the order of the elevations.
LEMMA WindowOf ==
    ASSUME NEW v \in Inputs, NEW i \in Core(v), NEW k \in Core(v)
    PROVE  /\ i \in Nat /\ k \in Nat /\ v[i] \in Nat /\ v[k] \in Nat
           /\ i <= k => v[i] <= v[k]
           /\ k \in Window(v, i) <=> v[k] - v[i] <= Eps /\ v[i] - v[k] <= Eps
           /\ k \in Window(v, i) <=> i \in Window(v, k)
<1>1. PICK n \in Nat : /\ DOMAIN v = 1..n
                       /\ \A m \in 1..n : v[m] \in Nat
                       /\ \A l, m \in 1..n : l <= m => v[l] <= v[m]
  BY InputIsSorted
<1>2. i \in 1..n /\ k \in 1..n
  BY <1>1 DEF Core
<1>3. QED
  BY <1>1, <1>2 DEF Window

\* Core points near each other have one label: what lies between them is near
\* the first and opens nothing.
LEMMA NearSameLabel ==
    ASSUME NEW v \in Inputs, NEW i \in Core(v), NEW k \in Core(v), k \in Window(v, i)
    PROVE  CoreLabel(v, i) = CoreLabel(v, k)
<1>1. ASSUME NEW a \in Core(v), NEW b \in Core(v), a <= b, b \in Window(v, a)
      PROVE  CoreLabel(v, a) = CoreLabel(v, b)
  <2>1. ASSUME NEW m \in Core(v), a < m, m <= b, Opens(v, m) PROVE FALSE
    <3>1. v[m] - v[a] > Eps
      BY <2>1 DEF Opens
    <3>2. v[m] <= v[b] /\ v[b] - v[a] <= Eps
      BY <1>1, <2>1, WindowOf
    <3>3. v[m] \in Nat /\ v[a] \in Nat /\ v[b] \in Nat
      BY WindowOf
    <3>4. QED
      BY <3>1, <3>2, <3>3, PlaneShape
  <2>2. QED
    BY <1>1, <2>1, SameLabel
<1>2. i \in Nat /\ k \in Nat /\ i \in Window(v, k)
  BY WindowOf
<1>3. i <= k \/ k <= i
  BY <1>2
<1>4. QED
  BY <1>1, <1>2, <1>3

\* Connected core points have one label: those with a label are a closed set.
LEMMA ConnectedSameLabel ==
    ASSUME NEW v \in Inputs, NEW i \in Core(v), NEW k \in Connected(v, i)
    PROVE  k \in Core(v) /\ CoreLabel(v, i) = CoreLabel(v, k)
<1>1. k \in Core(v)
  BY DEF Connected
<1>2. PICK S : S = {m \in Core(v) : CoreLabel(v, i) = CoreLabel(v, m)}
  OBVIOUS
<1>3. S \in SUBSET Core(v) /\ i \in S
  BY <1>2
<1>4. Closed(v, S)
  BY <1>2, NearSameLabel DEF Closed
<1>5. k \in S
  BY <1>3, <1>4 DEF Connected
<1>6. QED
  BY <1>1, <1>2, <1>5

\* Upwards: where nothing opens a cluster after i, a closed set with i holds
\* every later core point, or the first it lacks would be near one it has.
LEMMA ReachesUp ==
    ASSUME NEW v \in Inputs, NEW i \in Core(v), NEW k \in Core(v), i <= k,
           \A m \in Core(v) : i < m /\ m <= k => ~Opens(v, m),
           NEW S \in SUBSET Core(v), i \in S, Closed(v, S)
    PROVE  k \in S
<1>1. PICK bad : bad = {m \in Core(v) : i < m /\ m <= k /\ m \notin S}
  OBVIOUS
<1>2. CASE bad = {}
  <2>1. i \in Nat /\ k \in Nat
    BY WindowOf
  <2>2. QED
    BY <1>1, <1>2, <2>1
<1>3. CASE bad # {}
  <2>1. bad \subseteq Nat
    BY <1>1, CoreIsFinite
  <2>2. PICK m \in bad : \A x \in bad : m <= x
    BY <1>3, <2>1, LeastElement
  <2>3. m \in Core(v) /\ i < m /\ m <= k /\ m \notin S
    BY <1>1, <2>2
  <2>4. PICK q \in Core(v) : q < m /\ ~(v[m] - v[q] > Eps)
    BY <2>3 DEF Opens
  <2>5. /\ q \in Nat /\ m \in Nat /\ i \in Nat
        /\ v[q] \in Nat /\ v[m] \in Nat /\ v[i] \in Nat
        /\ v[q] <= v[m] /\ v[i] <= v[m] /\ (q <= i => v[q] <= v[i])
    BY <2>3, <2>4, WindowOf
  <2>6. CASE q <= i
    <3>1. v[m] - v[i] <= Eps /\ v[i] - v[m] <= Eps
      BY <2>4, <2>5, <2>6, PlaneShape
    <3>2. m \in Window(v, i)
      BY <2>3, <3>1, WindowOf
    <3>3. QED
      BY <2>3, <3>2 DEF Closed
  <2>7. CASE i < q
    <3>1. k \in Nat
      BY WindowOf
    <3>2. q \notin bad
      BY <2>2, <2>4, <2>5
    <3>3. q \in S
      BY <1>1, <2>3, <2>4, <2>5, <2>7, <3>1, <3>2
    <3>4. v[m] - v[q] <= Eps /\ v[q] - v[m] <= Eps
      BY <2>4, <2>5, PlaneShape
    <3>5. m \in Window(v, q)
      BY <2>3, <3>4, WindowOf
    <3>6. QED
      BY <2>3, <3>3, <3>5 DEF Closed
  <2>8. QED
    BY <2>5, <2>6, <2>7
<1>4. QED
  BY <1>2, <1>3

\* Downwards: the last core point it lacks would be near the next one.
LEMMA ReachesDown ==
    ASSUME NEW v \in Inputs, NEW i \in Core(v), NEW k \in Core(v), k <= i,
           \A m \in Core(v) : k < m /\ m <= i => ~Opens(v, m),
           NEW S \in SUBSET Core(v), i \in S, Closed(v, S)
    PROVE  k \in S
<1>0. i \in Nat /\ k \in Nat /\ Core(v) \subseteq Nat
  BY WindowOf, CoreIsFinite
<1>1. PICK bad : bad = {m \in Core(v) : k <= m /\ m < i /\ m \notin S}
  OBVIOUS
<1>2. CASE bad = {}
  BY <1>0, <1>1, <1>2
<1>3. CASE bad # {}
  <2>1. bad \subseteq Nat /\ \A x \in bad : x <= i
    BY <1>0, <1>1
  <2>2. PICK m \in bad : \A x \in bad : x <= m
    BY <1>0, <1>3, <2>1, GreatestElement
  <2>3. m \in Core(v) /\ k <= m /\ m < i /\ m \notin S
    BY <1>1, <2>2
  <2>4. PICK above : above = {x \in Core(v) : m < x}
    OBVIOUS
  <2>5. above \subseteq Nat /\ i \in above
    BY <1>0, <2>3, <2>4
  <2>6. PICK n \in above : \A x \in above : n <= x
    BY <2>5, LeastElement
  <2>7. n \in Core(v) /\ m < n /\ n <= i
    BY <2>4, <2>5, <2>6
  <2>8. n \in S
    <3>1. n \notin bad
      BY <1>0, <2>2, <2>3, <2>7
    <3>2. QED
      BY <1>0, <1>1, <2>3, <2>7, <3>1
  <2>9. ~Opens(v, n)
    BY <1>0, <2>3, <2>7
  <2>10. PICK q \in Core(v) : q < n /\ ~(v[n] - v[q] > Eps)
    BY <2>9 DEF Opens
  <2>11. q <= m
    BY <1>0, <2>3, <2>4, <2>6, <2>7, <2>10
  <2>12. /\ v[q] \in Nat /\ v[m] \in Nat /\ v[n] \in Nat
         /\ v[q] <= v[m] /\ v[m] <= v[n]
    BY <1>0, <2>3, <2>7, <2>10, <2>11, WindowOf
  <2>13. v[m] - v[n] <= Eps /\ v[n] - v[m] <= Eps
    BY <2>10, <2>12, PlaneShape
  <2>14. m \in Window(v, n)
    BY <2>3, <2>7, <2>13, WindowOf
  <2>15. QED
    BY <2>3, <2>8, <2>14 DEF Closed
<1>4. QED
  BY <1>2, <1>3

\* One label is to be connected.
LEMMA LabelIsCluster ==
    ASSUME NEW v \in Inputs, NEW i \in Core(v), NEW k \in Core(v)
    PROVE  CoreLabel(v, i) = CoreLabel(v, k) <=> k \in Connected(v, i)
<1>1. ASSUME CoreLabel(v, i) = CoreLabel(v, k) PROVE k \in Connected(v, i)
  <2>1. i \in Nat /\ k \in Nat
    BY WindowOf
  <2>2. SUFFICES ASSUME NEW S \in SUBSET Core(v), i \in S, Closed(v, S)
                 PROVE  k \in S
    BY DEF Connected
  <2>3. CASE i <= k
    BY <1>1, <2>2, <2>3, SameLabel, ReachesUp
  <2>4. CASE k <= i
    BY <1>1, <2>2, <2>4, SameLabel, ReachesDown
  <2>5. QED
    BY <2>1, <2>3, <2>4
<1>2. QED
  BY <1>1, ConnectedSameLabel

\* The labels are 0, 1, ... up to the number of clusters opened: the first core
\* point opens one, and the next point that opens one has the next label.
LEMMA LabelsHaveNoGap ==
    ASSUME NEW v \in Inputs
    PROVE  LET labels == {CoreLabel(v, i) : i \in Core(v)}
           IN labels = 0..(Cardinality(labels) - 1)
<1>0. Core(v) \subseteq Nat /\ IsFiniteSet(Core(v))
  BY CoreIsFinite
<1>1. PICK O : O = {k \in Core(v) : Opens(v, k)}
  OBVIOUS
<1>2. O \subseteq Nat /\ O \subseteq Core(v) /\ IsFiniteSet(O)
  <2>1. O \subseteq Core(v)
    BY <1>1
  <2>2. QED
    BY <1>0, <2>1, FS_Subset
<1>3. PICK m \in Nat : m = Cardinality(O)
  BY <1>2, FS_CardinalityType
<1>4. ASSUME NEW i \in Core(v)
      PROVE  /\ CoreLabel(v, i) \in 0..(m - 1)
             /\ Openers(v, i) = {k \in O : k <= i}
  <2>1. Openers(v, i) = {k \in O : k <= i}
    BY <1>1 DEF Openers
  <2>2. PICK c \in Nat : c = Cardinality(Openers(v, i))
    BY CoreIsFinite
  <2>3. c <= m
    BY <1>2, <1>3, <2>1, <2>2, FS_Subset
  <2>4. c # 0
    <3>1. PICK x \in Core(v) : \A y \in Core(v) : x <= y
      BY <1>0, LeastElement
    <3>2. Opens(v, x)
      BY <1>0, <3>1 DEF Opens
    <3>3. x \in Openers(v, i)
      BY <3>1, <3>2 DEF Openers
    <3>4. QED
      BY <2>2, <3>3, CoreIsFinite, FS_EmptySet
  <2>5. CoreLabel(v, i) = c - 1
    BY <2>2, CoreIsFinite
  <2>6. QED
    BY <2>1, <2>3, <2>4, <2>5
<1>5. PICK bad : bad = {t \in 0..(m - 1) : ~\E i \in O : Cardinality(Openers(v, i)) = t + 1}
  OBVIOUS
<1>6. ASSUME bad # {} PROVE FALSE
  <2>1. bad \subseteq Nat
    BY <1>5
  <2>2. PICK t \in bad : \A x \in bad : t <= x
    BY <1>6, <2>1, LeastElement
  <2>3. t \in Nat /\ t < m /\ ~\E i \in O : Cardinality(Openers(v, i)) = t + 1
    BY <1>5, <2>2
  <2>4. CASE t = 0
    <3>1. O # {}
      BY <1>3, <2>3, FS_EmptySet
    <3>2. PICK x \in O : \A y \in O : x <= y
      BY <1>2, <3>1, LeastElement
    <3>3. Openers(v, x) = {x}
      <4>1. Openers(v, x) = {k \in O : k <= x}
        BY <1>2, <1>4
      <4>2. \A k \in O : k <= x <=> k = x
        BY <1>2, <3>2
      <4>3. QED
        BY <4>1, <4>2
    <3>4. Cardinality(Openers(v, x)) = 1
      BY <3>3, FS_Singleton
    <3>5. QED
      BY <2>3, <2>4, <3>4
  <2>5. CASE t # 0
    <3>1. t - 1 \in 0..(m - 1) /\ t - 1 \notin bad
      BY <2>2, <2>3, <2>5
    <3>2. PICK i \in O : Cardinality(Openers(v, i)) = t
      <4>1. \E i \in O : Cardinality(Openers(v, i)) = (t - 1) + 1
        BY <1>5, <3>1
      <4>2. QED
        BY <2>3, <4>1
    <3>3. Openers(v, i) = {k \in O : k <= i}
      BY <1>2, <1>4
    <3>4. Openers(v, i) # O
      BY <1>3, <2>3, <3>2
    <3>5. PICK above : above = {k \in O : i < k}
      OBVIOUS
    <3>6. above \subseteq Nat /\ above # {}
      <4>1. PICK k \in O : ~(k <= i)
        BY <3>3, <3>4
      <4>2. k \in above
        BY <1>2, <3>5, <4>1
      <4>3. QED
        BY <1>2, <3>5, <4>2
    <3>7. PICK n \in above : \A x \in above : n <= x
      BY <3>6, LeastElement
    <3>8. n \in O /\ i < n /\ \A k \in O : i < k => n <= k
      BY <3>5, <3>7
    <3>9. Openers(v, n) = {k \in O : k <= n}
      BY <1>2, <1>4, <3>8
    <3>10. Openers(v, n) = Openers(v, i) \cup {n} /\ n \notin Openers(v, i)
      <4>1. \A k \in O : k <= n <=> k <= i \/ k = n
        BY <1>2, <3>8
      <4>2. ~(n <= i)
        BY <1>2, <3>8
      <4>3. QED
        BY <3>3, <3>8, <3>9, <4>1, <4>2
    <3>11. Cardinality(Openers(v, n)) = t + 1
      BY <3>2, <3>10, CoreIsFinite, FS_AddElement
    <3>12. QED
      BY <2>3, <3>8, <3>11
  <2>6. QED
    BY <2>4, <2>5
<1>7. ASSUME bad = {} PROVE {CoreLabel(v, i) : i \in Core(v)} = 0..(m - 1)
  <2>1. ASSUME NEW t \in 0..(m - 1) PROVE \E i \in Core(v) : CoreLabel(v, i) = t
    <3>1. PICK i \in O : Cardinality(Openers(v, i)) = t + 1
      BY <1>5, <1>7
    <3>2. CoreLabel(v, i) = t
      BY <3>1, CoreIsFinite
    <3>3. QED
      BY <1>2, <3>2
  <2>2. QED
    BY <1>4, <2>1
<1>8. PICK labels : labels = {CoreLabel(v, i) : i \in Core(v)}
  OBVIOUS
<1>9. labels = 0..(m - 1)
  BY <1>6, <1>7, <1>8
<1>10. Cardinality(0..(m - 1)) = m
  BY FS_Interval
<1>11. QED
  BY <1>8, <1>9, <1>10

\* For every tolerance, every number of points a cluster needs and every
\* sorted series of elevations, the labels of the one pass are the density
\* clusters.
THEOREM LabelsExact == LabelsAreExact
<1> SUFFICES ASSUME NEW v \in Inputs
             PROVE  /\ \A i, k \in Core(v) : Label(v, i) = Label(v, k) <=> k \in Connected(v, i)
                    /\ \A i \in DOMAIN v \ Core(v) :
                          IF \A k \in Core(v) : v[k] - v[i] > Eps \/ v[i] - v[k] > Eps
                          THEN Label(v, i) = Noise
                          ELSE \E k \in Core(v) : /\ Label(v, k) = Label(v, i)
                                                  /\ v[k] - v[i] <= Eps /\ v[i] - v[k] <= Eps
                    /\ LET labels == {Label(v, i) : i \in Core(v)}
                       IN labels = 0..(Cardinality(labels) - 1)
  BY DEF LabelsAreExact
<1>1. \A i \in Core(v) : Label(v, i) = CoreLabel(v, i)
  BY DEF Label
<1>2. \A i, k \in Core(v) : Label(v, i) = Label(v, k) <=> k \in Connected(v, i)
  BY <1>1, LabelIsCluster
<1>3. ASSUME NEW i \in DOMAIN v \ Core(v)
      PROVE  IF \A k \in Core(v) : v[k] - v[i] > Eps \/ v[i] - v[k] > Eps
             THEN Label(v, i) = Noise
             ELSE \E k \in Core(v) : /\ Label(v, k) = Label(v, i)
                                     /\ v[k] - v[i] <= Eps /\ v[i] - v[k] <= Eps
  <2>1. PICK nearby : nearby = Core(v) \cap Window(v, i)
    OBVIOUS
  <2>2. \A k \in Core(v) : k \in nearby <=> ~(v[k] - v[i] > Eps \/ v[i] - v[k] > Eps)
    <3>1. PICK n \in Nat : DOMAIN v = 1..n /\ \A m \in 1..n : v[m] \in Nat
      BY InputIsSorted
    <3>2. \A k \in Core(v) : k \in 1..n
      BY <3>1, CoreIsFinite
    <3>3. QED
      BY <2>1, <3>1, <3>2, PlaneShape DEF Window
  <2>3. CASE nearby = {}
    <3>1. Label(v, i) = Noise
      BY <2>1, <2>3 DEF Label
    <3>2. QED
      BY <2>2, <2>3, <3>1
  <2>4. CASE nearby # {}
    <3>1. nearby \subseteq Nat
      BY <2>1, CoreIsFinite
    <3>2. Min(nearby) \in nearby
      BY <2>4, <3>1, LeastElement DEF Min
    <3>3. Label(v, i) = CoreLabel(v, Min(nearby))
      BY <2>1, <2>4 DEF Label
    <3>4. PICK k \in Core(v) : k = Min(nearby) /\ k \in Window(v, i)
      BY <2>1, <3>2
    <3>5. Label(v, k) = Label(v, i) /\ v[k] - v[i] <= Eps /\ v[i] - v[k] <= Eps
      BY <1>1, <3>3, <3>4 DEF Window
    <3>6. ~\A x \in Core(v) : v[x] - v[i] > Eps \/ v[i] - v[x] > Eps
      BY <2>2, <3>2, <3>4
    <3>7. QED
      BY <3>4, <3>5, <3>6
  <2>5. QED
    BY <2>3, <2>4
<1>4. {Label(v, i) : i \in Core(v)} = {CoreLabel(v, i) : i \in Core(v)}
  BY <1>1
<1>5. LET labels == {Label(v, i) : i \in Core(v)}
      IN labels = 0..(Cardinality(labels) - 1)
  BY <1>4, LabelsHaveNoGap
<1>6. QED
  BY <1>2, <1>3, <1>5

\* So whatever points its source holds, a SUGGEST_LEVELS job that completes has
\* clustered them by density.
THEOREM LevelsAreClusters == Spec => []LevelsAreDensityClusters
<1>1. LevelsAreDensityClusters
  BY LabelsExact DEF LevelsAreDensityClusters
<1>2. QED
  BY <1>1, PTL

=============================================================================
