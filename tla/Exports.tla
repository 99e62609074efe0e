------------------------------- MODULE Exports -------------------------------
(***************************************************************************)
(* Export bundles of one parcel (backend/app/services/exports.py), the     *)
(* storage they live in (storage.py), the scene that offers the newest one *)
(* (routers/workspace.py) and what a page shows of it (view-math.ts,       *)
(* map3d.tsx, workspace.tsx).                                              *)
(*                                                                         *)
(* An export job takes the advisory lock 26011002, under which every       *)
(* change of the record runs, reads the record, and keeps the lock while   *)
(* Blender and the validator work.  Files reach the storage, which has no  *)
(* transactions, one by one before the row that names them commits.  The   *)
(* scene is read in several statements, each seeing what is committed.     *)
(***************************************************************************)
EXTENDS Naturals, FiniteSets

CONSTANTS
    Spaces,       \* ids of the spatial objects of the parcel
    Drawn,        \* those that have a row and a geometry initially
    Parcel,       \* the root
    Building,     \* its one building
    Floors,       \* the floors of the building, other than the roof
    Edited,       \* bound of the model: the objects that users redraw
    Coded,        \* bound of the model: those that are given identities
    JobIds,       \* ids of export jobs
    PlacementOf,  \* vertical_offset_to_ellipsoid of each job's request
    NoOffset,     \* the request leaves it out
    Running,      \* worker processes
    Alterable,    \* bound of the model: files whose stored copy may be damaged
    MaxVersion,   \* bound of the model: geometry versions per object
    NoJob, NoPlan, NoBundle, NoFile

Frames == {Parcel, Building} \cup Floors

\* What a bundle names besides one mesh per space.
Common == {"scene.glb", "tileset.json", "appearance.glb"}

Names == Spaces \cup Common

ASSUME ParcelShape ==
    /\ Frames \subseteq Spaces /\ Drawn \subseteq Spaces
    /\ Edited \subseteq Spaces /\ Coded \subseteq Spaces
    /\ Spaces \cap Common = {}

ASSUME ExportShape ==
    /\ NoJob \notin JobIds
    /\ Alterable \subseteq Names
    /\ Running \in Nat /\ MaxVersion \in Nat

-----------------------------------------------------------------------------
VARIABLES
    rows,      \* spatial objects that have a row
    version,   \* version of the geometry of each ACTIVE object, else 0
    extent,    \* how the heights of that geometry are given
    coded,     \* objects whose current geometry has an identity version
    phase,     \* where each export job is
    began,     \* when its transaction began: now(), and so created_at
    plan,      \* what it read under the lock
    store,     \* content of the storage under the keys of each job
    bundle,    \* the asset bundle each job has published
    answer,    \* the bundle named in each job's output_assets
    latest,    \* the bundle answered by the export that completed last
    page       \* the scene a page is reading or showing

record  == <<rows, version, extent, coded>>
exports == <<phase, began, plan, store, bundle, answer, latest>>
vars    == <<rows, version, extent, coded, phase, began, plan, store, bundle,
             answer, latest, page>>

Phases == {"NONE", "QUEUED", "WAITING", "BUILDING", "COMPLETED", "FAILED"}

\* EPSG:4979 heights, heights in another reference, none.
Extents == {"ELLIPSOIDAL", "LOCAL", "NONE"}

\* What a file depicts: spaces, each in one version of its geometry.
Parts == SUBSET (Spaces \X Nat)

Plans == [snapshot : [Spaces -> Nat], codes : SUBSET Spaces,
          parts : [Names -> Parts], names : SUBSET Names]

NoScene == [step |-> "IDLE", objects |-> {}, geometries |-> [s \in Spaces |-> 0],
            asset |-> NoJob, whole |-> TRUE]

TypeOK ==
    /\ rows \subseteq Spaces
    /\ version \in [Spaces -> Nat]
    /\ extent \in [Spaces -> Extents]
    /\ coded \subseteq Spaces
    /\ phase \in [JobIds -> Phases]
    /\ began \in [JobIds -> Nat]
    /\ plan \in [JobIds -> Plans \cup {NoPlan}]
    /\ \A j \in JobIds : phase[j] = "BUILDING" => plan[j] \in Plans
    /\ store \in [JobIds \X Names -> Parts \cup {NoFile}]
    /\ bundle \in [JobIds -> Plans \cup {NoBundle}]
    /\ answer \in [JobIds -> JobIds \cup {NoJob}]
    /\ latest \in JobIds \cup {NoJob}
    /\ page \in [step : {"IDLE", "OBJECTS", "GEOMETRIES", "SHOWN"},
                 objects : SUBSET Spaces, geometries : [Spaces -> Nat],
                 asset : JobIds \cup {NoJob}, whole : BOOLEAN]

Init ==
    /\ rows = Drawn
    /\ version = [s \in Spaces |-> IF s \in Drawn THEN 1 ELSE 0]
    /\ extent = [s \in Spaces |-> "ELLIPSOIDAL"]
    /\ coded = {}
    /\ phase = [j \in JobIds |-> "NONE"]
    /\ began = [j \in JobIds |-> 0]
    /\ plan = [j \in JobIds |-> NoPlan]
    /\ store = [f \in JobIds \X Names |-> NoFile]
    /\ bundle = [j \in JobIds |-> NoBundle]
    /\ answer = [j \in JobIds |-> NoJob]
    /\ latest = NoJob
    /\ page = NoScene

-----------------------------------------------------------------------------
(* The record changes under the same advisory lock.                        *)

\* Slip: the transaction does not wait for the lock.
LockIgnored == TRUE

LockFree == \A j \in JobIds : phase[j] # "BUILDING"

Changed == page' = [page EXCEPT !.whole = FALSE]

\* A new version of the geometry of one object.
Draw(s, x) ==
    /\ LockFree
    /\ version[s] \in 1..(MaxVersion - 1)
    /\ version' = [version EXCEPT ![s] = @ + 1]
    /\ extent' = [extent EXCEPT ![s] = x]
    /\ coded' = coded \ {s}
    /\ Changed
    /\ UNCHANGED <<rows, exports>>

\* A split or merge: the units it takes are superseded, the units it returns
\* are new rows.
Repartition(in, out) ==
    /\ LockFree
    /\ in # {} /\ out # {} /\ Cardinality(in) + Cardinality(out) > 2
    /\ Cardinality(in) = 1 \/ Cardinality(out) = 1
    /\ \A s \in in : version[s] > 0
    /\ out \cap rows = {}
    /\ rows' = rows \cup out
    /\ version' = [s \in Spaces |-> IF s \in in THEN 0
                                    ELSE IF s \in out THEN 1 ELSE version[s]]
    /\ coded' = coded \ in
    /\ Changed
    /\ UNCHANGED <<extent, exports>>

IssueIdentity(s) ==
    /\ LockFree
    /\ version[s] > 0 /\ s \notin coded
    /\ coded' = coded \cup {s}
    /\ UNCHANGED <<rows, version, extent, exports, page>>

-----------------------------------------------------------------------------
(* An export job.                                                          *)

Queue(j) ==
    /\ phase[j] = "NONE"
    /\ phase' = [phase EXCEPT ![j] = "QUEUED"]
    /\ UNCHANGED <<record, began, plan, store, bundle, answer, latest, page>>

Begun == {j \in JobIds : began[j] > 0}

\* The transaction begins; every row it inserts will carry this time.
Start(j) ==
    /\ phase[j] = "QUEUED"
    /\ Cardinality({i \in JobIds : phase[i] \in {"WAITING", "BUILDING"}}) < Running
    /\ phase' = [phase EXCEPT ![j] = "WAITING"]
    /\ began' = [began EXCEPT ![j] = Cardinality(Begun) + 1]
    /\ UNCHANGED <<record, plan, store, bundle, answer, latest, page>>

Current == {s \in Spaces : version[s] > 0}

\* The spaces that become meshes: "PARCEL", "BUILDING" and "FLOOR" do not.
Bounded == Current \ Frames

Versions(set) == {<<s, version[s]>> : s \in set}

\* The exterior is drawn when the building and its levels are known.
Dressed ==
    /\ Building \in Current /\ extent[Building] = "ELLIPSOIDAL"
    /\ Floors \cap Current # {}
    /\ \A f \in Floors \cap Current : extent[f] # "NONE"

Depicts(n) ==
    CASE n \in Spaces         -> Versions({n})
      [] n = "appearance.glb" -> Versions(Current \cap ({Building} \cup Floors))
      [] OTHER                -> Versions(Bounded)

FilesNamed == Bounded \cup {n \in Common : n = "appearance.glb" => Dressed}

\* The record as the handler reads it, the lock being held.
Reading == [snapshot |-> version,
            codes    |-> coded,
            parts    |-> [n \in Names |-> Depicts(n)],
            names    |-> FilesNamed]

\* Slip: the codes are left out of the key.
SameGeometry(i, j) ==
    /\ bundle[i] # NoBundle
    /\ bundle[i].snapshot = version
    /\ PlacementOf[i] = PlacementOf[j]

\* Equal cache keys: snapshot, placement and identity codes.
SameKey(i, j) ==
    /\ bundle[i] # NoBundle
    /\ bundle[i].snapshot = version
    /\ bundle[i].codes = coded
    /\ PlacementOf[i] = PlacementOf[j]

Cached(j) == {i \in JobIds : SameKey(i, j)}

\* Slip: a status the column's CHECK does not know.
AnsweredDone(j, i) ==
    /\ phase' = [phase EXCEPT ![j] = "DONE"]
    /\ answer' = [answer EXCEPT ![j] = i]
    /\ latest' = i
    /\ plan' = [plan EXCEPT ![j] = NoPlan]

Answered(j, i) ==
    /\ phase' = [phase EXCEPT ![j] = "COMPLETED"]
    /\ answer' = [answer EXCEPT ![j] = i]
    /\ latest' = i
    /\ plan' = [plan EXCEPT ![j] = NoPlan]

\* Under the lock, the cached bundle is answered; its files are not looked at.
Hit(j) ==
    /\ phase[j] = "WAITING" /\ LockFree
    /\ \E i \in Cached(j) : Answered(j, i)
    /\ UNCHANGED <<record, began, store, bundle, page>>

\* The root and the dressed building are mapped, something is bounded, and
\* every bounded space has heights that can be placed.
Buildable(j) ==
    /\ Parcel \in Current
    /\ Floors \cap Current # {} => Building \in Current
    /\ Bounded # {}
    /\ \A s \in Bounded : \/ extent[s] = "ELLIPSOIDAL"
                          \/ extent[s] = "LOCAL" /\ PlacementOf[j] # NoOffset

\* Without a cached bundle the tools start, and the lock is kept.
Build(j) ==
    /\ phase[j] = "WAITING" /\ LockFree
    /\ Cached(j) = {} /\ Buildable(j)
    /\ phase' = [phase EXCEPT ![j] = "BUILDING"]
    /\ plan' = [plan EXCEPT ![j] = Reading]
    /\ UNCHANGED <<record, began, store, bundle, answer, latest, page>>

Missing(j) == {n \in plan[j].names : store[<<j, n>>] = NoFile}

\* put_bytes stores the finished files under fresh keys, in a fixed order.
Put(j) ==
    /\ phase[j] = "BUILDING" /\ Missing(j) # {}
    /\ LET n == CHOOSE m \in Missing(j) : TRUE
       IN store' = [store EXCEPT ![<<j, n>>] = plan[j].parts[n]]
    /\ UNCHANGED <<record, phase, began, plan, bundle, answer, latest, page>>

\* Slip: the row is published while files are still being written.
SomeStored(j) == Missing(j) # plan[j].names

AllStored(j) == Missing(j) = {}

\* The row with the manifest commits; its digests are those of the content.
Publish(j) ==
    /\ phase[j] = "BUILDING" /\ AllStored(j)
    /\ bundle' = [bundle EXCEPT ![j] = plan[j]]
    /\ Answered(j, j)
    /\ UNCHANGED <<record, began, store, page>>

\* A record that cannot be exported, a tool that fails or times out, a file
\* that cannot be stored, or the worker's death and the reaper: the
\* transaction rolls back, the stored files stay.
Fail(j) ==
    /\ phase[j] \in {"WAITING", "BUILDING"}
    /\ phase' = [phase EXCEPT ![j] = "FAILED"]
    /\ plan' = [plan EXCEPT ![j] = NoPlan]
    /\ UNCHANGED <<record, began, store, bundle, answer, latest, page>>

\* A stored file of a bundle is lost or altered.
Corrupt(j, n) ==
    /\ bundle[j] # NoBundle /\ store[<<j, n>>] \notin {NoFile, {}}
    /\ store' = [store EXCEPT ![<<j, n>>] = {}]
    /\ UNCHANGED <<record, phase, began, plan, bundle, answer, latest, page>>

-----------------------------------------------------------------------------
(* The scene of the parcel, three statements at READ COMMITTED.            *)

\* Slip: superseded objects are left out of the scene.
ActiveRows == Current

\* The query for the objects has no filter on their lifecycle.
ObjectRows == rows

ReadObjects ==
    /\ page.step = "IDLE"
    /\ page' = [page EXCEPT !.step = "OBJECTS", !.objects = ObjectRows]
    /\ UNCHANGED <<record, exports>>

ReadGeometries ==
    /\ page.step = "OBJECTS"
    /\ page' = [page EXCEPT !.step = "GEOMETRIES", !.geometries = version]
    /\ UNCHANGED <<record, exports>>

Published == {j \in JobIds : bundle[j] # NoBundle}

\* ORDER BY created_at DESC, the first row.
Newest == IF Published = {} THEN NoJob
          ELSE CHOOSE j \in Published : \A i \in Published : began[i] <= began[j]

ReadBundle ==
    /\ page.step = "GEOMETRIES"
    /\ page' = [page EXCEPT !.step = "SHOWN", !.asset = Newest]
    /\ UNCHANGED <<record, exports>>

Close ==
    /\ page.step # "IDLE"
    /\ page' = NoScene
    /\ UNCHANGED <<record, exports>>

-----------------------------------------------------------------------------
(* What the page makes of it.                                              *)

\* Slip: a file is shown when the bundle knows the object at all.
AnyVersion(s) == page.geometries[s] > 0 /\ bundle[page.asset].snapshot[s] > 0

\* asset.snapshot[o.id] === the id of the geometry the scene lists for o.
UpToDate(s) == bundle[page.asset].snapshot[s] = page.geometries[s]

Offers(n) ==
    /\ page.step = "SHOWN" /\ page.asset # NoJob
    /\ n \in bundle[page.asset].names

\* A model of one object, shown in the scene and offered for download.
ModelOffered(s) == Offers(s) /\ s \in page.objects /\ UpToDate(s)

\* Slip: some for every.
WholeOfferedForSome ==
    /\ Offers("scene.glb")
    /\ \E s \in Spaces : page.geometries[s] > 0 /\ UpToDate(s)

\* The file of the whole scene.
WholeOffered ==
    /\ Offers("scene.glb")
    /\ \A s \in Spaces : page.geometries[s] > 0 => UpToDate(s)

\* The tile stream, checked for the objects that have a file in the bundle.
StreamOffered ==
    /\ Offers("tileset.json")
    /\ \A s \in page.objects : Offers(s) => UpToDate(s)

\* The exterior, checked for the parcel, the building and the floors.
AppearanceOffered ==
    /\ Offers("appearance.glb")
    /\ \A s \in page.objects \cap Frames : UpToDate(s)

\* export_file: the content when its digest is the manifest's, else a 503.
Served(n) ==
    LET content == store[<<page.asset, n>>]
    IN IF content = bundle[page.asset].parts[n] THEN content ELSE NoFile

-----------------------------------------------------------------------------
Work(j) == \/ Queue(j) \/ Start(j) \/ Hit(j) \/ Build(j) \/ Put(j) \/ Publish(j)
           \/ Fail(j) \/ \E n \in Alterable : Corrupt(j, n)

Change == \/ \E s \in Edited, x \in Extents : Draw(s, x)
          \/ \E in, out \in SUBSET (Spaces \ Frames) : Repartition(in, out)
          \/ \E s \in Coded : IssueIdentity(s)

View == ReadObjects \/ ReadGeometries \/ ReadBundle \/ Close

Next == (\E j \in JobIds : Work(j)) \/ Change \/ View

Spec == Init /\ [][Next]_vars

-----------------------------------------------------------------------------
\* Whatever failed or was interrupted, a published bundle names only files
\* that are in the storage with the content of its manifest, unless somebody
\* altered the storage: "asset_file" of integrity.py has nothing to report.
AssetsIntact ==
    \A j \in Published : \A n \in bundle[j].names :
        \/ store[<<j, n>>] = bundle[j].parts[n]
        \/ n \in Alterable /\ store[<<j, n>>] = {}

\* The UNIQUE cache_key never rejects an export: two of them on the same
\* record, by whichever workers, end in one bundle.
OneBundlePerKey ==
    \A i, j \in Published :
        /\ bundle[i].snapshot = bundle[j].snapshot
        /\ bundle[i].codes = bundle[j].codes
        /\ PlacementOf[i] = PlacementOf[j]
        => i = j

\* The bundle an export answers with, cached or built minutes after the job
\* was queued, is one of the record as it is when the job completes, with its
\* identity codes, and at the placement that the job asked for.
AnswersTheRecord ==
    [][\A j \in JobIds : answer'[j] # answer[j] =>
          LET given == bundle'[answer'[j]]
          IN /\ given.snapshot = version' /\ given.codes = coded'
             /\ PlacementOf[answer'[j]] = PlacementOf[j]]_vars

Listed == {<<s, page.geometries[s]>> : s \in page.objects}

\* "Stale files are not represented as the current geometry"
\* (FINAL_ENGINEERING_REPORT.md): a mesh the page shows or downloads for one
\* object is of the geometry that the scene lists for it, although objects,
\* geometries and bundle are read at different times and files can be altered.
MeshIsOfListedGeometry ==
    \A s \in Spaces :
        ModelOffered(s) /\ Served(s) # NoFile => Served(s) = {<<s, page.geometries[s]>>}

\* The file of the whole scene shows the bounded spaces that the scene lists,
\* each in the listed version, and none that a split or merge superseded: the
\* page compares the listed geometries only, not the objects in the file.
WholeIsExact ==
    WholeOffered /\ Served("scene.glb") # NoFile =>
        Served("scene.glb") =
            {<<s, page.geometries[s]>> :
                s \in {t \in Spaces \ Frames : page.geometries[t] > 0}}

\* When nothing changed while the scene was read, the tile stream and the
\* exterior show nothing but listed geometries.
StreamShowsListed ==
    page.whole =>
        /\ StreamOffered /\ Served("tileset.json") # NoFile
              => Served("tileset.json") \subseteq Listed
        /\ AppearanceOffered /\ Served("appearance.glb") # NoFile
              => Served("appearance.glb") \subseteq Listed

\* "Regenerate current assets through /pipeline/jobs with kind=EXPORT_ASSETS,
\* parcel ID and the explicit visualization elevation offset"
\* (docs/FINAL_RUN.md): the scene offers the bundle that the last regeneration
\* answered with.
RegeneratedIsOffered == Newest = latest
=============================================================================
