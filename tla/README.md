# Verification of the ASTRA 3D-ULPIN prototype

TLA+ models of the backend of this repository, checked with TLC and proved
with TLAPS. Paths are relative to `src/`; `PROJECT.json` maps every definition
to the lines it stands for.

## 1. The system

A FastAPI service over PostgreSQL/PostGIS records a three-dimensional cadastre;
a Celery worker runs long jobs; a Next.js client shows the record. Users are
surveyors, officers, administrators and viewers.

| Component | State | Operations | What makes it correct | Module |
|---|---|---|---|---|
| Spatial objects (`services/objects.py`) | objects, geometry versions | create object, create geometry | hierarchy is fixed, versions only append | Cadastre |
| Prism validation (`services/validation.py`, `topology.py`) | validation jobs with result and snapshot | validate, `require_validation` | a consumed result is valid *now* | Cadastre |
| Records (`services/records.py`) | evidence, rights, identities, review cases | attach, record, issue, submit, decide | the accepted register is exclusive; acceptances know the recorded assertions | Cadastre |
| Property changes (`services/history.py`) | changes and their members | replace, split, merge | a version is consumed once; superseded spaces are final | Cadastre |
| Workflow ledger (`services/workflow.py`) | events per object | append | the ledger agrees with the tables | Cadastre |
| Property case (`routers/governance.py`, `case`) | none, some thirty reads | read | what is called fresh was fresh | PropertyCase |
| Jobs (`worker.py`, `routers/processing.py`) | job rows, Redis messages, worker positions | queue, cancel, dispatch, claim, handle, fail, reap | one owner per job, every job ends, documented lifecycle | ProcessingJobs, JobLifecycle |
| Ingestion (`services/ingestion.py`) | source status | upload, resubmit, ingest | one active job per source, one import | ProcessingJobs (status and job; not the parsing) |
| Processing sources, suggestions, heights, floor levels (`services/pipeline.py`, `assistance.py`) | sources, suggestions, decisions, heights | register, queue, process, adopt, reject, record, create floors | adopted once; real and synthetic never mix; new floors are apart | Suggestions, Planes |
| Exports (`services/exports.py`, `storage.py`) and the scene (`routers/workspace.py`) | bundles, stored files | build, answer from the cache, publish, serve, read a scene | a bundle is complete and shows one state of the record; nothing stale is shown as current | Exports |
| Membership (`routers/governance.py`, `manage.py`) | users, roles | update, provision | an active administrator remains; the trail tells what happened | Members |
| Details and history pages (`routers/governance.py`, `governance.tsx`, `lib/api.ts`) | annotations; the page's cache and form | annotate, refetch, fill, submit, interrupt, page through | no lost update; no row missed | Details |
| Client (`frontend/src`) | token, cache, requests in flight | | | the parts above; sign-in and rendering are not modelled |
| HTTP shell (`main.py`, `db.py`) | rate counter, pool | request | | not modelled |
| Demonstration scripts, numeric code | - | - | - | not modelled |

How they interact. The client calls routers, routers call services, and nearly
every service function that writes starts with `pg_advisory_xact_lock(26011002)`
and holds it until its transaction commits. So these functions are atomic to
each other, and the hard behaviour lies *between* transactions: a validation is
queued for one version, run later by the worker against whatever the parcel has
become, and its result is consumed later still by identity issuance, submission
and acceptance, by different people. Jobs are committed rows that Beat sends
through Redis to workers, at least once; workers crash, stall and lose answers
between their three transactions. The list of hazards in `PROJECT.json` names
the lines where this bites.

## 2. Modules

| Module | Role |
|---|---|
| `Cadastre` | the record: objects, geometry, validation, evidence, assertions, identities, cases, changes, ledger |
| `CadastreProofs`, `LedgerProofs` | its theorems; the second is about the ledger |
| `PropertyCase` | the page of one property, read statement by statement beside `Cadastre`, which it extends |
| `PropertyCaseProofs` | its theorems, from those of the record |
| `JobLifecycle` | abstract specification of the job table |
| `ProcessingJobs` | dispatcher, broker, workers, reaper, endpoints; refines `JobLifecycle` |
| `ProcessingJobsProofs` | its theorems, with the refinement |
| `Exports` | export jobs, storage, bundles, the scene and what a page offers of it |
| `ExportsProofs` | its theorems |
| `Planes` | elevation clusters next to the definition they compute |
| `Suggestions` | sources, assistive jobs, suggestions, heights, floor levels; extends `Planes` |
| `SuggestionsProofs` | the theorems of both |
| `Members` | membership updates and the provisioning tool |
| `MembersProofs` | its theorems |
| `Details` | forms that save details, their requests, and walks through the history |
| `DetailsProofs` | its theorems |
| `MCCadastre`, `MCPropertyCase`, `MCProcessingJobs`, `MCExports`, `MCSuggestions`, `MCMembers`, `MCDetails` | instances for TLC |

An operator whose comment begins with *Slip* is no part of a model: it is the
mistake with which `PROJECT.json` shows that a property can fail.

### Cadastre

One action per service function; its guard is the conjunction of the function's
checks, and a request the function refuses is no step. The abstractions:

- *Geometry.* A recorded prism is the set of ground cells of its footprint, the
  set of elevation levels it spans (empty when `z_min` is missing) and its
  elevation reference. `intersects`, `covers`, `difference` and
  `overlap_volume` become set operations. Numeric tolerances and boundaries
  that touch without sharing area are not distinguished.
- *Rules.* All findings of severity ERROR or CRITICAL that depend on the record
  are in `Blocked`. Warnings and information do not affect `passed`, and
  `INVALID_HIERARCHY` and `INVALID_VOLUME` cannot arise for rows that the
  hierarchy trigger and the construction of the shell have let in.
- *Hierarchy.* Kind, parent and root parcel are columns that a trigger freezes
  (`migrations/versions/0001_schema.sql`), so they are constants of an id, and
  `HierarchyRespected` is the trigger's condition.
- *Facts.* Rights, scopes and relationships are a set of triples. The snapshot
  reads them by row, so identical rows would be distinguished by the code and
  only make its snapshots differ more often.
- *Snapshot.* `Snapshot(p)` has one field per part of the stored JSON: the current
  geometry of each active object, lifecycles, facts, and the cases accepted on
  other parcels. It is compared by value, as the code compares the JSON.
- *Ledger.* Only the latest `after_state` of an object, and of its current
  geometry, is kept; `VALIDATION` and the outcome are appended in one
  transaction, so the intermediate state is never visible.
- *Roles.* `Submitters` and `Deciders` are the users the routers let through.
- A job that is not about a stale version is left QUEUED here when its worker
  fails; the fate of jobs is the subject of `ProcessingJobs`.

### ProcessingJobs

One action per transaction, and per step of the broker, of time and of failure.
`dispatched_at` and `started_at` are abstracted to *never / recent / overdue*;
the ages advance by `DispatchAges` and `StartAges`. `Locked(j)` is the row lock
the handler's transaction holds: the claim and the failure update wait for it
and the reaper skips it. `Dispatch` sends one job (the code sends up to twenty
per poll). The dispatcher's own task also travels through Redis; losing it only
delays a poll. Celery acknowledges early here, so a crash loses the
message and never repeats it: duplicates arise from re-dispatch after 60 seconds
and from a dispatch whose transaction does not commit after the send.
`CompleteUnacknowledged` is a commit that succeeds on the server while the
worker sees an error; `LostCommits` switches it on. The Redis broker is external and
is modelled by what the worker relies on: a bag of messages per job that may
lose some.

`JobLifecycle` is what the table promises its readers: NONE, QUEUED, RUNNING and
one of the ends, output appearing together with COMPLETED. `ProcessingJobs`
instantiates it with its own `status` and `output`, and `ImplementsLifecycle` is
its specification under that mapping.

### PropertyCase

`GET /governance/objects/{id}` takes no lock and runs at READ COMMITTED, so each
of its statements sees another moment. The module keeps those that are compared
or shown together, in their order: geometry, events, cases, decisions, the newest
validation, its findings, and then `require_validation` with the six queries of
the snapshot (`Statements`). `Record` is a step of `Cadastre` between two of
them; it also keeps what that module abstracts away and the page reads: the
order in which validations were queued and the latest event of older geometry
versions. The session's identity map matters here too: completion of the job is
tested by the database, but the row the session has already loaded (`Holding`)
keeps its old result. `view.held` is a history variable: whether
`require_validation` would have accepted the validation when its row was loaded.

### Suggestions and Planes

Requests and jobs are one action each. Ids of adopted objects and of generated
floors are names (`uuid5`) of what founded them, so two suggestions can name one
object; `NewId` is the primary key. What the image, raster and point heuristics
find is a free choice among the numbered regions; heights are rows without a
value. A floor request is a set of numbered bounds, with the comparison of
neighbours in the order of elevations (`WellFormed`) and of existing floors in
their latest version (`Fits`); manual floors and geometry are drawn beside it by
the generic endpoints. The fate of these jobs in the queue is that of all jobs,
in `ProcessingJobs`.

`Planes` is `dbscan_elevations`: one pass over sorted elevations that labels core
points, then border points, next to the definition of density clusters: `Connected`
holds the core points that are in every closed set with the first.

### Exports

The advisory lock is held from before the record is read until the transaction
ends, with Blender and the validator in between: `Build` reads the record
(`Reading`), `Put` stores one file at a time, `Publish` commits the row, and
`Fail` may come anywhere, leaving files behind. A file is abstracted to the set
of geometry versions it depicts, and a digest to that set; the meshes, the
placement arithmetic and the tools are numeric code. `began` is the start of the
transaction, which `now()` puts into `created_at`. `ReadObjects`,
`ReadGeometries` and `ReadBundle` are the statements of the scene, and the
operators after them what `view-math.ts`, `map3d.tsx` and `workspace.tsx` offer
of it. `Corrupt` alters a stored file, which `export_file` answers with 503.

### Details

A page has a cached case (`known`), a form (`form`, the annotation its fields were
filled from) and a request it waits for. `Submit` takes the fields from the form
and the expected predecessor from the cache. On the server `Check` holds the
object's row until `Commit`, and `Answer` goes out before the commit, since
`get_db` commits after the response. `Interrupt` ends the wait and not the
request. `Refetch` may deliver an answer that is older than the last commit.
A walk through the history follows `next_offset` from page to page, without
pages cached by an earlier walk.

### Members

A membership update is four steps, since other transactions commit between
them: `Authenticate` loads the actor's row (`auth.py:56`), `Hold` takes advisory
lock 26011003 and the member's row, `Count` is the last-administrator check, and
`Commit` writes row and audit event. What is easily missed is SQLAlchemy's
identity map, modelled by `copy`: a session that has loaded a row does not
refresh it on a later `SELECT ... FOR UPDATE`, and writes only columns that differ
from what it loaded (`Written`). It matters when a user updates its own row.
The four roles are abstracted to `admin` and `officer`; two users that are not
administrators are told apart by nothing here. The tool (`manage.py`) reads,
then writes, waits for a locked row but never for the advisory lock; `CliRoles`
are the roles it is used for.

## 3. What TLC checks

Bounds are CONSTANTS: `MaxVersion` geometry versions per object, `MaxFacts`
assertions, `Edited` and `Opened` the objects users work on,
`Documented` and `Asserted` those of them that get evidence and assertions, the ids of jobs,
cases and requests; for jobs `MaxCopies` messages per job and `MaxFaults`
crashes, losses and torn dispatches; `MaxDrawn`, `MaxHeights` and `Requests` for
suggestions; `Running`, `Alterable` and `Coded` for exports; `MaxNotes` for
details; `MaxPoints` and `MaxValue` for elevations. Runs without deadlock
checking are those where the bounded system really stops: all ids are used and
nothing is pending.

| Run | Properties | Instance and why it suffices |
|---|---|---|
| neighbours | AcceptedDisjoint, FreshMeansValid, ShownStateIsBacked, AcceptedKnowingAssertions, StaleForever | two parcels, one infrastructure space each whose volume can cross the boundary or have no height, two jobs, two cases, two versions, two assertions that start from one of the spaces: the smallest cross-parcel race, and a right can gain a scope on the other parcel between validation and decision |
| floor | TypeOK, ConsumedOnce, FreshMeansValid, SupersededIsFinal | building, floor, three unit ids in up to two versions, volumes that overlap, halve each other or have no height, evidence on one unit, one job and one case: replace, split and merge, also from stale pages, while a validation or a case is pending |
| case | CaseTypeOK, FreshMeansValid, ShownStateIsBacked, FreshShownWasFresh, StateShownHasItsCase | a unit whose page is read while it and its floor are drawn again, with one validation, one case and one right or relationship: each part of the snapshot but the scopes (a scope needs a right before it) can move between two statements |
| delivery | TypeOK, HandlerOwnsJob, OneActivePerSource | three jobs, two of one source, two workers, one fault, lost acknowledgements |
| lifecycle | ImplementsLifecycle, EveryJobSettles | two jobs, two workers, two copies, two faults, under fairness |
| resubmission | IngestedOnce (violated) | a late failure record, the reaper, a resubmission |
| members | TypeOK, AdministratorRemains, OthersToldExactly | three users, two requests, the tool appointing administrators: with two administrators mutual withdrawal is possible, the third user makes an appointment interfere |
| suggestions | TypeOK, DesignationNeverMixed, AdoptionIsTraceable, LevelsAreDensityClusters, NewFloorsDisjoint | two jobs, so that both can suggest the same name; a source and a parcel of either designation; two floor numbers over three elevations and two drawings, so that a floor can be redrawn before another is requested; all series of at most five elevations in 0..5 with tolerance 1 and three samples, where core, border and noise points all occur |
| workspace | TypeOK, AssetsIntact, OneBundlePerKey, MeshIsOfListedGeometry, WholeIsExact, StreamShowsListed, AnswersTheRecord | two exports by two workers, a floor and a unit redrawn, a split, an identity, one file that is altered, and a page reading in between |
| regenerated | RegeneratedIsOffered (violated) | three exports by one worker, at offsets 0, 10 and 0 |
| details | TypeOK, OneSuccessor, WalkMissesNothing | two pages, two requests, three annotations, history pages of one row, one interruption or failed commit |
| overwritten | NothingOverwrittenUnseen (violated) | two pages, two annotations, no faults |

Symmetry over users, requests, pages, jobs, cases, workers or unborn units is used in safety runs only.
Every property of a passing run has a mutant in `PROJECT.json`: an operator
written just above its target with a plausible slip, under which the run fails.

*Fairness* (run lifecycle). Beat fires every five seconds
(`worker.py:25-27`), hence weak fairness of dispatching, of the reaper and of the
two clocks; a running worker takes messages and finishes or fails what it has
begun, hence weak fairness of its steps. Users and faults are not fair, and
faults are bounded: a broker that loses every message forever settles nothing.
The code's poll takes twenty rows without an order; under a permanent backlog
that is weaker than fairness per job, which is listed as an open hazard.

The other specifications are about safety and assume no fairness.

### Findings

1. *Late failure record* (run resubmission). The failure transaction rejects a
   source that another job has since ingested (`worker.py:85`); the source can
   then be submitted and imported again, against
   `routers/processing.py:36`.
2. *Unseen details overwritten* (run overwritten). The form of
   `governance.tsx:469` sends the fields of the case it was opened with and the
   predecessor of the case that is cached when the button is pressed. Open pages
   fetch the case again, so the newer details of another user are named as the
   predecessor and replaced without the 409 of `routers/governance.py:393`. The
   REPLACE form does the same with `expected_geometry_ids`. What the server
   checks does hold (OneSuccessor).
3. *Regenerated assets not offered* (run regenerated). An export answered from
   the cache inserts nothing, and the scene offers the latest `created_at`: after
   exports at offsets 0, 10 and 0 again the placement at 10 stays on offer,
   against `docs/FINAL_RUN.md:84`.

Seen while modelling, without a run, since no text of the repository says
otherwise plainly: `transition` checks no predecessor, so a case can be accepted
from VALIDATED or CORRECTION_REQUIRED (ShownStateIsBacked says what holds
instead); a FAILED job may have left output when its commit succeeded
unacknowledged; and an administrator's update of its own row is answered from
the copy its session loaded (OthersToldExactly says what holds instead).

## 4. What TLAPS proves

Every property of a passing run but `EveryJobSettles` is stated by a theorem, for
every value of the constants that satisfies the named assumptions, which TLC
also evaluates on the instances:

| Module | Assumptions |
|---|---|
| Cadastre | `Hierarchy`, `VolumeShape`, `SurveyShape`, `Sentinels`, `NoRow` |
| PropertyCase | those, and `OpenedShape`: pages are opened of objects, and the bound admits a version |
| ProcessingJobs | `SourceShape`, `JobSentinels` |
| Exports | `ParcelShape`, `ExportShape` |
| Planes | `PlaneShape` |
| Suggestions | `PlaneShape`; `GivenShape`: the given rows satisfy keys and triggers of the schema; `SourceShape`; `RequestShape`: requests have the types of their schema; `ElevationShape`: the bound on elevations leaves room to draw the given objects |
| Members | `UsersFinite`, `ToolRoles` |
| Details | `DetailsAssumption` |

*Cadastre.* `TypeCorrect`; then the argument for the register. Every step only
moves the record forward (`StepMonotone`: versions and facts only grow, acceptance
and supersession are permanent, completed jobs are frozen). Hence every stored
snapshot lies *behind* its parcel (`RecordInvariant`: TypeOK, `Unborn`,
`CasesBehind`, `JobsBehind`); this is the strengthening that is needed, because
a snapshot equal to the parcel after a step must then have been equal before it,
so nothing the rules read inside the parcel has moved. What they read outside,
the accepted spaces of other parcels, can only shrink while the set of accepted
cases is the same. So `FreshValidationsAreValid` ([]FreshMeansValid), and a case
accepted on a fresh validation clashes with no rival accepted before it:
`RegisterIsExclusive` ([]AcceptedDisjoint). From the same facts follow
`StaleValidationsStayStale` (StaleForever) and `SupersededStaysFinal`
(SupersededIsFinal: consuming a validation implies the object is active).
`VersionsAreConsumedOnce` rests on the invariant that a consumed version is
either superseded or no longer the latest; `AcceptancesKnowAssertions` on the
fact that every assertion with an end in a parcel is in its snapshot.

*The ledger.* `LedgerIsBacked` ([]ShownStateIsBacked). The invariant `LedgerInv` says
of every object that what its latest event shows is backed by a row (`Backed`), and
that jobs and cases name versions that exist (`KnownVersions`); the rows an event
rests on are permanent by `StepMonotone`, so only the step that appends, or that
draws a new version, has to be looked at.

*PropertyCase.* `ReadsLeaveTheRecord`: reading the page changes nothing, so all
theorems about the record hold beside it. `CaseTypeCorrect`; then
`FreshPagesWereFresh` ([]FreshShownWasFresh), although no lock holds the thirty
statements together. Its argument, `ReadInv`: a snapshot that is stale when the
validation's row is loaded differs from the parcel in one of six parts
(`StaleHasGap`: drawn again, moved, related, decided, entitled, scoped). Each part
is monotone, so the difference never closes (`GapsStay`); and the comparison sees
it (`GapsAreSeen`), because the statement that reads this part is still to come
(`Ahead`). `StatesComeWithCases` ([]StateShownHasItsCase) rests on `LedgerIsBacked`
and on the order of the statements: the cases are looked for after the state, and
a case is never withdrawn.

*ProcessingJobs.* `JobsTypeCorrect`; `ClaimsAreExclusive`: a job leaves QUEUED
once, so at most one worker is ever past its claim, and a handler's job is
RUNNING because the handler re-reads the status under the lock the reaper
respects. From it `HandlersOwnTheirJobs`, `SourcesHaveOneActiveJob`, and, when
commits are acknowledged (`~LostCommits`), `WorkersImplementLifecycle`: each step
is one documented transition or leaves status and output alone. The strengthening
is `Acknowledged`: a job past its claim is RUNNING or, after the reaper, FAILED.

*Members* (assumptions `UsersFinite`, `ToolRoles`). `MembersTypeCorrect`, and
`AnAdministratorRemains` under the hypothesis that the tool only appoints
administrators (used to demote, it can remove the last one: it has no guard).
The strengthening `Guarded` says that one request at most is past the lock, that
its copy is the row or an administrator's, and that the administrator it counted
besides the member is still one; without the second part an outdated copy could
hide a withdrawal from the count. `OthersAreToldExactly` (OthersToldExactly) needs no
hypothesis on the tool: a request for somebody else has read the row under its
lock (`CopyExact`), so what differs from its copy is what differs from the row.

*Details.* `DetailsTypeCorrect`; `DetailsHaveOneSuccessor` by the strengthening
`Succession`: the request that holds the row has compared its predecessor with
the history as it still is (`Compared`), because only the holder appends.
`WalksAreComplete` by `Passed`: of the rows there were when the walk began, those
nearer to the front than the offset have been seen, and new rows only push the
others further back, to pages not yet read.

*Exports.* `ExportsTypeCorrect`. `BuildInv`: the lock a building job holds makes its
plan a reading of the present record that no published bundle has (`Locked`), and
what it has stored is from that plan (`Written`). From it `BundlesAreIntact`
([]AssetsIntact), `KeysAreUnique` ([]OneBundlePerKey) and `ExportsAnswerTheRecord`
(AnswersTheRecord). For the page, which reads its lists by several statements,
`PageInv`: two readings of the record, whenever they were made, have the same
spaces or each has one that the other lacks (`NotPartOf`), because a split or merge
both adds and removes. A bundle whose versions agree with the listed geometries
therefore holds no superseded space: `MeshesAreListed`, `WholeSceneIsExact` and
`StreamsAreListed`.

*Suggestions.* The invariant has one part per table and rests on `ObjectInv`: ids
are keys, parents are rows, rows are only added (`Grown`), so what one operation
checked of a row still holds of it for the next. `SuggestionsTypeCorrect`;
`DesignationStaysApart` from `JobInv`, which carries the check of the second source
from the request to the job; `AdoptionsAreTraceable`, because a name no row has yet
has no geometry either, so the first version is the adopted one.
`CreatedFloorsAreDisjoint` (NewFloorsDisjoint): comparing neighbours suffices
(`NeighboursSuffice`, by the first of the later levels), and no geometry that was
compared is touched by the step.

*Planes.* `LabelsExact`: for every tolerance, sample count and sorted input the one
pass labels the density clusters. Two core points have one label exactly when no
core point between them opens a cluster (`SameLabel`); then a closed set that
holds one holds the other (`ReachesUp`, `ReachesDown`, by the first or last core
point it would lack), and the points of one label are a closed set
(`NearSameLabel`). `LabelsHaveNoGap` takes the least label that nobody has. These
arguments need no induction: they use that a set of naturals has a least element.
`LevelsAreClusters` is the property of the run.

*Only model-checked*: `EveryJobSettles`, as liveness under fairness is outside the
prover's reach. In the run lifecycle acknowledgements are not lost, which is the
hypothesis `~LostCommits` of `WorkersImplementLifecycle`; the run members likewise
has the tool appoint administrators only. The findings are runs, not theorems.

## 5. Not modelled

- *HTTP shell.* The rate limit is one atomic counter per minute in Redis, the
  size limit a local sum, the rest configuration: no state that two steps could
  disagree about.
- *Demonstration scripts* (`demo_pipeline.py`, `judge_demo.py`,
  `illustrative_exterior.py`) call the services above in a fixed order.
- *Numeric code*: topology predicates inside PostGIS, rasters, RANSAC, neural
  models, meshes, Blender, the 3D-tiles validator. What they return is a set
  operation, a free choice, or a success or failure.
- *Ingestion's parsing* of GeoJSON and the parcels it imports.
- *Reads* of overview, search, issues, review queue and attestations: single
  queries. *Sign-in*: when the token changes is the Supabase library's affair.
- *Lock order.* Every transaction that takes the advisory lock takes it first,
  except a handler that holds its own job's row, for which only `cancel` waits,
  holding nothing. Without the rows that foreign keys lock, a model would only
  restate this.
- *Loads*: dispatcher batches of twenty, pool exhaustion while an export holds
  the lock, and the paging of suggestions by `created_at` alone. They are listed
  in `PROJECT.json` with the reasons.

## 6. Plan

- An abstract specification of the register (which object is accepted in which
  version, next to `AcceptedDisjoint`) that `Cadastre` implements.
- `JobLifecycle` for executions with lost acknowledgements: a lifecycle that admits
  the failure record after a completed commit, and the refinement without the
  hypothesis.
- The hypotheses under which the findings' properties do hold, as theorems:
  `IngestedOnce` while no handler outlives the reaper's ten minutes.
