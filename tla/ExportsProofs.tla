---------------------------- MODULE ExportsProofs ----------------------------
(***************************************************************************)
(* Theorems of Exports, for every parcel, every set of jobs, requests and  *)
(* workers, and every bound.                                               *)
(*                                                                         *)
(* The argument: the record stands still while a bundle is built, because  *)
(* the advisory lock is held (Locked), so what is published is what the    *)
(* record is.  What a bundle names and shows is a function of the versions *)
(* it was built from (Made).  A split or merge puts objects into the       *)
(* record that no earlier reading has and takes out ones that no later     *)
(* reading has (PageKnows), so a page that compares the versions it lists  *)
(* cannot miss the objects that it does not list.                          *)
(***************************************************************************)
EXTENDS Exports, FiniteSetTheorems, TLAPS

-----------------------------------------------------------------------------
(* Types.                                                                  *)

\* Transactions begin at distinct, bounded times.
Clock == /\ IsFiniteSet(Begun)
         /\ \E b \in Nat : \A j \in JobIds : began[j] <= b

\* A set of naturals with an upper bound has a greatest element.
LEMMA GreatestElement ==
    ASSUME NEW T, T \subseteq Nat, T # {}, NEW b \in Nat, \A t \in T : t <= b
    PROVE  \E t \in T : \A u \in T : u <= t
<1> DEFINE R == OpToRel(<, Nat)
           D == {b - t : t \in T}
<1>1. IsWellFoundedOn(R, Nat)
  BY NatLessThanWellFounded
<1>2. \A x, y \in Nat : <<y, x>> \in R <=> y < x
  BY DEF OpToRel
<1> HIDE DEF R
<1>3. D \subseteq Nat /\ D # {}
  <2>1. \A t \in T : b - t \in Nat
    OBVIOUS
  <2>2. QED
    BY <2>1
<1> HIDE DEF D
<1>4. PICK d \in D : \A e \in D : <<e, d>> \notin R
  BY <1>1, <1>3, WFMin
<1>5. \A e \in D : ~(e < d)
  BY <1>2, <1>3, <1>4
<1>6. PICK t \in T : d = b - t
  BY <1>4 DEF D
<1>7. ASSUME NEW u \in T PROVE u <= t
  <2>1. b - u \in D
    BY DEF D
  <2>2. QED
    BY <1>5, <1>6, <2>1
<1>8. QED
  BY <1>7

\* The scene's newest bundle is one of the published ones.
LEMMA NewestPublished ==
    ASSUME TypeOK, Clock
    PROVE  Newest \in Published \cup {NoJob}
<1>1. CASE Published = {}
  BY <1>1 DEF Newest
<1>2. CASE Published # {}
  <2> DEFINE T == {began[j] : j \in Published}
  <2>0. \A j \in Published : began[j] \in Nat
    BY DEF Published, TypeOK
  <2>1. T \subseteq Nat /\ T # {}
    BY <1>2, <2>0
  <2>2. PICK b \in Nat : \A t \in T : t <= b
    BY DEF Clock, Published
  <2> HIDE DEF T
  <2>3. PICK t \in T : \A u \in T : u <= t
    BY <2>1, <2>2, GreatestElement
  <2>4. \E j \in Published : \A i \in Published : began[i] <= began[j]
    BY <2>3 DEF T
  <2>5. QED
    BY <1>2, <2>4 DEF Newest
<1>3. QED
  BY <1>1, <1>2

\* What each file of a bundle depicts.
LEMMA FilesDepict ==
    /\ \A s \in Spaces : Depicts(s) = Versions({s})
    /\ \A n \in {"scene.glb", "tileset.json"} : Depicts(n) = Versions(Bounded)
    /\ Depicts("appearance.glb") = Versions(Current \cap ({Building} \cup Floors))
<1>1. \A n \in Common : n \notin Spaces
  BY ParcelShape
<1>2. \A s \in Spaces : s # "appearance.glb"
  BY <1>1 DEF Common
<1>3. \A s \in Spaces : Depicts(s) = Versions({s})
  BY <1>2, Zenon DEF Depicts
<1>4. "scene.glb" # "appearance.glb" /\ "tileset.json" # "appearance.glb"
  OBVIOUS
<1>5. \A n \in {"scene.glb", "tileset.json"} : n \notin Spaces /\ n # "appearance.glb"
  BY <1>1, <1>4 DEF Common
<1>6. \A n \in {"scene.glb", "tileset.json"} : Depicts(n) = Versions(Bounded)
  BY <1>5, Zenon DEF Depicts
<1>7. "appearance.glb" \notin Spaces
  BY <1>1 DEF Common
<1>8. Depicts("appearance.glb") = Versions(Current \cap ({Building} \cup Floors))
  BY <1>7, Zenon DEF Depicts
<1>9. QED
  BY <1>3, <1>6, <1>8

\* What an export reads under the lock is a plan.
LEMMA ReadingType ==
    ASSUME TypeOK
    PROVE  Reading \in Plans
<1>1. version \in [Spaces -> Nat] /\ coded \in SUBSET Spaces
  BY DEF TypeOK
<1>2. \A set \in SUBSET Spaces : Versions(set) \in Parts
  BY DEF TypeOK, Versions, Parts
<1>3. Building \in Spaces /\ Floors \subseteq Spaces /\ Bounded \subseteq Spaces
  BY ParcelShape DEF Frames, Bounded, Current
<1>4. \A n \in Names : Depicts(n) \in Parts
  BY <1>2, <1>3, FilesDepict DEF Names, Common
<1>5. [n \in Names |-> Depicts(n)] \in [Names -> Parts]
  BY <1>4
<1>6. FilesNamed \in SUBSET Names
  BY <1>3 DEF FilesNamed, Names
<1>7. QED
  BY <1>1, <1>5, <1>6 DEF Reading, Plans

\* A state without jobs is well typed.
LEMMA InitType == Init => TypeOK /\ Clock
<1> SUFFICES ASSUME Init PROVE TypeOK /\ Clock
  OBVIOUS
<1>1. TypeOK
  BY ParcelShape DEF Init, TypeOK, Extents, Phases, NoScene
<1>2. Begun = {}
  BY DEF Init, Begun
<1>3. Clock
  BY <1>2, FS_EmptySet DEF Init, Clock
<1>4. QED
  BY <1>1, <1>3

\* The scenes a page may hold.
Pages == [step : {"IDLE", "OBJECTS", "GEOMETRIES", "SHOWN"},
          objects : SUBSET Spaces, geometries : [Spaces -> Nat],
          asset : JobIds \cup {NoJob}, whole : BOOLEAN]

\* A page only ever reads what is in the tables.
LEMMA PageType ==
    ASSUME TypeOK, Clock
    PROVE  /\ Changed => page' \in Pages
           /\ View => page' \in Pages
<1>1. page \in Pages
  BY DEF TypeOK, Pages
<1>2. \A p \in Pages : /\ [p EXCEPT !.whole = FALSE] \in Pages
                       /\ \A st \in {"OBJECTS", "GEOMETRIES", "SHOWN"} :
                             [p EXCEPT !.step = st] \in Pages
                       /\ \A x \in SUBSET Spaces : [p EXCEPT !.objects = x] \in Pages
                       /\ \A x \in [Spaces -> Nat] : [p EXCEPT !.geometries = x] \in Pages
                       /\ \A x \in JobIds \cup {NoJob} : [p EXCEPT !.asset = x] \in Pages
  BY DEF Pages
<1>3. rows \in SUBSET Spaces /\ version \in [Spaces -> Nat]
  BY DEF TypeOK
<1>4. Newest \in JobIds \cup {NoJob}
  BY NewestPublished DEF Published
<1>5. NoScene \in Pages
  BY DEF NoScene, Pages
<1>6. CASE Changed
  BY <1>1, <1>2, <1>6 DEF Changed
<1>7. CASE View
  <2>1. CASE ReadObjects
    BY <2>1, <1>1, <1>2, <1>3 DEF ReadObjects, ObjectRows
  <2>2. CASE ReadGeometries
    BY <2>2, <1>1, <1>2, <1>3 DEF ReadGeometries
  <2>3. CASE ReadBundle
    BY <2>3, <1>1, <1>2, <1>4 DEF ReadBundle
  <2>4. CASE Close
    BY <2>4, <1>5 DEF Close
  <2>5. QED
    BY <1>7, <2>1, <2>2, <2>3, <2>4 DEF View
<1>8. QED
  BY <1>6, <1>7

\* Every step keeps every column in its type.
LEMMA StepType ==
    ASSUME TypeOK, Clock, [Next]_vars
    PROVE  TypeOK'
<1> USE DEF TypeOK
<1>1. ASSUME NEW s \in Spaces, NEW x \in Extents, Draw(s, x) PROVE TypeOK'
  <2>1. page' \in Pages
    BY <1>1, PageType DEF Draw
  <2>2. QED
    BY <1>1, <2>1 DEF Draw, exports, Pages
<1>2. ASSUME NEW in \in SUBSET Spaces, NEW out \in SUBSET Spaces, Repartition(in, out)
      PROVE  TypeOK'
  <2>1. page' \in Pages
    BY <1>2, PageType DEF Repartition
  <2>2. QED
    BY <1>2, <2>1 DEF Repartition, exports, Pages
<1>3. ASSUME NEW s \in Spaces, IssueIdentity(s) PROVE TypeOK'
  BY <1>3 DEF IssueIdentity, exports
<1>4. ASSUME NEW j \in JobIds, Queue(j) PROVE TypeOK'
  BY <1>4 DEF Queue, record, Phases
<1>5. ASSUME NEW j \in JobIds, Start(j) PROVE TypeOK'
  <2>1. Cardinality(Begun) + 1 \in Nat
    BY FS_CardinalityType DEF Clock
  <2>2. QED
    BY <1>5, <2>1 DEF Start, record, Phases
<1>6. ASSUME NEW j \in JobIds, Hit(j) PROVE TypeOK'
  BY <1>6 DEF Hit, Answered, Cached, record, Phases
<1>7. ASSUME NEW j \in JobIds, Build(j) PROVE TypeOK'
  BY <1>7, ReadingType DEF Build, record, Phases
<1>8. ASSUME NEW j \in JobIds, Put(j) PROVE TypeOK'
  <2>1. PICK n \in Missing(j) : store' = [store EXCEPT ![<<j, n>>] = plan[j].parts[n]]
    BY <1>8 DEF Put
  <2>2. plan[j] \in Plans
    BY <1>8 DEF Put
  <2>3. n \in Names /\ plan[j].parts[n] \in Parts
    BY <2>1, <2>2 DEF Missing, Plans
  <2>4. QED
    BY <1>8, <2>1, <2>3 DEF Put, record
<1>9. ASSUME NEW j \in JobIds, Publish(j) PROVE TypeOK'
  BY <1>9 DEF Publish, Answered, record, Phases
<1>10. ASSUME NEW j \in JobIds, Fail(j) PROVE TypeOK'
  BY <1>10 DEF Fail, record, Phases
<1>11. ASSUME NEW j \in JobIds, NEW n \in Names, Corrupt(j, n) PROVE TypeOK'
  BY <1>11 DEF Corrupt, record, Parts
<1>12. CASE View
  <2>1. page' \in Pages
    BY <1>12, PageType
  <2>2. QED
    BY <1>12, <2>1
       DEF View, ReadObjects, ReadGeometries, ReadBundle, Close, record, exports, Pages
<1>13. CASE UNCHANGED vars
  BY <1>13 DEF vars, record
<1>14. CASE \E j \in JobIds : Work(j)
  BY <1>14, <1>4, <1>5, <1>6, <1>7, <1>8, <1>9, <1>10, <1>11, ExportShape DEF Work
<1>15. CASE Change
  BY <1>15, <1>1, <1>2, <1>3, ParcelShape DEF Change
<1>16. QED
  BY <1>12, <1>13, <1>14, <1>15 DEF Next

\* Every transaction that begins is later than those that have.
LEMMA ClockStep ==
    ASSUME TypeOK, Clock, [Next]_vars
    PROVE  Clock'
<1>1. ASSUME began' = began PROVE Clock'
  BY <1>1 DEF Clock, Begun
<1>2. ASSUME NEW j \in JobIds, Start(j) PROVE Clock'
  <2>1. PICK n \in Nat : n = Cardinality(Begun)
    BY FS_CardinalityType DEF Clock
  <2>2. began' = [began EXCEPT ![j] = n + 1]
    BY <1>2, <2>1 DEF Start
  <2>3. PICK b \in Nat : \A i \in JobIds : began[i] <= b
    BY DEF Clock
  <2>4. \A i \in JobIds : began'[i] <= b + n + 1
    BY <2>2, <2>3 DEF TypeOK
  <2>5. Begun' = Begun \cup {j}
    BY <2>2 DEF Begun, TypeOK
  <2>6. IsFiniteSet(Begun \cup {j})
    BY FS_AddElement DEF Clock
  <2>7. b + n + 1 \in Nat
    OBVIOUS
  <2>8. QED
    BY <2>4, <2>5, <2>6, <2>7 DEF Clock
<1>3. ASSUME NEW j \in JobIds, Work(j) PROVE Clock'
  BY <1>1, <1>2, <1>3 DEF Work, Queue, Hit, Build, Put, Publish, Fail, Corrupt
<1>4. CASE Change
  BY <1>1, <1>4 DEF Change, Draw, Repartition, IssueIdentity, exports
<1>5. CASE View
  BY <1>1, <1>5 DEF View, ReadObjects, ReadGeometries, ReadBundle, Close, exports
<1>6. CASE UNCHANGED vars
  BY <1>1, <1>6 DEF vars
<1>7. QED
  BY <1>3, <1>4, <1>5, <1>6 DEF Next

\* Types and clock hold in every reachable state.
LEMMA TypesAndClock == Spec => [](TypeOK /\ Clock)
<1>1. TypeOK /\ Clock /\ [Next]_vars => TypeOK' /\ Clock'
  BY StepType, ClockStep
<1>2. QED
  BY <1>1, InitType, PTL DEF Spec

\* The exports, their files and the page keep their types.
THEOREM ExportsTypeCorrect == Spec => []TypeOK
BY TypesAndClock, PTL

-----------------------------------------------------------------------------
(* What the advisory lock and the order of the writes guarantee.           *)

\* While a bundle is built nothing else is, its plan is the record as it is
\* now, and no published bundle has its key.
Locked ==
    \A j \in JobIds : phase[j] = "BUILDING" =>
        /\ plan[j] = Reading
        /\ Cached(j) = {}
        /\ \A i \in JobIds : phase[i] = "BUILDING" => i = j

\* A job's files are written while it builds, from its plan; a bundle exists
\* once they all are, and afterwards only an alteration touches them.
Written ==
    \A j \in JobIds :
        /\ phase[j] \in {"NONE", "QUEUED", "WAITING"} =>
              \A n \in Names : store[<<j, n>>] = NoFile
        /\ phase[j] = "BUILDING" =>
              \A n \in Names : store[<<j, n>>] \in {NoFile, plan[j].parts[n]}
        /\ bundle[j] # NoBundle => phase[j] = "COMPLETED"

Meshes(v) == {<<s, v[s]>> : s \in {t \in Spaces \ Frames : v[t] > 0}}

\* What a bundle names and shows follows from the versions it was built from.
Made(b) ==
    /\ \A s \in Spaces : b.parts[s] = {<<s, b.snapshot[s]>>}
    /\ \A n \in {"scene.glb", "tileset.json"} : b.parts[n] = Meshes(b.snapshot)
    /\ \A x \in b.parts["appearance.glb"] :
          \E s \in Frames : x = <<s, b.snapshot[s]>> /\ b.snapshot[s] > 0
    /\ \A s \in Spaces \ Frames : b.snapshot[s] > 0 => s \in b.names

BundlesMade == \A j \in Published : Made(bundle[j])

BuildInv == Locked /\ Written /\ AssetsIntact /\ OneBundlePerKey /\ BundlesMade

\* What is read under the lock is made from the versions it contains.
LEMMA ReadingMade ==
    ASSUME TypeOK
    PROVE  Made(Reading)
<1> DEFINE b == Reading
<1>1. /\ b.snapshot = version /\ b.names = FilesNamed
      /\ \A n \in Names : b.parts[n] = Depicts(n)
  BY DEF Reading
<1>3. "scene.glb" \in Names /\ "tileset.json" \in Names /\ "appearance.glb" \in Names
  BY DEF Names, Common
<1>4. Building \in Frames /\ Floors \subseteq Frames
  BY DEF Frames
<1>5. \A s \in Spaces : b.parts[s] = {<<s, version[s]>>}
  <2>1. \A s \in Spaces : Versions({s}) = {<<s, version[s]>>}
    BY DEF Versions
  <2>2. QED
    BY <1>1, <2>1, FilesDepict DEF Names
<1>6. Versions(Bounded) = Meshes(version)
  BY DEF Versions, Meshes, Bounded, Current
<1>7. \A n \in {"scene.glb", "tileset.json"} : b.parts[n] = Meshes(version)
  BY <1>1, <1>3, <1>6, FilesDepict
<1>8. \A x \in b.parts["appearance.glb"] :
         \E s \in Frames : x = <<s, version[s]>> /\ version[s] > 0
  BY <1>1, <1>3, <1>4, FilesDepict DEF Versions, Current
<1>9. \A s \in Spaces \ Frames : version[s] > 0 => s \in b.names
  BY <1>1 DEF FilesNamed, Bounded, Current
<1> HIDE DEF b
<1>10. Made(b)
  BY <1>1, <1>5, <1>7, <1>8, <1>9 DEF Made
<1>11. QED
  BY <1>10 DEF b

\* The record changes, and a page is read, without a job being touched.
LEMMA RecordLeavesJobs ==
    ASSUME TypeOK, Change \/ View
    PROVE  /\ UNCHANGED exports
           /\ View => UNCHANGED record
           /\ Change => LockFree
BY DEF Change, View, Draw, Repartition, IssueIdentity, ReadObjects, ReadGeometries,
       ReadBundle, Close

\* What is read depends on the record alone.
LEMMA ReadingFrame ==
    ASSUME UNCHANGED record
    PROVE  Reading' = Reading
BY DEF record, Reading, Depicts, FilesNamed, Dressed, Bounded, Current, Versions

\* Changes of the record and pages leave the exports in order.
LEMMA BuildInvRecord ==
    ASSUME TypeOK, BuildInv, Change \/ View \/ UNCHANGED vars
    PROVE  BuildInv'
<1>1. UNCHANGED exports /\ (UNCHANGED record \/ LockFree)
  BY RecordLeavesJobs DEF vars, exports, record
<1>2. Written' /\ AssetsIntact' /\ OneBundlePerKey' /\ BundlesMade'
  BY <1>1 DEF BuildInv, exports, Written, AssetsIntact, OneBundlePerKey, BundlesMade,
              Published, Made, Meshes
<1>3. Locked'
  <2>1. CASE LockFree
    BY <1>1, <2>1 DEF LockFree, Locked, exports
  <2>2. CASE UNCHANGED record
    BY <1>1, <2>2, ReadingFrame DEF BuildInv, Locked, Cached, SameKey, exports, record
  <2>3. QED
    BY <1>1, <2>1, <2>2
<1>4. QED
  BY <1>2, <1>3 DEF BuildInv

\* Taking, starting, answering from the cache and failing publish nothing and
\* write no file.
LEMMA BuildInvPhases ==
    ASSUME TypeOK, BuildInv, NEW j \in JobIds, Queue(j) \/ Start(j) \/ Hit(j) \/ Fail(j)
    PROVE  BuildInv'
<1>1. /\ UNCHANGED record /\ bundle' = bundle /\ store' = store
      /\ \E p \in {"QUEUED", "WAITING", "COMPLETED", "FAILED"} :
            phase' = [phase EXCEPT ![j] = p]
      /\ \A i \in JobIds \ {j} : plan'[i] = plan[i]
      /\ phase[j] = "COMPLETED" => FALSE
  BY DEF Queue, Start, Hit, Fail, Answered, TypeOK
<1>2. \A i \in JobIds : /\ i # j => phase'[i] = phase[i]
                        /\ phase'[j] # "BUILDING"
  BY <1>1 DEF TypeOK
<1>3. Locked'
  BY <1>1, <1>2, ReadingFrame DEF BuildInv, Locked, Cached, SameKey, record
<1>4. Written'
  <2>1. bundle[j] = NoBundle
    BY <1>1 DEF BuildInv, Written
  <2>2. phase'[j] \in {"NONE", "QUEUED", "WAITING"} => phase[j] \in {"NONE", "QUEUED"}
    BY DEF Queue, Start, Hit, Fail, Answered, TypeOK
  <2>3. QED
    BY <1>1, <1>2, <2>1, <2>2 DEF BuildInv, Written
<1>5. AssetsIntact' /\ OneBundlePerKey' /\ BundlesMade'
  BY <1>1 DEF BuildInv, AssetsIntact, OneBundlePerKey, BundlesMade, Published, Made, Meshes
<1>6. QED
  BY <1>3, <1>4, <1>5 DEF BuildInv

\* A build starts with the lock free and without a bundle of its key.
LEMMA BuildInvBuild ==
    ASSUME TypeOK, BuildInv, NEW j \in JobIds, Build(j)
    PROVE  BuildInv'
<1>1. /\ UNCHANGED record /\ bundle' = bundle /\ store' = store
      /\ phase' = [phase EXCEPT ![j] = "BUILDING"] /\ phase[j] = "WAITING"
      /\ plan' = [plan EXCEPT ![j] = Reading]
      /\ LockFree /\ Cached(j) = {}
  BY DEF Build
<1>2. Reading' = Reading /\ Cached(j)' = {}
  BY <1>1, ReadingFrame DEF Cached, SameKey, record
<1>3. Locked'
  BY <1>1, <1>2 DEF Locked, LockFree, TypeOK
<1>4. Written'
  <2>1. \A n \in Names : store[<<j, n>>] = NoFile
    BY <1>1 DEF BuildInv, Written
  <2>2. bundle[j] = NoBundle
    BY <1>1 DEF BuildInv, Written
  <2>3. \A i \in JobIds \ {j} : phase'[i] = phase[i] /\ plan'[i] = plan[i]
    BY <1>1 DEF TypeOK
  <2>4. phase'[j] = "BUILDING"
    BY <1>1 DEF TypeOK
  <2>5. QED
    BY <1>1, <2>1, <2>2, <2>3, <2>4 DEF BuildInv, Written
<1>5. AssetsIntact' /\ OneBundlePerKey' /\ BundlesMade'
  BY <1>1 DEF BuildInv, AssetsIntact, OneBundlePerKey, BundlesMade, Published, Made, Meshes
<1>6. QED
  BY <1>3, <1>4, <1>5 DEF BuildInv

\* A file is stored for a job that has not published, an altered one was a
\* file of a published bundle.
LEMMA BuildInvFiles ==
    ASSUME TypeOK, BuildInv, NEW j \in JobIds,
           Put(j) \/ \E n \in Alterable : Corrupt(j, n)
    PROVE  BuildInv'
<1>1. UNCHANGED record /\ bundle' = bundle /\ phase' = phase /\ plan' = plan
  BY DEF Put, Corrupt
<1>2. PICK n, c :
        /\ n \in Names
        /\ store' = [store EXCEPT ![<<j, n>>] = c]
        /\ \/ phase[j] = "BUILDING" /\ c = plan[j].parts[n]
           \/ bundle[j] # NoBundle /\ c = {} /\ n \in Alterable
  <2>1. CASE Put(j)
    <3>1. plan[j] \in Plans
      BY <2>1 DEF Put, TypeOK
    <3>2. PICK n \in Missing(j) : store' = [store EXCEPT ![<<j, n>>] = plan[j].parts[n]]
      BY <2>1 DEF Put
    <3>3. n \in Names
      BY <3>1, <3>2 DEF Missing, Plans
    <3>4. QED
      BY <2>1, <3>2, <3>3 DEF Put
  <2>2. CASE \E n \in Alterable : Corrupt(j, n)
    BY <2>2, ExportShape DEF Corrupt
  <2>3. QED
    BY <2>1, <2>2
<1>3. \A i \in JobIds, m \in Names :
         store'[<<i, m>>] = IF i = j /\ m = n THEN c ELSE store[<<i, m>>]
  BY <1>2 DEF TypeOK
<1>4. Locked'
  BY <1>1, ReadingFrame DEF BuildInv, Locked, Cached, SameKey, record
<1>5. Written'
  BY <1>1, <1>2, <1>3 DEF BuildInv, Written
<1>6. AssetsIntact'
  <2>1. \A i \in Published : i \in JobIds /\ bundle[i].names \subseteq Names
    BY DEF Published, TypeOK, Plans
  <2>2. bundle[j] # NoBundle => phase[j] # "BUILDING"
    BY DEF BuildInv, Written
  <2>3. Published' = Published
    BY <1>1 DEF Published
  <2>4. ASSUME NEW i \in Published, NEW m \in bundle[i].names
        PROVE  \/ store'[<<i, m>>] = bundle[i].parts[m]
               \/ m \in Alterable /\ store'[<<i, m>>] = {}
    <3>1. \/ store[<<i, m>>] = bundle[i].parts[m]
          \/ m \in Alterable /\ store[<<i, m>>] = {}
      BY DEF BuildInv, AssetsIntact
    <3>2. i \in JobIds /\ m \in Names /\ bundle[i] # NoBundle
      BY <2>1 DEF Published
    <3>3. CASE i = j /\ m = n
      BY <1>2, <1>3, <2>2, <3>2, <3>3
    <3>4. CASE ~(i = j /\ m = n)
      BY <1>3, <3>1, <3>2, <3>4
    <3>5. QED
      BY <3>3, <3>4
  <2>5. QED
    BY <1>1, <2>3, <2>4 DEF AssetsIntact
<1>7. OneBundlePerKey' /\ BundlesMade'
  BY <1>1 DEF BuildInv, OneBundlePerKey, BundlesMade, Published, Made, Meshes
<1>8. QED
  BY <1>4, <1>5, <1>6, <1>7 DEF BuildInv

\* What is published is the record as it is, with every file in place, and no
\* published bundle has its key.
LEMMA BuildInvPublish ==
    ASSUME TypeOK, BuildInv, NEW j \in JobIds, Publish(j)
    PROVE  BuildInv'
<1>1. /\ UNCHANGED record /\ store' = store
      /\ phase[j] = "BUILDING" /\ phase' = [phase EXCEPT ![j] = "COMPLETED"]
      /\ bundle' = [bundle EXCEPT ![j] = plan[j]]
      /\ \A i \in JobIds \ {j} : plan'[i] = plan[i]
      /\ Missing(j) = {}
  BY DEF Publish, Answered, AllStored, TypeOK
<1>2. plan[j] = Reading /\ Reading \in Plans /\ Cached(j) = {}
  BY <1>1, ReadingType DEF BuildInv, Locked
<1>3. \A i \in JobIds : /\ bundle'[i] = IF i = j THEN Reading ELSE bundle[i]
                        /\ phase'[i] = IF i = j THEN "COMPLETED" ELSE phase[i]
  BY <1>1, <1>2 DEF TypeOK
<1>4. \A i \in JobIds : phase'[i] # "BUILDING"
  BY <1>1, <1>3 DEF BuildInv, Locked
<1>5. Locked'
  BY <1>4 DEF Locked
<1>6. Written'
  BY <1>1, <1>3, <1>4 DEF BuildInv, Written
<1>7. \A i \in Published' : i \in JobIds /\ (i = j \/ i \in Published)
  BY <1>3 DEF Published
<1>8. AssetsIntact'
  <2>1. ASSUME NEW n \in Reading.names PROVE store[<<j, n>>] = Reading.parts[n]
    <3>1. n \in Names
      BY <1>2, <2>1 DEF Plans
    <3>2. store[<<j, n>>] # NoFile
      BY <1>1, <1>2 DEF Missing
    <3>3. QED
      BY <1>1, <1>2, <3>1, <3>2 DEF BuildInv, Written
  <2>2. ASSUME NEW i \in Published', NEW m \in bundle'[i].names
        PROVE  \/ store[<<i, m>>] = bundle'[i].parts[m]
               \/ m \in Alterable /\ store[<<i, m>>] = {}
    <3>1. CASE i = j
      BY <1>3, <2>1, <2>2, <3>1
    <3>2. CASE i # j
      BY <1>3, <1>7, <3>2 DEF BuildInv, AssetsIntact
    <3>3. QED
      BY <3>1, <3>2
  <2>3. QED
    BY <1>1, <2>2 DEF AssetsIntact
<1>9. OneBundlePerKey'
  <2>1. Reading.snapshot = version /\ Reading.codes = coded
    BY DEF Reading
  <2>2. \A i \in Published : ~(/\ bundle[i].snapshot = version
                               /\ bundle[i].codes = coded
                               /\ PlacementOf[i] = PlacementOf[j])
    BY <1>2 DEF Cached, SameKey, Published
  <2>3. QED
    BY <1>3, <1>7, <2>1, <2>2 DEF BuildInv, OneBundlePerKey
<1>10. BundlesMade'
  <2>1. \A b : Made(b)' <=> Made(b)
    BY DEF Made, Meshes
  <2>2. QED
    BY <1>3, <1>7, <2>1, ReadingMade DEF BuildInv, BundlesMade
<1>11. QED
  BY <1>5, <1>6, <1>8, <1>9, <1>10 DEF BuildInv

\* Every step keeps the exports in order.
LEMMA BuildInvStep ==
    ASSUME TypeOK, BuildInv, [Next]_vars
    PROVE  BuildInv'
BY BuildInvRecord, BuildInvPhases, BuildInvBuild, BuildInvFiles, BuildInvPublish
   DEF Next, Work

\* Nothing is published, stored or building initially.
LEMMA BuildInvInit == Init => BuildInv
BY DEF Init, BuildInv, Locked, Written, AssetsIntact, OneBundlePerKey, BundlesMade,
       Published

\* The exports are in order in every reachable state.
LEMMA BuildInvariant == Spec => []BuildInv
<1>1. TypeOK /\ Clock /\ BuildInv /\ [Next]_vars => BuildInv'
  BY BuildInvStep
<1>2. QED
  BY <1>1, BuildInvInit, TypesAndClock, PTL DEF Spec

\* A published bundle names only files that are in the storage with the
\* content of its manifest, unless somebody altered the storage.
THEOREM BundlesAreIntact == Spec => []AssetsIntact
<1>1. BuildInv => AssetsIntact
  BY DEF BuildInv
<1>2. QED
  BY <1>1, BuildInvariant, PTL

\* Exports of one record at one placement, by whichever workers, end in one
\* bundle.
THEOREM KeysAreUnique == Spec => []OneBundlePerKey
<1>1. BuildInv => OneBundlePerKey
  BY DEF BuildInv
<1>2. QED
  BY <1>1, BuildInvariant, PTL

\* An export answers with a bundle of the record as it is when it completes.
THEOREM ExportsAnswerTheRecord == Spec => AnswersTheRecord
<1> DEFINE Answers(j) ==
      LET given == bundle'[answer'[j]]
      IN /\ given.snapshot = version' /\ given.codes = coded'
         /\ PlacementOf[answer'[j]] = PlacementOf[j]
<1>1. ASSUME TypeOK, BuildInv, [Next]_vars, NEW j \in JobIds, answer'[j] # answer[j]
      PROVE  Answers(j)
  <2>1. PICK i \in JobIds : Hit(i) \/ Publish(i)
    BY <1>1 DEF Next, Work, Change, View, Queue, Start, Build, Put, Fail, Corrupt, Draw,
                Repartition, IssueIdentity, ReadObjects, ReadGeometries, ReadBundle,
                Close, exports, vars
  <2>2. CASE Hit(i)
    <3>1. PICK k \in Cached(i) : answer' = [answer EXCEPT ![i] = k]
      BY <2>2 DEF Hit, Answered
    <3>2. i = j /\ answer'[j] = k
      BY <1>1, <3>1 DEF TypeOK
    <3>3. bundle' = bundle /\ version' = version /\ coded' = coded
      BY <2>2 DEF Hit, record
    <3>4. QED
      BY <3>1, <3>2, <3>3 DEF Cached, SameKey
  <2>3. CASE Publish(i)
    <3>1. answer' = [answer EXCEPT ![i] = i] /\ bundle' = [bundle EXCEPT ![i] = plan[i]]
      BY <2>3 DEF Publish, Answered
    <3>2. i = j /\ answer'[j] = j /\ bundle'[j] = plan[j]
      BY <1>1, <3>1 DEF TypeOK
    <3>3. plan[j] = Reading
      BY <1>1, <2>3, <3>2 DEF Publish, BuildInv, Locked
    <3>4. version' = version /\ coded' = coded
      BY <2>3 DEF Publish, record
    <3>5. Reading.snapshot = version /\ Reading.codes = coded
      BY DEF Reading
    <3>6. QED
      BY <3>2, <3>3, <3>4, <3>5
  <2>4. QED
    BY <2>1, <2>2, <2>3
<1>2. TypeOK /\ BuildInv /\ [Next]_vars
        => [\A j \in JobIds : answer'[j] # answer[j] => Answers(j)]_vars
  BY <1>1
<1>3. QED
  BY <1>2, TypesAndClock, BuildInvariant, PTL DEF Spec, AnswersTheRecord

-----------------------------------------------------------------------------
(* What a page can tell from the versions it lists.                        *)

Mapped(v) == {s \in Spaces : v[s] > 0}

\* The spaces of v are not just some of those of w.
NotPartOf(v, w) == Mapped(v) \subseteq Mapped(w) => Mapped(v) = Mapped(w)

\* Two readings of the record, whenever they were made, have the same spaces
\* or each has one that the other lacks.
PageKnows ==
    /\ Mapped(version) \subseteq rows
    /\ \A j \in Published : /\ Mapped(bundle[j].snapshot) \subseteq rows
                            /\ NotPartOf(version, bundle[j].snapshot)
    /\ page.step \in {"GEOMETRIES", "SHOWN"} =>
          /\ Mapped(page.geometries) \subseteq rows
          /\ NotPartOf(page.geometries, version)
          /\ \A j \in Published : NotPartOf(page.geometries, bundle[j].snapshot)

\* What is shown is a published bundle; while nothing changed, what was read
\* is the record.
PageHolds ==
    /\ page.step = "SHOWN" => page.asset \in Published \cup {NoJob}
    /\ page.whole => /\ page.step # "IDLE" => page.objects = rows
                     /\ page.step \in {"GEOMETRIES", "SHOWN"} => page.geometries = version

PageInv == PageKnows /\ PageHolds

\* A split or merge puts in spaces that no reading has had, and takes out some
\* that every reading had that had no fewer.
LEMMA RepartitionMaps ==
    ASSUME TypeOK, Mapped(version) \subseteq rows,
           NEW in \in SUBSET Spaces, NEW out \in SUBSET Spaces, Repartition(in, out)
    PROVE  /\ Mapped(version)' \subseteq rows'
           /\ \A v : Mapped(v) \subseteq rows => NotPartOf(version', v)
           /\ \A v : Mapped(v) \subseteq rows /\ NotPartOf(v, version)
                     => NotPartOf(v, version')
<1>1. /\ in # {} /\ out # {} /\ out \cap rows = {} /\ in \subseteq Mapped(version)
      /\ rows' = rows \cup out
      /\ \A s \in Spaces : version'[s] = IF s \in in THEN 0
                                         ELSE IF s \in out THEN 1 ELSE version[s]
  BY DEF Repartition, Mapped
<1>2. \A s \in Spaces : s \in Mapped(version') <=>
          (s \in Mapped(version) \/ s \in out) /\ s \notin in
  BY <1>1 DEF Mapped, TypeOK
<1>3. Mapped(version)' = Mapped(version')
  BY DEF Mapped
<1>4. \A v : Mapped(v) \subseteq Spaces
  BY DEF Mapped
<1> HIDE DEF Mapped
<1>5. QED
  BY <1>1, <1>2, <1>3, <1>4 DEF NotPartOf

\* What a step may do to the record, the bundles and the page.
LEMMA StepCases ==
    ASSUME [Next]_vars
    PROVE  \/ \E s \in Spaces, x \in Extents : Draw(s, x)
           \/ \E in, out \in SUBSET (Spaces \ Frames) : Repartition(in, out)
           \/ \E j \in JobIds : Publish(j)
           \/ View
           \/ UNCHANGED <<rows, version, bundle, page>>
BY ParcelShape
   DEF Next, Work, Change, Queue, Start, Hit, Build, Put, Fail, Corrupt, IssueIdentity,
       record, exports, vars

\* A publication adds one bundle, of the present versions.
LEMMA PublishedOne ==
    ASSUME TypeOK, BuildInv, NEW j \in JobIds, Publish(j)
    PROVE  /\ Published \subseteq Published' /\ Published' \subseteq Published \cup {j}
           /\ bundle'[j].snapshot = version
           /\ \A i \in Published : i # j /\ bundle'[i] = bundle[i]
           /\ UNCHANGED <<rows, version, page>>
<1>1. /\ bundle' = [bundle EXCEPT ![j] = plan[j]] /\ phase[j] = "BUILDING"
      /\ UNCHANGED <<rows, version, page>>
  BY DEF Publish, record
<1>2. plan[j] = Reading /\ bundle[j] = NoBundle
  BY <1>1 DEF BuildInv, Locked, Written
<1>3. \A i \in JobIds : bundle'[i] = IF i = j THEN Reading ELSE bundle[i]
  BY <1>1, <1>2 DEF TypeOK
<1>4. Reading.snapshot = version
  BY DEF Reading
<1>5. QED
  BY <1>1, <1>2, <1>3, <1>4 DEF Published

\* No step lets one reading of the record become a part of another.
LEMMA PageKnowsStep ==
    ASSUME TypeOK, TypeOK', BuildInv, PageKnows, [Next]_vars
    PROVE  PageKnows'
<1>1. ASSUME NEW s \in Spaces, NEW x \in Extents, Draw(s, x) PROVE PageKnows'
  <2>1. /\ rows' = rows /\ bundle' = bundle
        /\ page'.step = page.step /\ page'.geometries = page.geometries
    BY <1>1 DEF Draw, Changed, exports, TypeOK
  <2>2. /\ version' = [version EXCEPT ![s] = @ + 1] /\ version[s] > 0
    BY <1>1 DEF Draw
  <2>3. Mapped(version') = Mapped(version)
    BY <2>2 DEF Mapped, TypeOK
  <2>4. QED
    BY <2>1, <2>3 DEF PageKnows, NotPartOf, Published, Mapped
<1>2. ASSUME NEW in \in SUBSET Spaces, NEW out \in SUBSET Spaces, Repartition(in, out)
      PROVE  PageKnows'
  <2>1. /\ rows \subseteq rows' /\ Published' = Published /\ bundle' = bundle
        /\ page'.step = page.step /\ page'.geometries = page.geometries
    BY <1>2 DEF Repartition, Changed, exports, Published, TypeOK
  <2>2. /\ Mapped(version)' \subseteq rows'
        /\ \A v : Mapped(v) \subseteq rows => NotPartOf(version', v)
        /\ \A v : Mapped(v) \subseteq rows /\ NotPartOf(v, version) => NotPartOf(v, version')
    BY <1>2, RepartitionMaps DEF PageKnows
  <2>3. Mapped(version') \subseteq rows'
    BY <2>2 DEF Mapped
  <2>4. \A j \in Published : /\ Mapped(bundle[j].snapshot) \subseteq rows'
                             /\ NotPartOf(version', bundle[j].snapshot)
    BY <2>1, <2>2 DEF PageKnows
  <2>5. page.step \in {"GEOMETRIES", "SHOWN"} =>
          /\ Mapped(page.geometries) \subseteq rows'
          /\ NotPartOf(page.geometries, version')
          /\ \A j \in Published : NotPartOf(page.geometries, bundle[j].snapshot)
    BY <2>1, <2>2 DEF PageKnows
  <2>6. QED
    BY <2>1, <2>3, <2>4, <2>5 DEF PageKnows, NotPartOf, Mapped
<1>3. ASSUME NEW j \in JobIds, Publish(j) PROVE PageKnows'
  <2>1. /\ Published' \subseteq Published \cup {j}
        /\ bundle'[j].snapshot = version
        /\ \A i \in Published : bundle'[i] = bundle[i]
        /\ UNCHANGED <<rows, version, page>>
    BY <1>3, PublishedOne
  <2>2. \A i \in Published' : \/ bundle'[i].snapshot = version
                              \/ i \in Published /\ bundle'[i] = bundle[i]
    BY <2>1
  <2>3. NotPartOf(version, version)
    BY DEF NotPartOf
  <2>4. QED
    BY <2>1, <2>2, <2>3 DEF PageKnows, NotPartOf, Mapped
<1>4. CASE View
  <2>1. UNCHANGED <<rows, version, bundle>>
    BY <1>4 DEF View, ReadObjects, ReadGeometries, ReadBundle, Close, record, exports
  <2>2. \/ page'.step \notin {"GEOMETRIES", "SHOWN"}
        \/ page'.geometries = version
        \/ page'.geometries = page.geometries /\ page.step \in {"GEOMETRIES", "SHOWN"}
    <3>1. CASE ReadObjects
      BY <3>1 DEF ReadObjects, TypeOK
    <3>2. CASE ReadGeometries
      BY <3>2 DEF ReadGeometries, TypeOK
    <3>3. CASE ReadBundle
      BY <3>3 DEF ReadBundle, TypeOK
    <3>4. CASE Close
      BY <3>4 DEF Close, NoScene
    <3>5. QED
      BY <1>4, <3>1, <3>2, <3>3, <3>4 DEF View
  <2>3. /\ Mapped(version) \subseteq rows
        /\ \A j \in Published : /\ Mapped(bundle[j].snapshot) \subseteq rows
                                /\ NotPartOf(version, bundle[j].snapshot)
    BY DEF PageKnows
  <2>4. page'.step \in {"GEOMETRIES", "SHOWN"} =>
          /\ Mapped(page'.geometries) \subseteq rows
          /\ NotPartOf(page'.geometries, version)
          /\ \A j \in Published : NotPartOf(page'.geometries, bundle[j].snapshot)
    <3>1. CASE page'.geometries = version
      BY <2>3, <3>1 DEF NotPartOf
    <3>2. CASE page'.geometries = page.geometries /\ page.step \in {"GEOMETRIES", "SHOWN"}
      BY <3>2 DEF PageKnows
    <3>3. QED
      BY <2>2, <3>1, <3>2
  <2>5. QED
    BY <2>1, <2>3, <2>4 DEF PageKnows, NotPartOf, Mapped, Published
<1>5. CASE UNCHANGED <<rows, version, bundle, page>>
  BY <1>5 DEF PageKnows, NotPartOf, Mapped, Published
<1>6. QED
  BY <1>1, <1>2, <1>3, <1>4, <1>5, StepCases

\* What a page holds it has read.
LEMMA PageHoldsStep ==
    ASSUME TypeOK, Clock, BuildInv, PageHolds, [Next]_vars
    PROVE  PageHolds'
<1>1. ASSUME Changed, bundle' = bundle PROVE PageHolds'
  BY <1>1 DEF Changed, PageHolds, Published, TypeOK
<1>2. ASSUME NEW j \in JobIds, Publish(j) PROVE PageHolds'
  <2>1. Published \subseteq Published' /\ UNCHANGED <<rows, version, page>>
    BY <1>2, PublishedOne
  <2>2. QED
    BY <2>1 DEF PageHolds
<1>3. CASE View
  <2>1. UNCHANGED <<rows, version, bundle>>
    BY <1>3 DEF View, ReadObjects, ReadGeometries, ReadBundle, Close, record, exports
  <2>2. CASE ReadObjects
    BY <2>1, <2>2 DEF ReadObjects, ObjectRows, PageHolds, TypeOK
  <2>3. CASE ReadGeometries
    BY <2>1, <2>3 DEF ReadGeometries, PageHolds, TypeOK
  <2>4. CASE ReadBundle
    <3>1. page'.asset \in Published \cup {NoJob}
      BY <2>4, NewestPublished DEF ReadBundle, TypeOK
    <3>2. /\ page'.whole = page.whole /\ page'.objects = page.objects
          /\ page'.geometries = page.geometries
      BY <2>4 DEF ReadBundle, TypeOK
    <3>3. QED
      BY <2>1, <2>4, <3>1, <3>2 DEF ReadBundle, PageHolds, Published
  <2>5. CASE Close
    BY <2>5 DEF Close, NoScene, PageHolds
  <2>6. QED
    BY <1>3, <2>2, <2>3, <2>4, <2>5 DEF View
<1>4. CASE UNCHANGED <<rows, version, bundle, page>>
  BY <1>4 DEF PageHolds, Published
<1>5. QED
  BY <1>1, <1>2, <1>3, <1>4, StepCases DEF Draw, Repartition, exports

\* Every page of every behavior knows and holds what PageInv says.
LEMMA PageInvariant == Spec => []PageInv
<1>1. Init => PageInv
  BY DEF Init, PageInv, PageKnows, PageHolds, Mapped, Published, NoScene
<1>2. TypeOK /\ TypeOK' /\ Clock /\ BuildInv /\ PageInv /\ [Next]_vars => PageInv'
  BY PageKnowsStep, PageHoldsStep DEF PageInv
<1>3. QED
  BY <1>1, <1>2, TypesAndClock, BuildInvariant, PTL DEF Spec

-----------------------------------------------------------------------------
\* What is served is the file of a published bundle, as it was built.
LEMMA ServedAsMade ==
    ASSUME TypeOK, BuildInv, PageInv, NEW n \in Names, Offers(n), Served(n) # NoFile
    PROVE  /\ page.asset \in Published /\ Made(bundle[page.asset])
           /\ Served(n) = bundle[page.asset].parts[n]
<1>1. page.asset \in Published
  BY DEF Offers, PageInv, PageHolds
<1>2. QED
  BY <1>1 DEF BuildInv, BundlesMade, Served

\* A mesh that is shown or downloaded for one object is of the geometry that
\* the scene lists for it.
THEOREM MeshesAreListed == Spec => []MeshIsOfListedGeometry
<1>1. ASSUME TypeOK, BuildInv, PageInv, NEW s \in Spaces,
             ModelOffered(s), Served(s) # NoFile
      PROVE  Served(s) = {<<s, page.geometries[s]>>}
  <2>1. s \in Names /\ Offers(s)
    BY <1>1 DEF Names, ModelOffered
  <2>2. /\ Made(bundle[page.asset]) /\ Served(s) = bundle[page.asset].parts[s]
    BY <1>1, <2>1, ServedAsMade
  <2>3. QED
    BY <1>1, <2>2 DEF Made, ModelOffered, UpToDate
<1>2. TypeOK /\ BuildInv /\ PageInv => MeshIsOfListedGeometry
  BY <1>1 DEF MeshIsOfListedGeometry
<1>3. QED
  BY <1>2, TypesAndClock, BuildInvariant, PageInvariant, PTL

\* The file of the whole scene shows the bounded spaces that the scene lists,
\* in the listed versions, and none that a split or merge superseded.
THEOREM WholeSceneIsExact == Spec => []WholeIsExact
<1>1. ASSUME TypeOK, BuildInv, PageInv, WholeOffered, Served("scene.glb") # NoFile
      PROVE  Served("scene.glb") = Meshes(page.geometries)
  <2> DEFINE snap == bundle[page.asset].snapshot
             listed == page.geometries
  <2>1. "scene.glb" \in Names /\ Offers("scene.glb")
    BY <1>1 DEF Names, Common, WholeOffered
  <2>2. /\ page.asset \in Published /\ Made(bundle[page.asset])
        /\ Served("scene.glb") = bundle[page.asset].parts["scene.glb"]
    BY <1>1, <2>1, ServedAsMade
  <2>3. Served("scene.glb") = Meshes(snap)
    BY <2>2 DEF Made
  <2>4. \A s \in Spaces : listed[s] > 0 => snap[s] = listed[s]
    BY <1>1 DEF WholeOffered, UpToDate
  <2>5. NotPartOf(listed, snap)
    BY <1>1, <2>1, <2>2 DEF PageInv, PageKnows, Offers
  <2>6. Mapped(listed) = Mapped(snap)
    BY <2>4, <2>5 DEF NotPartOf, Mapped
  <2>7. \A s \in Spaces : snap[s] > 0 <=> listed[s] > 0
    BY <2>6 DEF Mapped
  <2>8. {t \in Spaces \ Frames : snap[t] > 0} = {t \in Spaces \ Frames : listed[t] > 0}
    BY <2>7
  <2>9. Meshes(snap) = Meshes(listed)
    BY <2>4, <2>8 DEF Meshes
  <2>10. QED
    BY <2>3, <2>9
<1>2. TypeOK /\ BuildInv /\ PageInv => WholeIsExact
  BY <1>1 DEF WholeIsExact, Meshes
<1>3. QED
  BY <1>2, TypesAndClock, BuildInvariant, PageInvariant, PTL

\* When nothing changed while the scene was read, the tile stream and the
\* exterior show nothing but listed geometries.
THEOREM StreamsAreListed == Spec => []StreamShowsListed
<1>1. ASSUME TypeOK, BuildInv, PageInv, page.whole,
             StreamOffered, Served("tileset.json") # NoFile
      PROVE  Served("tileset.json") \subseteq Listed
  <2> DEFINE b == bundle[page.asset]
  <2>1. "tileset.json" \in Names /\ Offers("tileset.json")
    BY <1>1 DEF Names, Common, StreamOffered
  <2>2. /\ page.asset \in Published /\ Made(b)
        /\ Served("tileset.json") = b.parts["tileset.json"]
    BY <1>1, <2>1, ServedAsMade
  <2>3. page.objects = rows
    BY <1>1, <2>1 DEF PageInv, PageHolds, Offers
  <2>4. Mapped(b.snapshot) \subseteq rows
    BY <1>1, <2>2 DEF PageInv, PageKnows
  <2>5. ASSUME NEW s \in Spaces \ Frames, b.snapshot[s] > 0
        PROVE  <<s, b.snapshot[s]>> \in Listed
    <3>1. s \in page.objects
      BY <2>3, <2>4, <2>5 DEF Mapped
    <3>2. Offers(s)
      BY <2>1, <2>2, <2>5 DEF Made, Offers
    <3>3. b.snapshot[s] = page.geometries[s]
      BY <1>1, <3>1, <3>2 DEF StreamOffered, UpToDate
    <3>4. QED
      BY <3>1, <3>3 DEF Listed
  <2>6. b.parts["tileset.json"] = Meshes(b.snapshot)
    BY <2>2 DEF Made
  <2>7. QED
    BY <2>2, <2>5, <2>6 DEF Meshes
<1>2. ASSUME TypeOK, BuildInv, PageInv, page.whole,
             AppearanceOffered, Served("appearance.glb") # NoFile
      PROVE  Served("appearance.glb") \subseteq Listed
  <2> DEFINE b == bundle[page.asset]
  <2>1. "appearance.glb" \in Names /\ Offers("appearance.glb")
    BY <1>2 DEF Names, Common, AppearanceOffered
  <2>2. /\ page.asset \in Published /\ Made(b)
        /\ Served("appearance.glb") = b.parts["appearance.glb"]
    BY <1>2, <2>1, ServedAsMade
  <2>3. page.objects = rows
    BY <1>2, <2>1 DEF PageInv, PageHolds, Offers
  <2>4. Mapped(b.snapshot) \subseteq rows
    BY <1>2, <2>2 DEF PageInv, PageKnows
  <2>5. ASSUME NEW s \in Frames, b.snapshot[s] > 0
        PROVE  <<s, b.snapshot[s]>> \in Listed
    <3>1. s \in page.objects
      BY <2>3, <2>4, <2>5, ParcelShape DEF Mapped
    <3>2. b.snapshot[s] = page.geometries[s]
      BY <1>2, <2>5, <3>1 DEF AppearanceOffered, UpToDate
    <3>3. QED
      BY <3>1, <3>2 DEF Listed
  <2>6. QED
    BY <2>2, <2>5 DEF Made
<1>3. TypeOK /\ BuildInv /\ PageInv => StreamShowsListed
  BY <1>1, <1>2 DEF StreamShowsListed
<1>4. QED
  BY <1>3, TypesAndClock, BuildInvariant, PageInvariant, PTL
=============================================================================
