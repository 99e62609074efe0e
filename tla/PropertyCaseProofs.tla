------------------------- MODULE PropertyCaseProofs -------------------------
(***************************************************************************)
(* Theorems of PropertyCase, for every record, every set of opened objects *)
(* and every bound: what a read that is torn apart by the transactions it  *)
(* runs beside may still be trusted to say.                                *)
(*                                                                         *)
(* The argument: a read leaves the record alone, so every theorem about    *)
(* the record holds beside it.  A validation that is no longer fresh       *)
(* differs from its parcel in one of the parts the read compares (Gap),    *)
(* and a part that differs differs for ever; so whatever was stale when    *)
(* its row was loaded is found by a statement that is still to come        *)
(* (Ahead).  The cases behind a shown state are found for the same reason: *)
(* cases are never withdrawn, and the read looks for them after the state. *)
(***************************************************************************)
EXTENDS PropertyCase, LedgerProofs, FiniteSetTheorems, SequenceTheorems

-----------------------------------------------------------------------------
(* The order of the jobs.                                                  *)

\* No element makes the empty sequence.
LEMMA SeqOfNone == SetToSeq({}) = <<>>
<1>1. Cardinality({}) = 0
  BY FS_EmptySet
<1>2. \A f \in [1..0 -> {}] : f = <<>>
  OBVIOUS
<1>3. <<>> \in [1..0 -> {}] /\ IsInjective(<<>>)
  BY DEF IsInjective
<1>4. QED
  BY <1>1, <1>2, <1>3 DEF SetToSeq

\* One element makes a sequence of one.
LEMMA SeqOfOne == \A x : SetToSeq({x}) = <<x>>
<1> SUFFICES ASSUME NEW x PROVE SetToSeq({x}) = <<x>>
  OBVIOUS
<1>1. Cardinality({x}) = 1
  BY FS_Singleton
<1>2. \A f \in [1..1 -> {x}] : f = <<x>>
  OBVIOUS
<1>3. <<x>> \in [1..1 -> {x}] /\ IsInjective(<<x>>)
  BY DEF IsInjective
<1>4. QED
  BY <1>1, <1>2, <1>3 DEF SetToSeq

\* A step writes one job at most, and no job ever disappears.
LEMMA OneJob ==
    ASSUME TypeOK, [Next]_vars
    PROVE  /\ \A j, k \in JobIds : jobs'[j] # jobs[j] /\ jobs'[k] # jobs[k] => j = k
           /\ \A j \in JobIds : jobs[j] # NoJob => jobs'[j] # NoJob
<1> DEFINE Goal == /\ \A j, k \in JobIds : jobs'[j] # jobs[j] /\ jobs'[k] # jobs[k] => j = k
                   /\ \A j \in JobIds : jobs[j] # NoJob => jobs'[j] # NoJob
<1>1. ASSUME jobs' = jobs PROVE Goal
  BY <1>1
<1>2. ASSUME NEW k \in JobIds, jobs'[k] \in Jobs,
             \A j \in JobIds \ {k} : jobs'[j] = jobs[j]
      PROVE  Goal
  BY <1>2, NoRow
<1> SUFFICES Goal
  OBVIOUS
<1> HIDE DEF Goal
<1>3. CASE EditObject
  BY <1>1, <1>3 DEF EditObject, CreateObject, AttachEvidence, CreateGeometry
<1>4. CASE RecordAssertion
  BY <1>1, <1>4
     DEF RecordAssertion, RecordRight, AddScope, RecordRelationship, RecordFact
<1>5. CASE Validate
  <2>1. ASSUME NEW k \in JobIds, NEW o \in Objects, NEW v, NEW c,
               EnqueueValidation(k, o, v, c)
        PROVE  Goal
    <3>1. /\ jobs' = [jobs EXCEPT ![k] = [object |-> o, version |-> v, complete |-> c,
                         status |-> "QUEUED", passed |-> FALSE, snapshot |-> NoSnapshot]]
      BY <2>1 DEF EnqueueValidation
    <3>2. /\ \A j \in JobIds \ {k} : jobs'[j] = jobs[j]
          /\ \A j \in JobIds : jobs[j] # NoJob => j # k
      BY <2>1, <3>1 DEF TypeOK, EnqueueValidation
    <3>3. QED
      BY <3>2 DEF Goal
  <2>2. ASSUME NEW k \in JobIds, ValidatePrism(k) PROVE Goal
    <3>1. jobs[k] \in Jobs
      BY <2>2 DEF ValidatePrism, TypeOK
    <3>2. PICK p \in BOOLEAN, s \in Snapshots :
             jobs' = [jobs EXCEPT ![k].status = "COMPLETED", ![k].passed = p,
                                  ![k].snapshot = s]
      <4> DEFINE p == ~Blocked(jobs[k].object, jobs[k].complete)
                 s == Snapshot(RootOf[jobs[k].object])
      <4>1. jobs' = [jobs EXCEPT ![k].status = "COMPLETED", ![k].passed = p,
                                 ![k].snapshot = s]
        BY <2>2 DEF ValidatePrism
      <4>2. p \in BOOLEAN
        OBVIOUS
      <4>3. s \in Snapshots
        BY <3>1, RootType, SnapshotType DEF Jobs
      <4> HIDE DEF p, s
      <4>4. QED
        BY <4>1, <4>2, <4>3
    <3>3. /\ \A j \in JobIds \ {k} : jobs'[j] = jobs[j]
          /\ jobs'[k] \in Jobs
      BY <3>1, <3>2 DEF TypeOK, Jobs
    <3>4. QED
      BY <1>2, <3>3
  <2>3. ASSUME NEW k \in JobIds, RejectStaleValidation(k) PROVE Goal
    <3>1. jobs[k] \in Jobs
      BY <2>3 DEF RejectStaleValidation, TypeOK
    <3>2. jobs' = [jobs EXCEPT ![k].status = "FAILED"]
      BY <2>3 DEF RejectStaleValidation
    <3>3. /\ \A j \in JobIds \ {k} : jobs'[j] = jobs[j]
          /\ jobs'[k] \in Jobs
      BY <3>1, <3>2 DEF TypeOK, Jobs
    <3>4. QED
      BY <1>2, <3>3
  <2>4. QED
    BY <1>5, <2>1, <2>2, <2>3, Sentinels DEF Validate
<1>6. CASE Review
  BY <1>1, <1>6 DEF Review, IssueIdentity, SubmitReview, AcceptReview, ReturnReview
<1>7. CASE ChangeProperty
  <2>1. ASSUME NEW o \in Objects, NEW v, NEW g, ReplaceGeometry(o, v, g) PROVE Goal
    BY <1>1, <2>1 DEF ReplaceGeometry
  <2>2. ASSUME NEW op, NEW ins, NEW exp, NEW out, Repartition(op, ins, exp, out)
        PROVE  Goal
    BY <1>1, <2>2 DEF Repartition
  <2>3. QED
    BY <1>7, <2>1, <2>2, ChangeCases
<1>8. CASE UNCHANGED vars
  BY <1>1, <1>8 DEF vars
<1>9. QED
  BY <1>3, <1>4, <1>5, <1>6, <1>7, <1>8 DEF Next

\* The jobs in the order in which they were queued, each once.
Ordered == /\ queued \in Seq(JobIds)
           /\ IsInjective(queued)
           /\ ToSet(queued) = {j \in JobIds : jobs[j] # NoJob}

\* A job that has just been queued is the last one.
LEMMA OrderedStep ==
    ASSUME TypeOK, Ordered, Record
    PROVE  Ordered'
<1>1. [Next]_vars /\ queued' = queued \o SetToSeq(JustQueued)
  BY DEF Record
<1>2. /\ \A j, k \in JobIds : jobs'[j] # jobs[j] /\ jobs'[k] # jobs[k] => j = k
      /\ \A j \in JobIds : jobs[j] # NoJob => jobs'[j] # NoJob
  BY <1>1, OneJob
<1>3. CASE JustQueued = {}
  <2>1. queued' = queued
    BY <1>1, <1>3, SeqOfNone, ConcatEmptySeq DEF Ordered
  <2>2. {j \in JobIds : jobs'[j] # NoJob} = {j \in JobIds : jobs[j] # NoJob}
    BY <1>2, <1>3 DEF JustQueued
  <2>3. QED
    BY <2>1, <2>2 DEF Ordered
<1>4. CASE JustQueued # {}
  <2>1. PICK j \in JobIds : jobs[j] = NoJob /\ jobs'[j] # NoJob
    BY <1>4 DEF JustQueued
  <2>2. JustQueued = {j}
    BY <1>2, <2>1 DEF JustQueued
  <2>3. queued' = queued \o <<j>>
    BY <1>1, <2>2, SeqOfOne
  <2>4. queued \in Seq(JobIds) /\ <<j>> \in Seq(JobIds) /\ Len(<<j>>) = 1 /\ <<j>>[1] = j
    BY DEF Ordered
  <2>5. PICK n \in Nat : n = Len(queued)
    BY <2>4, LenProperties
  <2>6. /\ queued' \in Seq(JobIds) /\ Len(queued') = n + 1
        /\ \A i \in 1 .. n : queued'[i] = queued[i]
        /\ queued'[n + 1] = j
    BY <2>3, <2>4, <2>5, ConcatProperties
  <2>7. DOMAIN queued = 1 .. n /\ DOMAIN queued' = 1 .. (n + 1)
    BY <2>4, <2>5, <2>6, LenProperties
  <2>8. \A i \in 1 .. n : queued[i] \in JobIds /\ jobs[queued[i]] # NoJob
    BY <2>7 DEF Ordered, ToSet
  <2>9. IsInjective(queued')
    BY <2>1, <2>5, <2>6, <2>7, <2>8 DEF IsInjective, Ordered
  <2>10. ToSet(queued') = ToSet(queued) \cup {j}
    <3>1. 1 .. (n + 1) = (1 .. n) \cup {n + 1}
      BY <2>5
    <3>2. QED
      BY <2>6, <2>7, <3>1 DEF ToSet
  <2>11. {k \in JobIds : jobs'[k] # NoJob} = {k \in JobIds : jobs[k] # NoJob} \cup {j}
    BY <1>2, <2>1
  <2>12. QED
    BY <2>6, <2>9, <2>10, <2>11 DEF Ordered
<1>5. QED
  BY <1>3, <1>4

-----------------------------------------------------------------------------
(* How a snapshot may differ from its parcel.                              *)

\* A scope is added to a right that is recorded.
ScopedRights == \A f \in facts : f[1] = "SCOPE" => <<"RIGHT", f[2], f[2]>> \in facts

\* A completed validation has seen its parcel only, and a passing one has seen
\* its object active and its geometry as the latest.
DoneKnows ==
    \A j \in JobIds : JobDone(j) =>
        LET s == jobs[j].snapshot
            x == jobs[j].object
        IN /\ \A o \in Objects : RootOf[o] # RootOf[x] =>
                 s.objects[o] = "ABSENT" /\ s.current[o] = 0
           /\ jobs[j].passed => s.objects[x] = "ACTIVE" /\ s.current[x] = jobs[j].version

\* Only the recording of a scope and the changes write what this is about.
LEMMA ScopedRightsStep ==
    ASSUME ScopedRights, [Next]_vars
    PROVE  ScopedRights'
<1> USE DEF ScopedRights
<1>1. CASE EditObject
  BY <1>1 DEF EditObject, CreateObject, AttachEvidence, CreateGeometry
<1>2. CASE RecordAssertion
  <2>1. PICK f : /\ RecordFact(f)
                 /\ f[1] = "SCOPE" => <<"RIGHT", f[2], f[2]>> \in facts
    <3>1. \A o, t : /\ <<"RIGHT", o, o>>[1] # "SCOPE"
                    /\ <<"SCOPE", o, t>>[2] = o
                    /\ <<"RELATION", o, t>>[1] # "SCOPE"
      OBVIOUS
    <3>2. PICK o, t : RecordRight(o) \/ AddScope(o, t) \/ RecordRelationship(o, t)
      BY <1>2 DEF RecordAssertion
    <3>3. CASE RecordRight(o)
      BY <3>1, <3>3 DEF RecordRight
    <3>4. CASE AddScope(o, t)
      BY <3>1, <3>4 DEF AddScope
    <3>5. CASE RecordRelationship(o, t)
      BY <3>1, <3>5 DEF RecordRelationship
    <3>6. QED
      BY <3>2, <3>3, <3>4, <3>5
  <2>2. QED
    BY <2>1 DEF RecordFact
<1>3. CASE Validate
  BY <1>3 DEF Validate, EnqueueValidation, ValidatePrism, RejectStaleValidation
<1>4. CASE Review
  BY <1>4 DEF Review, IssueIdentity, SubmitReview, AcceptReview, ReturnReview
<1>5. CASE ChangeProperty
  <2>1. ASSUME NEW o \in Objects, NEW v, NEW g, ReplaceGeometry(o, v, g)
        PROVE  ScopedRights'
    BY <2>1 DEF ReplaceGeometry
  <2>2. ASSUME NEW op, NEW ins, NEW exp, NEW out, Repartition(op, ins, exp, out)
        PROVE  ScopedRights'
    <3>1. /\ \A f \in facts' : f \in facts \/ f[1] = "RELATION"
          /\ facts \subseteq facts'
      BY <2>2 DEF Repartition
    <3>2. QED
      BY <3>1
  <2>3. QED
    BY <1>5, <2>1, <2>2, ChangeCases
<1>6. CASE UNCHANGED vars
  BY <1>6 DEF vars
<1>7. QED
  BY <1>1, <1>2, <1>3, <1>4, <1>5, <1>6 DEF Next

\* A validation that completes has just seen its parcel.
LEMMA DoneKnowsStep ==
    ASSUME TypeOK, DoneKnows, [Next]_vars
    PROVE  DoneKnows'
<1> SUFFICES ASSUME NEW j \in JobIds, JobDone(j)'
    PROVE  LET s == jobs'[j].snapshot
               x == jobs'[j].object
           IN /\ \A o \in Objects : RootOf[o] # RootOf[x] =>
                    s.objects[o] = "ABSENT" /\ s.current[o] = 0
              /\ jobs'[j].passed => s.objects[x] = "ACTIVE" /\ s.current[x] = jobs'[j].version
  BY DEF DoneKnows
<1>1. CASE JobDone(j)
  <2>1. jobs'[j] = jobs[j]
    BY <1>1, StepMonotone DEF Monotone
  <2>2. QED
    BY <1>1, <2>1 DEF DoneKnows
<1>2. CASE ~JobDone(j)
  <2>1. ValidatePrism(j)
    BY <1>2, CompletionStep
  <2> DEFINE x == jobs[j].object
  <2>2. /\ jobs[j] \in Jobs /\ x \in Objects
        /\ jobs'[j].object = x /\ jobs'[j].version = jobs[j].version
        /\ jobs'[j].passed = ~Blocked(x, jobs[j].complete)
        /\ jobs'[j].snapshot = Snapshot(RootOf[x])
    BY <2>1, CompletionEffect
  <2>3. jobs[j].version = ver[x] /\ ver[x] \in Nat /\ RootOf[x] \in Objects
    BY <2>1, <2>2, RootType DEF ValidatePrism, TypeOK
  <2>4. \A o \in Objects : RootOf[o] # RootOf[x] =>
           /\ Snapshot(RootOf[x]).objects[o] = "ABSENT"
           /\ Snapshot(RootOf[x]).current[o] = 0
    BY DEF Snapshot, Current
  <2>5. ASSUME jobs'[j].passed
        PROVE  /\ Snapshot(RootOf[x]).objects[x] = "ACTIVE"
               /\ Snapshot(RootOf[x]).current[x] = ver[x]
    <3>1. life[x] = "ACTIVE"
      BY <2>2, <2>5 DEF Blocked, SupersededObject
    <3>2. QED
      BY <2>2, <2>3, <3>1, CurrentValue
  <2>6. QED
    BY <2>2, <2>3, <2>4, <2>5
<1>3. QED
  BY <1>1, <1>2

\* The parts of the parcel p that the read compares one after the other, and
\* how each may have moved away from the snapshot s.
Redrew(s, p) ==
    \E o \in Objects : /\ RootOf[o] = p
                       /\ s.objects[o] = "ACTIVE" /\ life[o] = "ACTIVE"
                       /\ s.current[o] < ver[o]
Moved(s, p) == \E o \in Objects : RootOf[o] = p /\ s.objects[o] # life[o]
Related(s, p) == \E f \in FactsOf(p) : f[1] = "RELATION" /\ f \notin s.facts
Decided(s, p) == \E r \in Registered(p) : r \notin s.registered
Entitled(s, p) == \E f \in FactsOf(p) : f[1] = "RIGHT" /\ f \notin s.facts
Scoped(s, p) == \E f \in FactsOf(p) : /\ f[1] = "SCOPE" /\ f \notin s.facts
                                      /\ \E r \in s.facts : r[1] = "RIGHT" /\ r[2] = f[2]

\* A snapshot that differs from its parcel differs in one of the parts. The
\* scopes are read for the rights that were seen only: a new scope of a new
\* right shows as a new right.
LEMMA StaleHasGap ==
    ASSUME TypeOK, ScopedRights, NEW p \in Objects, NEW s \in Snapshots, Behind(s, p),
           \A o \in Objects : RootOf[o] # p => s.objects[o] = "ABSENT" /\ s.current[o] = 0,
           s # Snapshot(p)
    PROVE  \/ Redrew(s, p) \/ Moved(s, p) \/ Related(s, p)
           \/ Decided(s, p) \/ Entitled(s, p) \/ Scoped(s, p)
<1> SUFFICES ASSUME ~Redrew(s, p), ~Moved(s, p), ~Related(s, p),
                    ~Decided(s, p), ~Entitled(s, p), ~Scoped(s, p)
             PROVE  s = Snapshot(p)
  OBVIOUS
<1>0. Snapshot(p) \in Snapshots
  BY SnapshotType
<1>1. ASSUME NEW o \in Objects
      PROVE  /\ s.objects[o] = Snapshot(p).objects[o]
             /\ s.current[o] = Snapshot(p).current[o]
  <2>1. CASE RootOf[o] # p
    BY <2>1 DEF Snapshot, Current
  <2>2. CASE RootOf[o] = p
    <3>1. s.objects[o] = life[o]
      BY <2>2 DEF Moved
    <3>2. /\ Snapshot(p).objects[o] = life[o]
          /\ Snapshot(p).current[o] = IF life[o] = "ACTIVE" THEN ver[o] ELSE 0
      BY <2>2, CurrentValue
    <3>3. s.current[o] <= Snapshot(p).current[o] /\ s.current[o] \in Nat /\ ver[o] \in Nat
      BY <2>2, <3>1 DEF Behind, Snapshots, TypeOK
    <3>4. life[o] = "ACTIVE" => ~(s.current[o] < ver[o])
      BY <2>2, <3>1 DEF Redrew
    <3>5. QED
      BY <3>1, <3>2, <3>3, <3>4
  <2>3. QED
    BY <2>1, <2>2
<1>2. s.objects = Snapshot(p).objects /\ s.current = Snapshot(p).current
  BY <1>0, <1>1 DEF Snapshots
<1>3. s.registered = Snapshot(p).registered
  BY DEF Decided, Behind, Snapshot
<1>4. ASSUME NEW f \in FactsOf(p) PROVE f \in s.facts
  <2>1. f \in facts /\ f[1] \in {"RIGHT", "SCOPE", "RELATION"}
    BY DEF FactsOf, TypeOK, Facts
  <2>2. CASE f[1] = "SCOPE"
    <3> DEFINE r == <<"RIGHT", f[2], f[2]>>
    <3>1. r \in facts /\ r[1] = "RIGHT" /\ r[2] = f[2]
      BY <2>1, <2>2 DEF ScopedRights
    <3>2. r \in FactsOf(p)
      BY <2>2, <3>1 DEF FactsOf
    <3>3. r \in s.facts
      BY <3>1, <3>2 DEF Entitled
    <3>4. QED
      BY <2>2, <3>1, <3>3 DEF Scoped
  <2>3. QED
    BY <2>1, <2>2 DEF Related, Entitled
<1>5. s.facts = Snapshot(p).facts
  BY <1>4 DEF Behind, Snapshot
<1>6. QED
  BY <1>0, <1>2, <1>3, <1>5 DEF Snapshots

\* What differs differs for ever; a geometry that was drawn again may also end
\* as that of a superseded object.
LEMMA GapsStay ==
    ASSUME TypeOK, TypeOK', Monotone, NEW p \in Objects, NEW s \in Snapshots, Behind(s, p)
    PROVE  /\ Redrew(s, p) => Redrew(s, p)' \/ Moved(s, p)'
           /\ Moved(s, p) => Moved(s, p)'
           /\ Related(s, p) => Related(s, p)'
           /\ Decided(s, p) => Decided(s, p)'
           /\ Entitled(s, p) => Entitled(s, p)'
           /\ Scoped(s, p) => Scoped(s, p)'
<1>1. ASSUME NEW o \in Objects, RootOf[o] = p
      PROVE  /\ s.objects[o] # life[o] => s.objects[o] # life'[o]
             /\ ver[o] \in Nat /\ ver'[o] \in Nat /\ s.current[o] \in Nat
             /\ ver[o] <= ver'[o]
  <2>1. /\ life[o] \in Lifecycle /\ life'[o] \in Lifecycle /\ s.objects[o] \in Lifecycle
        /\ ver[o] \in Nat /\ ver'[o] \in Nat /\ s.current[o] \in Nat
    BY DEF TypeOK, Snapshots
  <2>2. /\ s.objects[o] = "SUPERSEDED" => life[o] = "SUPERSEDED"
        /\ s.objects[o] = "ACTIVE" => life[o] # "ABSENT"
    BY <1>1 DEF Behind
  <2>3. /\ life[o] = "SUPERSEDED" => life'[o] = "SUPERSEDED"
        /\ life[o] = "ACTIVE" => life'[o] # "ABSENT"
        /\ ver[o] <= ver'[o]
    BY DEF Monotone
  <2>4. QED
    BY <2>1, <2>2, <2>3 DEF Lifecycle
<1>2. Moved(s, p) => Moved(s, p)'
  BY <1>1 DEF Moved
<1>3. Redrew(s, p) => Redrew(s, p)' \/ Moved(s, p)'
  <2>1. SUFFICES ASSUME NEW o \in Objects, RootOf[o] = p, s.objects[o] = "ACTIVE",
                        life[o] = "ACTIVE", s.current[o] < ver[o]
                 PROVE  Redrew(s, p)' \/ Moved(s, p)'
    BY DEF Redrew
  <2>2. s.current[o] < ver'[o]
    BY <1>1, <2>1
  <2>3. QED
    BY <2>1, <2>2 DEF Redrew, Moved
<1>4. FactsOf(p) \subseteq FactsOf(p)' /\ Registered(p) \subseteq Registered(p)'
  BY FactsGrow, RegisteredGrows
<1>5. QED
  BY <1>2, <1>3, <1>4 DEF Related, Decided, Entitled, Scoped

\* A part that differs is seen to differ by the statement that compares it.
LEMMA GapsAreSeen ==
    ASSUME TypeOK, NEW p \in Objects, NEW s \in Snapshots
    PROVE  LET now == Snapshot(p)
           IN /\ Redrew(s, p) => Geometries(s) # Geometries(now)
              /\ Moved(s, p) => Lives(s) # Lives(now)
              /\ Related(s, p) => Relations(s) # Relations(now)
              /\ Decided(s, p) => Register(s) # Register(now)
              /\ Entitled(s, p) => Rights(s) # Rights(now)
              /\ Scoped(s, p) => Scopes(s) # {f \in Scopes(now) :
                                                 \E r \in Rights(s) : r[2] = f[2]}
<1>1. /\ Snapshot(p).facts = FactsOf(p) /\ Snapshot(p).registered = Registered(p)
  BY DEF Snapshot
<1>2. Redrew(s, p) => Geometries(s) # Geometries(Snapshot(p))
  <2>1. SUFFICES ASSUME NEW o \in Objects, RootOf[o] = p, life[o] = "ACTIVE",
                        s.current[o] < ver[o]
                 PROVE  s.current[o] # Snapshot(p).current[o]
    BY DEF Redrew, Geometries
  <2>2. Snapshot(p).current[o] = ver[o] /\ s.current[o] \in Nat /\ ver[o] \in Nat
    BY <2>1, CurrentValue DEF TypeOK, Snapshots
  <2>3. QED
    BY <2>1, <2>2
<1>3. Moved(s, p) => Lives(s) # Lives(Snapshot(p))
  BY CurrentValue DEF Moved, Lives
<1>4. Related(s, p) => Relations(s) # Relations(Snapshot(p))
  BY <1>1 DEF Related, Relations
<1>5. Decided(s, p) => Register(s) # Register(Snapshot(p))
  BY <1>1 DEF Decided, Register
<1>6. Entitled(s, p) => Rights(s) # Rights(Snapshot(p))
  BY <1>1 DEF Entitled, Rights
<1>7. Scoped(s, p) => Scopes(s) # {f \in Scopes(Snapshot(p)) :
                                      \E r \in Rights(s) : r[2] = f[2]}
  BY <1>1 DEF Scoped, Scopes, Rights
<1>8. QED
  BY <1>2, <1>3, <1>4, <1>5, <1>6, <1>7

-----------------------------------------------------------------------------
(* Reading writes nothing of the record.                                   *)

\* Beside any number of reads the record does only what Cadastre permits: what
\* is proved of the record holds while it is read.
THEOREM ReadsLeaveTheRecord == CaseSpec => Spec
<1>1. CaseInit => Init
  BY DEF CaseInit
<1>2. [CaseNext]_caseVars => [Next]_vars
  <2>1. SUFFICES ASSUME [CaseNext]_caseVars PROVE [Next]_vars
    OBVIOUS
  <2>2. CASE Record
    BY <2>2 DEF Record
  <2>3. CASE Read
    BY <2>3
       DEF Read, Open, ReadGeometries, ReadEvents, ReadReviews, ReadDecisions, ReadJob,
           ReadIssues, ReadLatest, ReadCompleted, ReadSnapshot, Compare, ReadScopes,
           Answer, Then
  <2>4. CASE UNCHANGED caseVars
    BY <2>4 DEF caseVars
  <2>5. QED
    BY <2>1, <2>2, <2>3, <2>4 DEF CaseNext
<1>3. QED
  BY <1>1, <1>2, PTL DEF CaseSpec, Spec

\* What a read rests on in the record.
Ground == /\ RecordInv /\ LedgerInv
          /\ ScopedRights /\ DoneKnows
          /\ \A o \in Objects : ver[o] <= MaxVersion

\* No geometry is recorded beyond the bound.
LEMMA BoundStep ==
    ASSUME TypeOK, [Next]_vars, NEW o \in Objects, ver[o] <= MaxVersion
    PROVE  ver'[o] <= MaxVersion
<1>0. ver[o] \in Nat /\ MaxVersion \in Nat
  BY Sentinels DEF TypeOK
<1>1. CASE EditObject
  <2>1. ASSUME NEW x \in Objects, NEW g, CreateGeometry(x, g) PROVE ver'[o] <= MaxVersion
    BY <1>0, <2>1 DEF CreateGeometry, Recordable, TypeOK
  <2>2. QED
    BY <1>1, <2>1, Sentinels DEF EditObject, CreateObject, AttachEvidence, spatial
<1>2. CASE RecordAssertion
  BY <1>2
     DEF RecordAssertion, RecordRight, AddScope, RecordRelationship, RecordFact, spatial
<1>3. CASE Validate
  BY <1>3 DEF Validate, EnqueueValidation, ValidatePrism, RejectStaleValidation, spatial
<1>4. CASE Review
  BY <1>4 DEF Review, IssueIdentity, SubmitReview, AcceptReview, ReturnReview, spatial
<1>5. CASE ChangeProperty
  <2>1. ASSUME NEW x \in Objects, NEW v, NEW g, ReplaceGeometry(x, v, g)
        PROVE  ver'[o] <= MaxVersion
    BY <1>0, <2>1 DEF ReplaceGeometry, Recordable, TypeOK
  <2>2. ASSUME NEW op, NEW ins, NEW exp, NEW out, Repartition(op, ins, exp, out)
        PROVE  ver'[o] <= MaxVersion
    BY <1>0, <2>2 DEF Repartition, Recordable
  <2>3. QED
    BY <1>5, <2>1, <2>2, ChangeCases
<1>6. CASE UNCHANGED vars
  BY <1>6 DEF vars
<1>7. QED
  BY <1>1, <1>2, <1>3, <1>4, <1>5, <1>6 DEF Next

\* The record always is what a read rests on.
LEMMA GroundHolds == Spec => []Ground
<1> DEFINE Rest == /\ LedgerInv /\ ScopedRights /\ DoneKnows
                   /\ \A o \in Objects : ver[o] <= MaxVersion
<1>1. Init => Rest
  <2>1. SUFFICES ASSUME Init PROVE Rest
    OBVIOUS
  <2>2. LedgerInv
    BY <2>1
       DEF Init, LedgerInv, KnownVersions, CasesBehind, Backed, DoneOn, CaseOn, CompletedFor
  <2>3. ScopedRights /\ DoneKnows
    BY <2>1 DEF Init, ScopedRights, DoneKnows, JobDone
  <2>4. \A o \in Objects : ver[o] <= MaxVersion
    BY <2>1, OpenedShape, Sentinels DEF Init
  <2>5. QED
    BY <2>2, <2>3, <2>4
<1>2. RecordInv /\ RecordInv' /\ Rest /\ [Next]_vars => Rest'
  <2>1. SUFFICES ASSUME RecordInv, RecordInv', Rest, [Next]_vars PROVE Rest'
    OBVIOUS
  <2>2. TypeOK /\ TypeOK'
    BY <2>1 DEF RecordInv
  <2>3. LedgerInv'
    BY <2>1, <2>2, KnownVersionsStep, BackedStep DEF LedgerInv
  <2>4. ScopedRights' /\ DoneKnows'
    BY <2>1, <2>2, ScopedRightsStep, DoneKnowsStep
  <2>5. \A o \in Objects : ver'[o] <= MaxVersion
    BY <2>1, <2>2, BoundStep
  <2>6. QED
    BY <2>3, <2>4, <2>5
<1>3. RecordInv /\ Rest => Ground
  BY DEF Ground
<1> HIDE DEF Rest
<1>4. QED
  BY <1>1, <1>2, <1>3, RecordInvariant, PTL DEF Spec

-----------------------------------------------------------------------------
(* Types of the read.                                                      *)

\* A set of naturals with an upper bound has a greatest element.
LEMMA Greatest ==
    ASSUME NEW T, T \subseteq Nat, T # {}, NEW b \in Nat, \A t \in T : t <= b
    PROVE  \E t \in T : \A u \in T : t >= u
<1> DEFINE R == OpToRel(<, Nat)
           D == {b - t : t \in T}
<1>1. IsWellFoundedOn(R, Nat)
  BY NatLessThanWellFounded
<1>2. \A x, y \in Nat : <<y, x>> \in R <=> y < x
  BY DEF OpToRel
<1> HIDE DEF R
<1>3. D \subseteq Nat /\ D # {}
  <2>1. \A t \in T : b - t \in Nat
    OBVIOUS
  <2>2. QED
    BY <2>1
<1> HIDE DEF D
<1>4. PICK d \in D : \A e \in D : <<e, d>> \notin R
  BY <1>1, <1>3, WFMin
<1>5. PICK t \in T : d = b - t
  BY <1>4 DEF D
<1>6. ASSUME NEW u \in T PROVE t >= u
  <2>1. b - u \in D
    BY DEF D
  <2>2. ~(b - u < d)
    BY <1>2, <1>3, <1>4, <2>1
  <2>3. QED
    BY <1>5, <2>2
<1>7. QED
  BY <1>6

\* The newest job of the geometry is a row about the geometry.
LEMMA NewestIsAbout ==
    ASSUME Ordered, Newest # NoJob
    PROVE  Newest \in JobIds /\ jobs[Newest] # NoJob /\ About(Newest)
<1> DEFINE of == {n \in DOMAIN queued : About(queued[n])}
<1>1. PICK b \in Nat : b = Len(queued) /\ DOMAIN queued = 1 .. b
  BY LenProperties DEF Ordered
<1>2. of # {} /\ Newest = queued[Max(of)]
  BY DEF Newest
<1>3. of \subseteq Nat /\ \A n \in of : n <= b
  BY <1>1
<1>4. Max(of) \in of
  <2> HIDE DEF of
  <2>1. \E n \in of : \A m \in of : n >= m
    BY <1>2, <1>3, Greatest
  <2>2. QED
    BY <2>1 DEF Max
<1>5. Max(of) \in DOMAIN queued /\ About(queued[Max(of)])
  BY <1>4
<1>6. \A n \in DOMAIN queued : queued[n] \in ToSet(queued)
  BY DEF ToSet
<1>7. QED
  BY <1>2, <1>5, <1>6 DEF Ordered

\* The read is at one of its statements, what it holds of the object is a
\* version that was recorded, and decisions are of the cases it listed.
TypedRead ==
    /\ at \in Statements \cup {"IDLE"}
    /\ view \in Views
    /\ stateOf \in [Opened \X Versions -> States]
    /\ at = "IDLE" => view = NoView
    /\ at # "IDLE" => view.object \in Opened /\ view.version <= ver[view.object]
    /\ view.decided \subseteq view.cases
    /\ at \in {"GEOMETRIES", "EVENTS", "REVIEWS"} => view.decided = {}

\* The rows of the ledger the read may ask for keep their type.
LEMMA StatesStep ==
    ASSUME TypeOK, stateOf \in [Opened \X Versions -> States], Record
    PROVE  stateOf' \in [Opened \X Versions -> States]
<1>1. TypeOK'
  BY StepType DEF Record
<1>2. ASSUME NEW m \in Opened \X Versions
      PROVE  /\ shown'[m[1]] \in States /\ stateOf[m] \in States
             /\ "CORRECTION_REQUIRED" \in States
  BY <1>1, OpenedShape DEF TypeOK, States
<1>3. QED
  BY <1>2 DEF Record

\* What the read knows of the job whose row it has just loaded.
LEMMA HoldingIs ==
    ASSUME NEW v \in Views, NEW j \in JobIds
    PROVE  /\ Holding(v, j) \in Views
           /\ Holding(v, j).object = v.object /\ Holding(v, j).version = v.version
           /\ Holding(v, j).state = v.state /\ Holding(v, j).cases = v.cases
           /\ Holding(v, j).accepted = v.accepted /\ Holding(v, j).decided = v.decided
           /\ Holding(v, j).job = v.job /\ Holding(v, j).blocking = v.blocking
           /\ Holding(v, j).fresh = v.fresh /\ Holding(v, j).checked = j
           /\ Holding(v, j).passed = (jobs[j].status = "COMPLETED" /\ jobs[j].passed)
           /\ Holding(v, j).held = RequireValidation(j, view.object, view.version)
<1> DEFINE p == jobs[j].status = "COMPLETED" /\ jobs[j].passed
           h == RequireValidation(j, view.object, view.version)
<1>1. p \in BOOLEAN /\ h \in BOOLEAN
  BY DEF RequireValidation
<1>2. /\ Load(j).checked = j /\ Load(j).passed = p /\ Load(j).held = h
  BY DEF Load
<1> HIDE DEF p, h
<1>3. Holding(v, j) = [v EXCEPT !.checked = j, !.passed = p, !.held = h]
  BY <1>2 DEF Holding
<1>4. /\ Holding(v, j) \in Views
      /\ Holding(v, j).object = v.object /\ Holding(v, j).version = v.version
      /\ Holding(v, j).state = v.state /\ Holding(v, j).cases = v.cases
      /\ Holding(v, j).accepted = v.accepted /\ Holding(v, j).decided = v.decided
      /\ Holding(v, j).job = v.job /\ Holding(v, j).blocking = v.blocking
      /\ Holding(v, j).fresh = v.fresh /\ Holding(v, j).checked = j
      /\ Holding(v, j).passed = p /\ Holding(v, j).held = h
  BY <1>1, <1>3 DEF Views
<1>5. QED
  BY <1>4 DEF p, h

\* A page that is not being read is blank.
LEMMA NoViewType == NoView \in Views /\ NoView.decided = {} /\ NoView.cases = {}
BY DEF NoView, Blank, Views, States

\* The record that moves on under a read.
LEMMA RecordKeepsTypes ==
    ASSUME TypeOK, TypedRead, Record
    PROVE  TypedRead'
<1>1. stateOf' \in [Opened \X Versions -> States]
  BY StatesStep DEF TypedRead
<1>2. at' = at /\ view' = view /\ [Next]_vars
  BY DEF Record
<1>3. \A o \in Objects : ver[o] <= ver'[o] /\ ver[o] \in Nat /\ ver'[o] \in Nat
  BY <1>2, StepMonotone, StepType DEF Monotone, TypeOK
<1>4. at # "IDLE" => view.object \in Opened /\ view.version <= ver'[view.object]
  BY <1>3, OpenedShape DEF TypedRead, Views
<1>5. QED
  BY <1>1, <1>2, <1>4 DEF TypedRead

\* Each statement of the read.
LEMMA ReadKeepsTypes ==
    ASSUME Ground, Ordered, TypedRead, Read
    PROVE  TypedRead'
<1>0. /\ TypeOK /\ view \in Views /\ view.object \in Opened \cup {NoObject}
      /\ at \in Statements \cup {"IDLE"}
      /\ view.decided \subseteq view.cases
      /\ stateOf \in [Opened \X Versions -> States]
  BY DEF Ground, RecordInv, TypedRead, Views
<1>1. \A o \in Opened : o \in Objects /\ ver[o] \in Nat
  BY <1>0, OpenedShape DEF TypeOK
\* A statement that leaves what is typed beside the view as it was.
<1>2. ASSUME at # "IDLE", at' \in Statements,
             view' \in Views, view'.object = view.object,
             view'.version = view.version, view'.decided \subseteq view'.cases,
             at' \in {"GEOMETRIES", "EVENTS", "REVIEWS"} => view'.decided = {},
             UNCHANGED <<vars, stateOf>>
      PROVE  TypedRead'
  <2>1. "IDLE" \notin Statements
    BY DEF Statements
  <2>2. ver' = ver /\ stateOf' = stateOf
    BY <1>2 DEF vars
  <2>3. view'.object \in Opened /\ view'.version <= ver'[view'.object]
    BY <1>2, <2>2 DEF TypedRead
  <2>4. QED
    BY <1>0, <1>2, <2>1, <2>2, <2>3 DEF TypedRead
<1>3. ASSUME NEW o \in Opened, Open(o) PROVE TypedRead'
  <2>1. /\ at' = "GEOMETRIES" /\ view' = Blank(o) /\ ver' = ver /\ stateOf' = stateOf
    BY <1>3 DEF Open, Then, vars
  <2>2. /\ Blank(o) \in Views /\ Blank(o).object = o /\ Blank(o).version = 0
        /\ Blank(o).decided = {}
    BY DEF Blank, Views, States
  <2>3. ver[o] \in Nat
    BY <1>1
  <2>4. QED
    BY <1>0, <2>1, <2>2, <2>3 DEF TypedRead, Statements
<1>4. ASSUME ReadGeometries PROVE TypedRead'
  <2>1. /\ at = "GEOMETRIES" /\ at' = "EVENTS" /\ ver' = ver /\ stateOf' = stateOf
        /\ view' = [view EXCEPT !.version = ver[view.object]]
    BY <1>4 DEF ReadGeometries, Then, vars
  <2>2. view.object \in Opened /\ view.decided = {}
    BY <2>1 DEF TypedRead
  <2>3. PICK n \in Nat : n = ver[view.object]
    BY <1>1, <2>2
  <2>4. /\ view' \in Views /\ view'.object = view.object /\ view'.version = n
        /\ view'.decided = view.decided /\ view'.cases = view.cases
    BY <1>0, <2>1, <2>3 DEF Views
  <2>5. QED
    BY <1>0, <2>1, <2>2, <2>3, <2>4 DEF TypedRead, Statements
<1>5. ASSUME ReadEvents PROVE TypedRead'
  <2> DEFINE s == IF view.version = 0 THEN "UNTRACKED"
                  ELSE stateOf[<<view.object, view.version>>]
  <2>1. /\ at = "EVENTS" /\ at' = "REVIEWS" /\ UNCHANGED <<vars, stateOf>>
        /\ view' = [view EXCEPT !.state = s]
    BY <1>5 DEF ReadEvents, Then
  <2>2. view.object \in Opened /\ view.version <= ver[view.object] /\ view.decided = {}
    BY <2>1 DEF TypedRead
  <2>3. view.version # 0 => view.version \in Versions
    <3>1. ver[view.object] <= MaxVersion /\ ver[view.object] \in Nat /\ MaxVersion \in Nat
      BY <1>1, <2>2, Sentinels DEF Ground
    <3>2. view.version \in Nat
      BY <1>0 DEF Views
    <3>3. QED
      BY <2>2, <3>1, <3>2 DEF Versions
  <2>4. s \in States
    BY <1>0, <2>2, <2>3 DEF States
  <2> HIDE DEF s
  <2>5. /\ view' \in Views /\ view'.object = view.object /\ view'.version = view.version
        /\ view'.decided = view.decided /\ view'.cases = view.cases
    BY <1>0, <2>1, <2>4 DEF Views
  <2>6. QED
    BY <1>0, <1>2, <2>1, <2>2, <2>5 DEF Statements
<1>6. ASSUME ReadReviews PROVE TypedRead'
  <2> DEFINE c == CasesOf(view.object)
             a == {r \in c : IsAccepted(r)}
  <2>1. /\ at = "REVIEWS" /\ at' = "DECISIONS" /\ UNCHANGED <<vars, stateOf>>
        /\ view' = [view EXCEPT !.cases = c, !.accepted = a]
    BY <1>6 DEF ReadReviews, Then
  <2>2. view.decided = {}
    BY <2>1 DEF TypedRead
  <2>3. c \subseteq ReviewIds /\ a \subseteq ReviewIds
    BY DEF CasesOf
  <2> HIDE DEF c, a
  <2>4. /\ view' \in Views /\ view'.object = view.object /\ view'.version = view.version
        /\ view'.decided = view.decided
    BY <1>0, <2>1, <2>3 DEF Views
  <2>5. QED
    BY <1>2, <2>1, <2>2, <2>4 DEF Statements
<1>7. ASSUME ReadDecisions PROVE TypedRead'
  <2> DEFINE d == {r \in view.cases : reviews[r].status # "SUBMITTED"}
  <2>1. /\ at = "DECISIONS" /\ at' \in {"ANSWER", "JOB"} /\ UNCHANGED <<vars, stateOf>>
        /\ view' = [view EXCEPT !.decided = d]
    BY <1>7 DEF ReadDecisions
  <2>2. d \subseteq view.cases /\ view.cases \subseteq ReviewIds
    BY <1>0 DEF Views
  <2> HIDE DEF d
  <2>3. /\ view' \in Views /\ view'.object = view.object /\ view'.version = view.version
        /\ view'.decided = d /\ view'.cases = view.cases
    BY <1>0, <2>1, <2>2 DEF Views
  <2>4. QED
    BY <1>2, <2>1, <2>2, <2>3 DEF Statements
<1>8. ASSUME ReadJob PROVE TypedRead'
  <2>1. at = "JOB" /\ at' = "ISSUES" /\ UNCHANGED <<vars, stateOf>>
    BY <1>8 DEF ReadJob, Then
  <2>2. CASE Newest = NoJob
    <3>1. view' = view
      BY <1>8, <2>2 DEF ReadJob
    <3>2. QED
      BY <1>0, <1>2, <2>1, <3>1 DEF Statements
  <2>3. CASE Newest # NoJob
    <3>1. Newest \in JobIds
      BY <2>3, NewestIsAbout
    <3>2. PICK v : v = [view EXCEPT !.job = Newest]
      OBVIOUS
    <3>3. /\ v \in Views /\ v.object = view.object /\ v.version = view.version
          /\ v.decided = view.decided /\ v.cases = view.cases
      BY <1>0, <3>1, <3>2 DEF Views
    <3>4. view' = Holding(v, Newest)
      BY <1>8, <2>3, <3>2 DEF ReadJob
    <3>5. /\ view' \in Views /\ view'.object = view.object /\ view'.version = view.version
          /\ view'.decided = view.decided /\ view'.cases = view.cases
      BY <3>1, <3>3, <3>4, HoldingIs
    <3>6. QED
      BY <1>0, <1>2, <2>1, <3>5 DEF Statements
  <2>4. QED
    BY <2>2, <2>3
<1>9. ASSUME ReadIssues PROVE TypedRead'
  <2>1. PICK b \in BOOLEAN : view' = [view EXCEPT !.blocking = b]
    BY <1>9 DEF ReadIssues
  <2>2. at = "ISSUES" /\ at' = "LATEST" /\ UNCHANGED <<vars, stateOf>>
    BY <1>9 DEF ReadIssues, Then
  <2>3. /\ view' \in Views /\ view'.object = view.object /\ view'.version = view.version
        /\ view'.decided = view.decided /\ view'.cases = view.cases
    BY <1>0, <2>1 DEF Views
  <2>4. QED
    BY <1>0, <1>2, <2>2, <2>3 DEF Statements
<1>10. ASSUME ReadLatest PROVE TypedRead'
  <2>1. /\ at = "LATEST" /\ at' \in {"COMPLETED", "ANSWER"}
        /\ UNCHANGED <<vars, stateOf>> /\ view' = view
    BY <1>10 DEF ReadLatest
  <2>2. QED
    BY <1>0, <1>2, <2>1 DEF Statements
<1>11. ASSUME ReadCompleted PROVE TypedRead'
  <2>1. /\ at = "COMPLETED" /\ at' \in {"CURRENT", "ANSWER"} /\ UNCHANGED <<vars, stateOf>>
    BY <1>11 DEF ReadCompleted
  <2>2. lastDone[view.object] \in JobIds \cup {NoJob} /\ view.job \in JobIds \cup {NoJob}
    BY <1>0, <1>1, <2>1 DEF TypedRead, TypeOK, Views
  <2>3. PICK seen \in Views, f \in BOOLEAN :
           /\ view' = [seen EXCEPT !.fresh = f]
           /\ \/ seen = view
              \/ \E j \in JobIds : seen = Holding(view, j)
    <3> DEFINE o == view.object
               j == IF view.job # NoJob THEN view.job ELSE lastDone[o]
               found == j # NoJob /\ CompletedFor(j, o, view.version)
               seen == IF found /\ view.job = NoJob THEN Holding(view, j) ELSE view
               f == found /\ seen.passed
    <3>1. view' = [seen EXCEPT !.fresh = f]
      BY <1>11 DEF ReadCompleted
    <3>2. f \in BOOLEAN
      OBVIOUS
    <3>3. seen = view \/ \E k \in JobIds : seen = Holding(view, k)
      BY <2>2
    <3> HIDE DEF seen, f
    <3>4. seen \in Views
      BY <1>0, <3>3, HoldingIs
    <3>5. QED
      BY <3>1, <3>2, <3>3, <3>4
  <2>4. /\ seen \in Views /\ seen.object = view.object /\ seen.version = view.version
        /\ seen.decided = view.decided /\ seen.cases = view.cases
    BY <1>0, <2>3, HoldingIs
  <2>5. /\ view' \in Views /\ view'.object = view.object /\ view'.version = view.version
        /\ view'.decided = view.decided /\ view'.cases = view.cases
    BY <2>3, <2>4 DEF Views
  <2>6. QED
    BY <1>0, <1>2, <2>1, <2>5 DEF Statements
<1>12. ASSUME ReadSnapshot PROVE TypedRead'
  <2>1. PICK b \in BOOLEAN : view' = [view EXCEPT !.fresh = b]
    <3>1. ASSUME NEW same, NEW from, NEW to, Compare(same, from, to)
          PROVE  view' = [view EXCEPT !.fresh = view.fresh /\ same]
      BY <1>0, <3>1 DEF Compare, Views
    <3>2. ASSUME ReadScopes
          PROVE  \E same : view' = [view EXCEPT !.fresh = view.fresh /\ same]
      <4> DEFINE same == Scopes(Taken) = {f \in Scopes(Seen) :
                                             \E r \in Rights(Taken) : r[2] = f[2]}
      <4>1. view' = [view EXCEPT !.fresh = view.fresh /\ same]
        BY <1>0, <3>2 DEF ReadScopes, Views
      <4> HIDE DEF same
      <4>2. QED
        BY <4>1
    <3>3. \E same : view' = [view EXCEPT !.fresh = view.fresh /\ same]
      BY <1>12, <3>1, <3>2 DEF ReadSnapshot
    <3>4. QED
      BY <3>3
  <2>2. /\ at # "IDLE" /\ UNCHANGED <<vars, stateOf>>
        /\ at' \in {"OBJECTS", "RELATIONS", "REGISTERED", "RIGHTS", "SCOPES", "ANSWER"}
    BY <1>12 DEF ReadSnapshot, Compare, ReadScopes, Then
  <2>3. /\ view' \in Views /\ view'.object = view.object /\ view'.version = view.version
        /\ view'.decided = view.decided /\ view'.cases = view.cases
    BY <1>0, <2>1 DEF Views
  <2>4. QED
    BY <1>0, <1>2, <2>2, <2>3 DEF Statements
<1>13. ASSUME Answer PROVE TypedRead'
  BY <1>0, <1>13, NoViewType DEF Answer, Then, TypedRead
<1>14. QED
  BY <1>3, <1>4, <1>5, <1>6, <1>7, <1>8, <1>9, <1>10, <1>11, <1>12, <1>13 DEF Read

-----------------------------------------------------------------------------
(* The verdict.                                                            *)

\* The statements at which a validation that has been loaded is still to be
\* compared with the parcel, one set for each part.
Loaded == {"ISSUES", "LATEST", "COMPLETED"}
ToCurrent == Loaded \cup {"CURRENT"}
ToObjects == ToCurrent \cup {"OBJECTS"}
ToRelations == ToObjects \cup {"RELATIONS"}
ToRegistered == ToRelations \cup {"REGISTERED"}
ToRights == ToRegistered \cup {"RIGHTS"}
ToScopes == ToRights \cup {"SCOPES"}

\* A part in which s differs from the parcel p has not been compared yet.
Ahead(s, p) ==
    \/ at \in ToCurrent /\ Redrew(s, p)
    \/ at \in ToObjects /\ Moved(s, p)
    \/ at \in ToRelations /\ Related(s, p)
    \/ at \in ToRegistered /\ Decided(s, p)
    \/ at \in ToRights /\ Entitled(s, p)
    \/ at \in ToScopes /\ Scoped(s, p)

Unloaded == {"IDLE", "GEOMETRIES", "EVENTS", "REVIEWS", "DECISIONS", "JOB"}

\* What a passing verdict rests on: a validation of the object that completed
\* and passed, and that was fresh when its row was loaded unless a difference
\* is still ahead of the read.
Verdict ==
    /\ at \in Unloaded => view.job = NoJob /\ ~view.passed /\ ~view.blocking
    /\ view.job # NoJob => view.checked = view.job /\ jobs[view.job] # NoJob
    /\ view.passed => /\ view.checked \in JobIds /\ view.checked # NoJob
                      /\ JobDone(view.checked) /\ jobs[view.checked].passed
                      /\ jobs[view.checked].object = view.object
    /\ view.fresh => view.passed /\ at \in (ToScopes \ Loaded) \cup {"ANSWER"}
    /\ view.blocking => /\ view.job \in JobIds /\ view.job # NoJob
                        /\ JobDone(view.job) /\ ~jobs[view.job].passed
    /\ view.fresh \/ (view.passed /\ at \in Loaded)
          => view.held \/ Ahead(jobs[view.checked].snapshot, RootOf[view.object])

\* A passing validation that would not be accepted now differs from its parcel
\* in one of the parts that are compared.
LEMMA RefusedHasGap ==
    ASSUME Ground, NEW j \in JobIds, NEW o \in Objects, NEW v,
           CompletedFor(j, o, v), jobs[j].passed, ~RequireValidation(j, o, v)
    PROVE  LET s == jobs[j].snapshot
               p == RootOf[o]
           IN \/ Redrew(s, p) \/ Moved(s, p) \/ Related(s, p)
              \/ Decided(s, p) \/ Entitled(s, p) \/ Scoped(s, p)
<1>1. /\ TypeOK /\ JobsBehind /\ ScopedRights /\ DoneKnows
      /\ v <= ver[o]
  BY DEF Ground, RecordInv, LedgerInv, KnownVersions, CompletedFor
<1>2. JobDone(j) /\ jobs[j] \in Jobs /\ jobs[j].object = o /\ jobs[j].version = v
  BY <1>1 DEF CompletedFor, JobDone, TypeOK
<1>3. jobs[j].snapshot \in Snapshots /\ RootOf[o] \in Objects /\ v \in Nat /\ ver[o] \in Nat
  BY <1>1, <1>2, RootType DEF Jobs, TypeOK
<1>4. PICK s \in Snapshots, p \in Objects : s = jobs[j].snapshot /\ p = RootOf[o]
  BY <1>3
<1>5. /\ Behind(s, p)
      /\ \A x \in Objects : RootOf[x] # p => s.objects[x] = "ABSENT" /\ s.current[x] = 0
      /\ s.objects[o] = "ACTIVE" /\ s.current[o] = v
  BY <1>1, <1>2, <1>4 DEF JobsBehind, DoneKnows
<1>6. CASE v # ver[o]
  <2>1. s.current[o] < ver[o]
    BY <1>1, <1>3, <1>5, <1>6
  <2>2. Redrew(s, p) \/ Moved(s, p)
    BY <1>4, <1>5, <2>1 DEF Redrew, Moved
  <2>3. QED
    BY <1>4, <2>2
<1>7. CASE v = ver[o]
  <2>1. s # Snapshot(p)
    BY <1>2, <1>4, <1>7 DEF RequireValidation, Fresh
  <2>2. QED
    BY <1>1, <1>4, <1>5, <2>1, StaleHasGap
<1>8. QED
  BY <1>6, <1>7

\* The record that moves on under a verdict: what differed still differs.
LEMMA RecordKeepsVerdict ==
    ASSUME Ground, Ground', TypedRead, Verdict, Record
    PROVE  Verdict'
<1>1. at' = at /\ view' = view /\ [Next]_vars
  BY DEF Record
<1>2. /\ TypeOK /\ TypeOK' /\ JobsBehind
  BY DEF Ground, RecordInv
<1>3. Monotone
  BY <1>1, <1>2, StepMonotone
<1>4. \A j \in JobIds : JobDone(j) => JobDone(j)' /\ jobs'[j] = jobs[j]
  BY <1>3 DEF Monotone, JobDone
<1>a. view.job # NoJob => view.job \in JobIds
  BY DEF TypedRead, Views
<1>b. \A j \in JobIds : jobs[j] # NoJob => jobs'[j] # NoJob
  BY <1>1, <1>2, OneJob
<1>5. ASSUME view.fresh \/ (view.passed /\ at \in Loaded), ~view.held
      PROVE  Ahead(jobs[view.checked].snapshot, RootOf[view.object])'
  <2>1. /\ view.checked \in JobIds /\ JobDone(view.checked)
        /\ jobs[view.checked].object = view.object
        /\ Ahead(jobs[view.checked].snapshot, RootOf[view.object])
    BY <1>5 DEF Verdict
  <2>2. jobs[view.checked] \in Jobs
    BY <1>2, <2>1 DEF JobDone, TypeOK
  <2>3. jobs[view.checked].snapshot \in Snapshots /\ RootOf[view.object] \in Objects
    BY <2>1, <2>2, RootType DEF Jobs
  <2>4. PICK s \in Snapshots, p \in Objects :
           s = jobs[view.checked].snapshot /\ p = RootOf[view.object]
    BY <2>3
  <2>5. Behind(s, p) /\ Ahead(s, p)
    BY <1>2, <2>1, <2>4 DEF JobsBehind
  <2>6. /\ Redrew(s, p) => Redrew(s, p)' \/ Moved(s, p)'
        /\ Moved(s, p) => Moved(s, p)'
        /\ Related(s, p) => Related(s, p)'
        /\ Decided(s, p) => Decided(s, p)'
        /\ Entitled(s, p) => Entitled(s, p)'
        /\ Scoped(s, p) => Scoped(s, p)'
    BY <1>2, <1>3, <2>5, GapsStay
  <2>7. Ahead(s, p)'
    BY <1>1, <2>5, <2>6 DEF Ahead, ToObjects
  <2>8. jobs'[view'.checked].snapshot = s /\ RootOf[view'.object] = p
    BY <1>1, <1>4, <2>1, <2>4
  <2>9. QED
    BY <2>7, <2>8
<1>6. QED
  BY <1>1, <1>4, <1>5, <1>a, <1>b DEF Verdict

\* A read moves nothing of the parcel.
LEMMA SameGaps ==
    ASSUME UNCHANGED vars, NEW s, NEW p
    PROVE  /\ Redrew(s, p)' <=> Redrew(s, p)
           /\ Moved(s, p)' <=> Moved(s, p)
           /\ Related(s, p)' <=> Related(s, p)
           /\ Decided(s, p)' <=> Decided(s, p)
           /\ Entitled(s, p)' <=> Entitled(s, p)
           /\ Scoped(s, p)' <=> Scoped(s, p)
<1>1. /\ life' = life /\ ver' = ver /\ facts' = facts /\ reviews' = reviews
  BY DEF vars
<1>2. FactsOf(p)' = FactsOf(p) /\ Registered(p)' = Registered(p)
  BY <1>1 DEF FactsOf, Registered, IsAccepted
<1>3. QED
  BY <1>1, <1>2 DEF Redrew, Moved, Related, Decided, Entitled, Scoped

\* The row of a passing job that is loaded is one that would be accepted now,
\* or the parcel has moved and every comparison is still to come.
LEMMA LoadedVerdict ==
    ASSUME Ground, UNCHANGED vars, at' \in ToCurrent, view.object \in Objects,
           NEW j \in JobIds, CompletedFor(j, view.object, view.version), jobs[j].passed,
           NEW s, s = jobs[j].snapshot, NEW p, p = RootOf[view.object],
           ~RequireValidation(j, view.object, view.version)
    PROVE  Ahead(s, p)'
<1>1. \/ Redrew(s, p) \/ Moved(s, p) \/ Related(s, p)
      \/ Decided(s, p) \/ Entitled(s, p) \/ Scoped(s, p)
  <2>1. PICK o \in Objects : o = view.object
    OBVIOUS
  <2>2. PICK v : v = view.version
    OBVIOUS
  <2>3. QED
    BY <2>1, <2>2, RefusedHasGap
<1>2. QED
  BY <1>1, SameGaps DEF Ahead, ToObjects, ToRelations, ToRegistered, ToRights, ToScopes

\* A comparison that finds a part equal has nothing to look for in it.
LEMMA ComparedVerdict ==
    ASSUME TypeOK, UNCHANGED vars, NEW p \in Objects, NEW s \in Snapshots,
           Ahead(s, p),
           LET now == Snapshot(p)
           IN \/ at = "CURRENT" /\ at' = "OBJECTS" /\ Geometries(s) = Geometries(now)
              \/ at = "OBJECTS" /\ at' = "RELATIONS" /\ Lives(s) = Lives(now)
              \/ at = "RELATIONS" /\ at' = "REGISTERED" /\ Relations(s) = Relations(now)
              \/ at = "REGISTERED" /\ at' = "RIGHTS" /\ Register(s) = Register(now)
              \/ at = "RIGHTS" /\ at' = "SCOPES" /\ Rights(s) = Rights(now)
              \/ /\ at = "SCOPES" /\ at' = "ANSWER"
                 /\ Scopes(s) = {f \in Scopes(now) : \E r \in Rights(s) : r[2] = f[2]}
    PROVE  Ahead(s, p)'
<1>1. LET now == Snapshot(p)
      IN /\ Redrew(s, p) => Geometries(s) # Geometries(now)
         /\ Moved(s, p) => Lives(s) # Lives(now)
         /\ Related(s, p) => Relations(s) # Relations(now)
         /\ Decided(s, p) => Register(s) # Register(now)
         /\ Entitled(s, p) => Rights(s) # Rights(now)
         /\ Scoped(s, p) => Scopes(s) # {f \in Scopes(now) :
                                            \E r \in Rights(s) : r[2] = f[2]}
  BY GapsAreSeen
<1> USE DEF Ahead, ToObjects, ToRelations, ToRegistered, ToRights, ToScopes, ToCurrent, Loaded
<1>2. CASE at = "CURRENT" /\ at' = "OBJECTS" /\ Geometries(s) = Geometries(Snapshot(p))
  BY <1>1, <1>2, SameGaps
<1>3. CASE at = "OBJECTS" /\ at' = "RELATIONS" /\ Lives(s) = Lives(Snapshot(p))
  BY <1>1, <1>3, SameGaps
<1>4. CASE /\ at = "RELATIONS" /\ at' = "REGISTERED"
           /\ Relations(s) = Relations(Snapshot(p))
  BY <1>1, <1>4, SameGaps
<1>5. CASE at = "REGISTERED" /\ at' = "RIGHTS" /\ Register(s) = Register(Snapshot(p))
  BY <1>1, <1>5, SameGaps
<1>6. CASE at = "RIGHTS" /\ at' = "SCOPES" /\ Rights(s) = Rights(Snapshot(p))
  BY <1>1, <1>6, SameGaps
<1>7. CASE /\ at = "SCOPES" /\ at' = "ANSWER"
           /\ Scopes(s) = {f \in Scopes(Snapshot(p)) : \E r \in Rights(s) : r[2] = f[2]}
  BY <1>1, <1>7, SameGaps
<1>8. QED
  BY <1>2, <1>3, <1>4, <1>5, <1>6, <1>7

\* One comparison, whichever it is.
LEMMA ComparisonStep ==
    ASSUME view \in Views, ReadSnapshot
    PROVE  \E same \in BOOLEAN :
             /\ view' = [view EXCEPT !.fresh = view.fresh /\ same]
             /\ UNCHANGED vars
             /\ \/ /\ at = "CURRENT" /\ at' = "OBJECTS"
                   /\ same => Geometries(Taken) = Geometries(Seen)
                \/ /\ at = "OBJECTS" /\ at' = "RELATIONS"
                   /\ same => Lives(Taken) = Lives(Seen)
                \/ /\ at = "RELATIONS" /\ at' = "REGISTERED"
                   /\ same => Relations(Taken) = Relations(Seen)
                \/ /\ at = "REGISTERED" /\ at' = "RIGHTS"
                   /\ same => Register(Taken) = Register(Seen)
                \/ /\ at = "RIGHTS" /\ at' = "SCOPES"
                   /\ same => Rights(Taken) = Rights(Seen)
                \/ /\ at = "SCOPES" /\ at' = "ANSWER"
                   /\ same => Scopes(Taken) = {f \in Scopes(Seen) :
                                                  \E r \in Rights(Taken) : r[2] = f[2]}
<1>1. ASSUME NEW same \in BOOLEAN, NEW from, NEW to, Compare(same, from, to)
      PROVE  /\ view' = [view EXCEPT !.fresh = view.fresh /\ same]
             /\ UNCHANGED vars /\ at = from /\ at' = to
  BY <1>1 DEF Compare, Then, Views
<1>2. ASSUME ReadScopes
      PROVE  \E same \in BOOLEAN :
               /\ view' = [view EXCEPT !.fresh = view.fresh /\ same]
               /\ UNCHANGED vars /\ at = "SCOPES" /\ at' = "ANSWER"
               /\ same <=> Scopes(Taken) = {f \in Scopes(Seen) :
                                               \E r \in Rights(Taken) : r[2] = f[2]}
  <2> DEFINE same == Scopes(Taken) = {f \in Scopes(Seen) :
                                         \E r \in Rights(Taken) : r[2] = f[2]}
  <2>1. view' = [view EXCEPT !.fresh = view.fresh /\ same]
    BY <1>2 DEF ReadScopes, Views
  <2>2. UNCHANGED vars /\ at = "SCOPES" /\ at' = "ANSWER"
    BY <1>2 DEF ReadScopes, Then
  <2>3. same \in BOOLEAN
    OBVIOUS
  <2>4. same <=> Scopes(Taken) = {f \in Scopes(Seen) :
                                     \E r \in Rights(Taken) : r[2] = f[2]}
    OBVIOUS
  <2> HIDE DEF same
  <2>5. QED
    BY <2>1, <2>2, <2>3, <2>4
<1> DEFINE g == Geometries(Taken) = Geometries(Seen)
           l == Lives(Taken) = Lives(Seen)
           r == Relations(Taken) = Relations(Seen)
           d == Register(Taken) = Register(Seen)
           e == Rights(Taken) = Rights(Seen)
<1>3. g \in BOOLEAN /\ l \in BOOLEAN /\ r \in BOOLEAN /\ d \in BOOLEAN /\ e \in BOOLEAN
  OBVIOUS
<1>4. \/ Compare(g, "CURRENT", "OBJECTS") \/ Compare(l, "OBJECTS", "RELATIONS")
      \/ Compare(r, "RELATIONS", "REGISTERED") \/ Compare(d, "REGISTERED", "RIGHTS")
      \/ Compare(e, "RIGHTS", "SCOPES") \/ ReadScopes
  BY DEF ReadSnapshot
<1>5. QED
  <2>1. CASE Compare(g, "CURRENT", "OBJECTS")
    BY <1>1, <1>3, <2>1
  <2>2. CASE Compare(l, "OBJECTS", "RELATIONS")
    BY <1>1, <1>3, <2>2
  <2>3. CASE Compare(r, "RELATIONS", "REGISTERED")
    BY <1>1, <1>3, <2>3
  <2>4. CASE Compare(d, "REGISTERED", "RIGHTS")
    BY <1>1, <1>3, <2>4
  <2>5. CASE Compare(e, "RIGHTS", "SCOPES")
    BY <1>1, <1>3, <2>5
  <2>6. CASE ReadScopes
    BY <1>2, <2>6
  <2>7. QED
    BY <1>4, <2>1, <2>2, <2>3, <2>4, <2>5, <2>6

\* Each statement of the read keeps the verdict well founded.
LEMMA ReadKeepsVerdict ==
    ASSUME Ground, Ordered, TypedRead, Verdict, Read
    PROVE  Verdict'
<1>0. /\ TypeOK /\ JobsBehind /\ view \in Views
      /\ at # "IDLE" => view.object \in Objects
  BY OpenedShape DEF Ground, RecordInv, TypedRead
\* A view in which nothing was loaded claims nothing.
<1>1. ASSUME view'.job = NoJob, ~view'.passed, ~view'.blocking, ~view'.fresh
      PROVE  Verdict'
  BY <1>1 DEF Verdict
<1>2. ASSUME at \in Unloaded
      PROVE  view.job = NoJob /\ ~view.passed /\ ~view.blocking /\ ~view.fresh
  BY <1>2 DEF Verdict
\* A statement that leaves the verdict to those that follow.
<1>3. ASSUME UNCHANGED vars, ~view'.fresh, at \in Loaded,
             at' \in Loaded \cup {"ANSWER"},
             view'.object = view.object, view'.job = view.job,
             view'.checked = view.checked, view'.passed = view.passed,
             view'.held = view.held,
             view'.blocking => /\ view.job \in JobIds /\ view.job # NoJob
                               /\ JobDone(view.job) /\ ~jobs[view.job].passed
      PROVE  Verdict'
  <2>1. jobs' = jobs
    BY <1>3 DEF vars
  <2>2. \A j : JobDone(j)' <=> JobDone(j)
    BY <2>1 DEF JobDone
  <2>3. ASSUME view.passed, at' \in Loaded, ~view.held
        PROVE  Ahead(jobs[view.checked].snapshot, RootOf[view.object])'
    <3>1. PICK t, p : t = jobs[view.checked].snapshot /\ p = RootOf[view.object]
      OBVIOUS
    <3>2. Ahead(t, p)
      BY <1>3, <2>3, <3>1 DEF Verdict
    <3>3. Ahead(t, p)'
      BY <1>3, <2>3, <3>2, SameGaps
         DEF Ahead, ToCurrent, ToObjects, ToRelations, ToRegistered, ToRights, ToScopes
    <3>4. QED
      BY <1>3, <2>1, <3>1, <3>3
  <2>4. at' \notin Unloaded
    BY <1>3 DEF Unloaded, Loaded
  <2>5. QED
    BY <1>3, <2>1, <2>2, <2>3, <2>4 DEF Verdict
<1>4. ASSUME NEW o \in Opened, Open(o) PROVE Verdict'
  BY <1>1, <1>4 DEF Open, Blank
<1>5. ASSUME ReadGeometries PROVE Verdict'
  <2>1. at \in Unloaded /\ view' = [view EXCEPT !.version = ver[view.object]]
    BY <1>5 DEF ReadGeometries, Then, Unloaded
  <2>2. QED
    BY <1>0, <1>1, <1>2, <2>1 DEF Views
<1>6. ASSUME ReadEvents PROVE Verdict'
  <2>1. /\ at \in Unloaded
        /\ \E x : view' = [view EXCEPT !.state = x]
    BY <1>6 DEF ReadEvents, Then, Unloaded
  <2>2. QED
    BY <1>0, <1>1, <1>2, <2>1 DEF Views
<1>7. ASSUME ReadReviews PROVE Verdict'
  <2>1. /\ at \in Unloaded
        /\ \E c, a : view' = [view EXCEPT !.cases = c, !.accepted = a]
    BY <1>7 DEF ReadReviews, Then, Unloaded
  <2>2. QED
    BY <1>0, <1>1, <1>2, <2>1 DEF Views
<1>8. ASSUME ReadDecisions PROVE Verdict'
  <2>1. /\ at \in Unloaded
        /\ \E d : view' = [view EXCEPT !.decided = d]
    BY <1>8 DEF ReadDecisions, Unloaded
  <2>2. QED
    BY <1>0, <1>1, <1>2, <2>1 DEF Views
<1>9. ASSUME ReadJob PROVE Verdict'
  <2>1. at = "JOB" /\ at' = "ISSUES" /\ UNCHANGED vars /\ jobs' = jobs
    BY <1>9 DEF ReadJob, Then, vars
  <2>2. /\ view.job = NoJob /\ ~view.passed /\ ~view.blocking /\ ~view.fresh
        /\ view.object \in Objects
    BY <1>0, <1>2, <2>1 DEF Unloaded
  <2>3. CASE Newest = NoJob
    BY <1>1, <1>9, <2>2, <2>3 DEF ReadJob
  <2>4. CASE Newest # NoJob
    <3>1. PICK j \in JobIds : j = Newest /\ jobs[j] # NoJob /\ About(j)
      BY <2>4, NewestIsAbout
    <3>2. PICK v : v = [view EXCEPT !.job = j]
      OBVIOUS
    <3>3. /\ v \in Views /\ v.object = view.object /\ v.job = j
          /\ v.blocking = view.blocking /\ v.fresh = view.fresh
      BY <1>0, <3>1, <3>2 DEF Views
    <3>4. view' = Holding(v, j)
      BY <1>9, <2>4, <3>1, <3>2 DEF ReadJob
    <3>5. /\ view'.object = view.object /\ view'.job = j /\ view'.checked = j
          /\ view'.blocking = FALSE /\ view'.fresh = FALSE
          /\ view'.passed = (jobs[j].status = "COMPLETED" /\ jobs[j].passed)
          /\ view'.held = RequireValidation(j, view.object, view.version)
      BY <1>0, <2>2, <3>3, <3>4, HoldingIs DEF Views
    <3>6. j # NoJob /\ at' \in ToCurrent /\ at' \notin Unloaded
      BY <2>1, <2>4, <3>1 DEF ToCurrent, Loaded, Unloaded
    <3>7. ASSUME view'.passed
          PROVE  /\ JobDone(j)' /\ jobs'[j].passed /\ jobs'[j].object = view'.object
                 /\ CompletedFor(j, view.object, view.version) /\ jobs[j].passed
      BY <2>1, <3>1, <3>5, <3>7 DEF JobDone, CompletedFor, About
    <3>8. ASSUME view'.passed, ~view'.held
          PROVE  Ahead(jobs[view.checked].snapshot, RootOf[view.object])'
      <4>1. PICK t, p : t = jobs[j].snapshot /\ p = RootOf[view.object]
        OBVIOUS
      <4>2. ~RequireValidation(j, view.object, view.version)
        BY <3>5, <3>8
      <4>3. Ahead(t, p)'
        BY <2>1, <2>2, <3>6, <3>7, <3>8, <4>1, <4>2, LoadedVerdict
      <4>4. jobs'[view'.checked].snapshot = t /\ RootOf[view'.object] = p
        BY <2>1, <3>5, <4>1
      <4>5. QED
        BY <4>3, <4>4
    <3>9. QED
      BY <2>1, <3>1, <3>5, <3>6, <3>7, <3>8 DEF Verdict
  <2>5. QED
    BY <2>3, <2>4
<1>10. ASSUME ReadIssues PROVE Verdict'
  <2> DEFINE b == /\ view.job # NoJob
                  /\ jobs[view.job].status = "COMPLETED" /\ ~jobs[view.job].passed
  <2>1. /\ at = "ISSUES" /\ at' = "LATEST" /\ UNCHANGED vars
        /\ view' = [view EXCEPT !.blocking = b]
    BY <1>10 DEF ReadIssues, Then
  <2>2. view.job \in JobIds \cup {NoJob} /\ b \in BOOLEAN
    BY <1>0 DEF Views
  <2>3. ~view.fresh
    BY <1>0, <2>1 DEF Verdict, Loaded, ToScopes, ToRights, ToRegistered, ToRelations,
                      ToObjects, ToCurrent
  <2>4. b => view.job \in JobIds /\ view.job # NoJob /\ ~jobs[view.job].passed
             /\ jobs[view.job].status = "COMPLETED"
    BY <2>2
  <2>5. b => jobs[view.job] # NoJob
    BY DEF Verdict
  <2> HIDE DEF b
  <2>6. /\ view'.object = view.object /\ view'.job = view.job
        /\ view'.checked = view.checked /\ view'.passed = view.passed
        /\ view'.held = view.held /\ view'.fresh = view.fresh /\ view'.blocking = b
    BY <1>0, <2>1, <2>2 DEF Views
  <2>7. QED
    BY <1>3, <2>1, <2>3, <2>4, <2>5, <2>6 DEF JobDone, Loaded
<1>11. ASSUME ReadLatest PROVE Verdict'
  <2>1. /\ at = "LATEST" /\ at' \in {"COMPLETED", "ANSWER"} /\ UNCHANGED vars
        /\ view' = view
    BY <1>11 DEF ReadLatest
  <2>2. ~view.fresh
    BY <2>1 DEF Verdict, Loaded
  <2>3. QED
    BY <1>3, <2>1, <2>2 DEF Verdict, Loaded
<1>12. ASSUME ReadCompleted PROVE Verdict'
  <2> DEFINE o == view.object
             k == IF view.job # NoJob THEN view.job ELSE lastDone[o]
             found == k # NoJob /\ CompletedFor(k, o, view.version)
             seen == IF found /\ view.job = NoJob THEN Holding(view, k) ELSE view
             ok == found /\ seen.passed
  <2>1. /\ at = "COMPLETED" /\ UNCHANGED vars /\ jobs' = jobs
        /\ view' = [seen EXCEPT !.fresh = ok]
        /\ at' = IF ok THEN "CURRENT" ELSE "ANSWER"
    BY <1>12 DEF ReadCompleted, vars
  <2>2. /\ o \in Objects /\ k \in JobIds \cup {NoJob} /\ ok \in BOOLEAN
    BY <1>0, <2>1 DEF TypeOK, Views
  <2>3. /\ at \in Loaded /\ at' \notin Unloaded /\ at' \notin Loaded
        /\ at' = "CURRENT" \/ at' = "ANSWER"
        /\ "CURRENT" \in ToCurrent /\ "CURRENT" \in ToScopes
    BY <2>1 DEF Loaded, Unloaded, ToScopes, ToRights, ToRegistered, ToRelations,
                ToObjects, ToCurrent
  <2>4. CASE found /\ view.job = NoJob
    <3>1. PICK j \in JobIds : j = k /\ j # NoJob /\ CompletedFor(j, o, view.version)
      BY <2>2, <2>4
    <3>2. seen = Holding(view, j) /\ (ok <=> seen.passed)
      BY <2>4, <3>1
    <3>3. /\ seen \in Views /\ seen.object = o /\ seen.job = NoJob /\ seen.checked = j
          /\ seen.blocking = view.blocking
          /\ seen.passed = (jobs[j].status = "COMPLETED" /\ jobs[j].passed)
          /\ seen.held = RequireValidation(j, view.object, view.version)
      BY <1>0, <2>4, <3>2, HoldingIs
    <3> HIDE DEF seen, ok
    <3>4. /\ view'.object = o /\ view'.job = NoJob /\ view'.checked = j
          /\ view'.blocking = view.blocking /\ view'.passed = seen.passed
          /\ view'.held = seen.held /\ view'.fresh = ok
      BY <2>1, <2>2, <3>3 DEF Views
    <3>5. ~view.blocking
      BY <2>4 DEF Verdict
    <3>6. CASE ~ok
      BY <1>1, <3>2, <3>4, <3>5, <3>6
    <3>7. CASE ok
      <4>1. at' = "CURRENT" /\ jobs[j].passed
        BY <2>1, <3>2, <3>3, <3>7
      <4>2. /\ JobDone(j)' /\ jobs'[j].passed /\ jobs'[j].object = view'.object
        BY <2>1, <3>1, <3>4, <4>1 DEF CompletedFor, JobDone
      <4>3. ASSUME ~view'.held
            PROVE  Ahead(jobs[view.checked].snapshot, RootOf[view.object])'
        <5>1. PICK t, p : t = jobs[j].snapshot /\ p = RootOf[view.object]
          OBVIOUS
        <5>2. ~RequireValidation(j, view.object, view.version)
          BY <3>3, <3>4, <4>3
        <5>3. Ahead(t, p)'
          BY <2>1, <2>2, <2>3, <3>1, <4>1, <5>1, <5>2, LoadedVerdict
        <5>4. jobs'[view'.checked].snapshot = t /\ RootOf[view'.object] = p
          BY <2>1, <3>4, <5>1
        <5>5. QED
          BY <5>3, <5>4
      <4>4. QED
        BY <2>3, <3>1, <3>2, <3>4, <3>5, <3>7, <4>1, <4>2, <4>3 DEF Verdict
    <3>8. QED
      BY <3>6, <3>7
  <2>5. CASE ~(found /\ view.job = NoJob)
    <3>1. seen = view
      BY <2>5
    <3>2. ok => view.job # NoJob /\ view.passed
      BY <2>5, <3>1
    <3> HIDE DEF seen, ok
    <3>3. /\ view'.object = o /\ view'.job = view.job /\ view'.checked = view.checked
          /\ view'.blocking = view.blocking /\ view'.passed = view.passed
          /\ view'.held = view.held /\ view'.fresh = ok
      BY <1>0, <2>1, <2>2, <3>1 DEF Views
    <3>4. CASE ~ok
      <4>1. view.blocking => /\ view.job \in JobIds /\ view.job # NoJob
                             /\ JobDone(view.job) /\ ~jobs[view.job].passed
        BY DEF Verdict
      <4>2. QED
        BY <1>3, <2>1, <2>3, <3>3, <3>4, <4>1
    <3>5. CASE ok
      <4>1. view.passed /\ at' = "CURRENT"
        BY <2>1, <3>2, <3>5
      <4>2. ASSUME ~view.held
            PROVE  Ahead(jobs[view.checked].snapshot, RootOf[view.object])'
        <5>1. PICK t, p : t = jobs[view.checked].snapshot /\ p = RootOf[view.object]
          OBVIOUS
        <5>2. Ahead(t, p)
          BY <2>3, <4>1, <4>2, <5>1 DEF Verdict
        <5>3. Ahead(t, p)'
          BY <2>1, <4>1, <5>2, SameGaps
             DEF Ahead, ToCurrent, ToObjects, ToRelations, ToRegistered, ToRights, ToScopes
        <5>4. jobs'[view'.checked].snapshot = t /\ RootOf[view'.object] = p
          BY <2>1, <3>3, <5>1
        <5>5. QED
          BY <5>3, <5>4
      <4>3. \A j : JobDone(j)' <=> JobDone(j)
        BY <2>1 DEF JobDone
      <4>4. QED
        BY <2>1, <2>3, <3>3, <3>5, <4>1, <4>2, <4>3 DEF Verdict
    <3>6. QED
      BY <3>4, <3>5
  <2>6. QED
    BY <2>4, <2>5
<1>13. ASSUME ReadSnapshot PROVE Verdict'
  <2>1. PICK same \in BOOLEAN :
          /\ view' = [view EXCEPT !.fresh = view.fresh /\ same]
          /\ UNCHANGED vars
          /\ \/ /\ at = "CURRENT" /\ at' = "OBJECTS"
                /\ same => Geometries(Taken) = Geometries(Seen)
             \/ /\ at = "OBJECTS" /\ at' = "RELATIONS"
                /\ same => Lives(Taken) = Lives(Seen)
             \/ /\ at = "RELATIONS" /\ at' = "REGISTERED"
                /\ same => Relations(Taken) = Relations(Seen)
             \/ /\ at = "REGISTERED" /\ at' = "RIGHTS"
                /\ same => Register(Taken) = Register(Seen)
             \/ /\ at = "RIGHTS" /\ at' = "SCOPES"
                /\ same => Rights(Taken) = Rights(Seen)
             \/ /\ at = "SCOPES" /\ at' = "ANSWER"
                /\ same => Scopes(Taken) = {f \in Scopes(Seen) :
                                               \E r \in Rights(Taken) : r[2] = f[2]}
    BY <1>0, <1>13, ComparisonStep
  <2>2. /\ view'.object = view.object /\ view'.job = view.job
        /\ view'.checked = view.checked /\ view'.blocking = view.blocking
        /\ view'.passed = view.passed /\ view'.held = view.held
        /\ view'.fresh = (view.fresh /\ same)
    BY <1>0, <2>1 DEF Views
  <2>3. jobs' = jobs /\ \A j : JobDone(j)' <=> JobDone(j)
    BY <2>1 DEF vars, JobDone
  <2>4. /\ at' \notin Unloaded /\ at' \notin Loaded
        /\ at' \in (ToScopes \ Loaded) \cup {"ANSWER"}
    BY <2>1 DEF Loaded, Unloaded, ToScopes, ToRights, ToRegistered, ToRelations,
                ToObjects, ToCurrent
  <2>5. ASSUME view.fresh, same, ~view.held
        PROVE  Ahead(jobs[view.checked].snapshot, RootOf[view.object])'
    <3>1. /\ view.checked \in JobIds /\ JobDone(view.checked)
          /\ jobs[view.checked].object = view.object
          /\ Ahead(jobs[view.checked].snapshot, RootOf[view.object])
      BY <2>5 DEF Verdict
    <3>2. jobs[view.checked] \in Jobs
      BY <1>0, <3>1 DEF JobDone, TypeOK
    <3>3. jobs[view.checked].snapshot \in Snapshots /\ RootOf[view.object] \in Objects
      BY <3>1, <3>2, RootType DEF Jobs
    <3>4. PICK s \in Snapshots, p \in Objects :
             s = jobs[view.checked].snapshot /\ p = RootOf[view.object]
      BY <3>3
    <3>5. Taken = s /\ Seen = Snapshot(p) /\ Ahead(s, p)
      BY <3>1, <3>4 DEF Taken, Seen
    <3>6. Ahead(s, p)'
      BY <1>0, <2>1, <2>5, <3>5, ComparedVerdict
    <3>7. jobs'[view'.checked].snapshot = s /\ RootOf[view'.object] = p
      BY <2>2, <2>3, <3>4
    <3>8. QED
      BY <3>6, <3>7
  <2>6. QED
    BY <2>2, <2>3, <2>4, <2>5 DEF Verdict
<1>14. ASSUME Answer PROVE Verdict'
  BY <1>1, <1>14 DEF Answer, NoView, Blank
<1>15. QED
  BY <1>4, <1>5, <1>6, <1>7, <1>8, <1>9, <1>10, <1>11, <1>12, <1>13, <1>14 DEF Read

-----------------------------------------------------------------------------
(* The cases behind the state.                                             *)

CaseOf(r, o, v) == reviews[r] # NoReview /\ reviews[r].object = o /\ reviews[r].version = v

\* A version of which the latest event says REVIEW has a case, one of which it
\* says ACCEPTED has an accepted one.
Vouched(o, v, state) ==
    /\ state = "REVIEW" => \E r \in ReviewIds : CaseOf(r, o, v)
    /\ state = "ACCEPTED" => \E r \in ReviewIds : CaseOf(r, o, v) /\ IsAccepted(r)

EventsVouched == \A o \in Opened, v \in Versions : Vouched(o, v, stateOf[<<o, v>>])

\* The statements after the cases, and after the decisions, were read.
Listed == Statements \ {"GEOMETRIES", "EVENTS", "REVIEWS"}
Settled == Listed \ {"DECISIONS"}

\* The state read is vouched for by rows, then by the rows that were read.
StateVouched ==
    /\ at = "REVIEWS" => Vouched(view.object, view.version, view.state)
    /\ \A r \in view.cases : r \in ReviewIds /\ reviews[r] # NoReview
    /\ at \in Listed =>
          /\ view.state = "REVIEW" =>
                \E r \in view.cases : reviews[r].version = view.version
          /\ view.state = "ACCEPTED" =>
                \E r \in view.cases \cap view.accepted :
                    reviews[r].version = view.version /\ IsAccepted(r)
    /\ at \in Settled /\ view.state = "ACCEPTED" =>
                \E r \in view.cases \cap view.accepted \cap view.decided :
                    reviews[r].version = view.version

\* Cases are never withdrawn, and keep their geometry.
LEMMA VouchedStays ==
    ASSUME Monotone, NEW o, NEW v, NEW state, Vouched(o, v, state)
    PROVE  Vouched(o, v, state)'
<1>1. ASSUME NEW r \in ReviewIds, CaseOf(r, o, v) PROVE CaseOf(r, o, v)'
  BY <1>1 DEF CaseOf, Monotone
<1>2. ASSUME NEW r \in ReviewIds, CaseOf(r, o, v), IsAccepted(r) PROVE IsAccepted(r)'
  BY <1>2 DEF CaseOf, Monotone
<1>3. QED
  BY <1>1, <1>2 DEF Vouched

\* An event is appended in the transaction that writes the case it is about.
LEMMA EventsVouchedStep ==
    ASSUME Ground, Ground', EventsVouched, Record
    PROVE  EventsVouched'
<1>1. [Next]_vars /\ TypeOK /\ Monotone
  BY StepMonotone DEF Record, Ground, RecordInv
<1>2. SUFFICES ASSUME NEW o \in Opened, NEW v \in Versions
               PROVE  Vouched(o, v, stateOf[<<o, v>>])'
  BY DEF EventsVouched
<1>3. stateOf'[<<o, v>>] = IF v = ver'[o] THEN shown'[o]
                           ELSE IF JustReturned(o, v) THEN "CORRECTION_REQUIRED"
                           ELSE stateOf[<<o, v>>]
  BY DEF Record
<1>4. CASE v = ver'[o]
  <2>1. Backed(o)'
    BY OpenedShape DEF Ground, LedgerInv
  <2>2. stateOf'[<<o, v>>] = shown'[o]
    BY <1>3, <1>4
  <2>3. QED
    BY <1>4, <2>1, <2>2 DEF Backed, CaseOn, Vouched, CaseOf, IsAccepted
<1>5. CASE v # ver'[o] /\ JustReturned(o, v)
  BY <1>3, <1>5 DEF Vouched
<1>6. CASE v # ver'[o] /\ ~JustReturned(o, v)
  <2>1. PICK state : state = stateOf[<<o, v>>]
    OBVIOUS
  <2>2. Vouched(o, v, state)
    BY <2>1 DEF EventsVouched
  <2>3. Vouched(o, v, state)'
    BY <1>1, <2>2, VouchedStays
  <2>4. stateOf'[<<o, v>>] = state
    BY <1>3, <1>6, <2>1
  <2>5. QED
    BY <2>3, <2>4 DEF Vouched
<1>7. QED
  BY <1>4, <1>5, <1>6

\* The record that moves on takes no row away that the read has listed.
LEMMA RecordKeepsVouched ==
    ASSUME Ground, StateVouched, TypedRead, Record
    PROVE  StateVouched'
<1>1. at' = at /\ view' = view /\ [Next]_vars
  BY DEF Record
<1>2. Monotone
  BY <1>1, StepMonotone DEF Ground, RecordInv
<1>3. \A r \in view.cases :
         /\ r \in ReviewIds /\ reviews'[r] # NoReview
         /\ reviews'[r].version = reviews[r].version
         /\ IsAccepted(r) => IsAccepted(r)'
  BY <1>2 DEF StateVouched, Monotone
<1>4. at = "REVIEWS" => Vouched(view.object, view.version, view.state)'
  <2>1. PICK o, v, state : o = view.object /\ v = view.version /\ state = view.state
    OBVIOUS
  <2>2. at = "REVIEWS" => Vouched(o, v, state)
    BY <2>1 DEF StateVouched
  <2>3. at = "REVIEWS" => Vouched(o, v, state)'
    BY <1>2, <2>2, VouchedStays
  <2>4. view'.object = o /\ view'.version = v /\ view'.state = state
    BY <1>1, <2>1
  <2>5. QED
    BY <2>3, <2>4
<1>5. QED
  BY <1>1, <1>3, <1>4 DEF StateVouched

\* The statements after the decisions leave what was read of the cases alone.
LEMMA LaterStatements ==
    ASSUME Ordered, TypedRead, TypeOK, Read,
           at \notin {"IDLE", "GEOMETRIES", "EVENTS", "REVIEWS", "DECISIONS", "ANSWER"}
    PROVE  /\ at' \in Settled /\ UNCHANGED vars
           /\ view'.version = view.version /\ view'.state = view.state
           /\ view'.cases = view.cases /\ view'.accepted = view.accepted
           /\ view'.decided = view.decided
<1> DEFINE Goal == /\ at' \in Settled /\ UNCHANGED vars
                   /\ view'.version = view.version /\ view'.state = view.state
                   /\ view'.cases = view.cases /\ view'.accepted = view.accepted
                   /\ view'.decided = view.decided
<1>0. view \in Views /\ (at # "IDLE" => view.object \in Objects)
  BY OpenedShape DEF TypedRead
<1> USE DEF Settled, Listed, Statements
<1>1. CASE ReadJob
  <2>1. at' = "ISSUES" /\ UNCHANGED vars
    BY <1>1 DEF ReadJob, Then
  <2>2. CASE Newest = NoJob
    BY <1>1, <2>1, <2>2 DEF ReadJob
  <2>3. CASE Newest # NoJob
    <3>1. Newest \in JobIds
      BY <2>3, NewestIsAbout
    <3>2. PICK v : v = [view EXCEPT !.job = Newest]
      OBVIOUS
    <3>3. /\ v \in Views /\ v.version = view.version /\ v.state = view.state
          /\ v.cases = view.cases /\ v.accepted = view.accepted
          /\ v.decided = view.decided
      BY <1>0, <3>1, <3>2 DEF Views
    <3>4. view' = Holding(v, Newest)
      BY <1>1, <2>3, <3>2 DEF ReadJob
    <3>5. QED
      BY <2>1, <3>1, <3>3, <3>4, HoldingIs
  <2>4. QED
    BY <2>2, <2>3
<1>2. CASE ReadIssues
  <2>1. PICK b : view' = [view EXCEPT !.blocking = b]
    BY <1>2 DEF ReadIssues
  <2>2. QED
    BY <1>0, <1>2, <2>1 DEF ReadIssues, Then, Views
<1>3. CASE ReadLatest
  BY <1>3 DEF ReadLatest
<1>4. CASE ReadCompleted
  <2>1. at' \in {"CURRENT", "ANSWER"} /\ UNCHANGED vars /\ at # "IDLE"
    BY <1>4 DEF ReadCompleted
  <2>2. lastDone[view.object] \in JobIds \cup {NoJob} /\ view.job \in JobIds \cup {NoJob}
    BY <1>0, <2>1 DEF TypeOK, Views
  <2>3. PICK seen, f :
           /\ view' = [seen EXCEPT !.fresh = f]
           /\ \/ seen = view
              \/ \E j \in JobIds : seen = Holding(view, j)
    BY <1>4, <2>2 DEF ReadCompleted
  <2>4. /\ seen \in Views /\ seen.version = view.version /\ seen.state = view.state
        /\ seen.cases = view.cases /\ seen.accepted = view.accepted
        /\ seen.decided = view.decided
    BY <1>0, <2>3, HoldingIs
  <2>5. QED
    BY <2>1, <2>3, <2>4 DEF Views
<1>5. CASE ReadSnapshot
  <2>1. PICK same : view' = [view EXCEPT !.fresh = view.fresh /\ same]
    BY <1>0, <1>5, ComparisonStep
  <2>2. UNCHANGED vars /\ at' \in Settled
    BY <1>0, <1>5, ComparisonStep
  <2>3. QED
    BY <1>0, <2>1, <2>2 DEF Views
<1>6. CASE (\E o \in Opened : Open(o)) \/ ReadGeometries \/ ReadEvents \/ ReadReviews
             \/ ReadDecisions \/ Answer
  BY <1>6 DEF Open, ReadGeometries, ReadEvents, ReadReviews, ReadDecisions, Answer, Then
<1>7. QED
  BY <1>1, <1>2, <1>3, <1>4, <1>5, <1>6 DEF Read

\* The read looks for the cases after the state and for the decisions after
\* the cases, so it finds what vouches for the state.
LEMMA ReadKeepsVouched ==
    ASSUME Ground, Ordered, TypedRead, EventsVouched, StateVouched, Read
    PROVE  StateVouched'
<1>0. /\ TypeOK /\ view \in Views
      /\ at # "IDLE" => view.object \in Opened /\ view.version <= ver[view.object]
  BY DEF Ground, RecordInv, TypedRead
<1> USE DEF Settled, Listed, Statements
<1>1. ASSUME NEW o \in Opened, Open(o) PROVE StateVouched'
  BY <1>1 DEF Open, Then, Blank, StateVouched
<1>2. ASSUME ReadGeometries PROVE StateVouched'
  <2>1. /\ at' = "EVENTS" /\ view' = [view EXCEPT !.version = ver[view.object]]
        /\ reviews' = reviews
    BY <1>2 DEF ReadGeometries, Then, vars
  <2>2. view'.cases = view.cases
    BY <1>0, <2>1 DEF Views
  <2>3. QED
    BY <2>1, <2>2 DEF StateVouched
<1>3. ASSUME ReadEvents PROVE StateVouched'
  <2> DEFINE s == IF view.version = 0 THEN "UNTRACKED"
                  ELSE stateOf[<<view.object, view.version>>]
  <2>1. /\ at = "EVENTS" /\ at' = "REVIEWS" /\ reviews' = reviews
        /\ view' = [view EXCEPT !.state = s]
    BY <1>3 DEF ReadEvents, Then, vars
  <2>2. CASE view.version = 0
    <3>1. view'.state = "UNTRACKED" /\ view'.cases = view.cases
      BY <1>0, <2>1, <2>2 DEF Views
    <3>2. QED
      BY <2>1, <3>1 DEF StateVouched, Vouched
  <2>3. CASE view.version # 0
    <3>1. view.object \in Opened /\ view.object \in Objects /\ view.version \in Versions
      <4>1. view.object \in Opened /\ view.object \in Objects
        BY <1>0, <2>1, OpenedShape
      <4>2. /\ ver[view.object] <= MaxVersion /\ ver[view.object] \in Nat
            /\ MaxVersion \in Nat /\ view.version \in Nat
            /\ view.version <= ver[view.object]
        BY <1>0, <2>1, <4>1, Sentinels DEF Ground, TypeOK, Views
      <4>3. QED
        BY <2>3, <4>1, <4>2 DEF Versions
    <3>2. Vouched(view.object, view.version, s)
      BY <2>3, <3>1 DEF EventsVouched
    <3> HIDE DEF s
    <3>3. /\ view'.state = s /\ view'.cases = view.cases
          /\ view'.object = view.object /\ view'.version = view.version
      BY <1>0, <2>1 DEF Views
    <3>4. Vouched(view.object, view.version, view.state)'
      BY <2>1, <3>2, <3>3 DEF Vouched, CaseOf, IsAccepted
    <3>5. QED
      BY <2>1, <3>3, <3>4 DEF StateVouched
  <2>4. QED
    BY <2>2, <2>3
<1>4. ASSUME ReadReviews PROVE StateVouched'
  <2> DEFINE c == CasesOf(view.object)
             a == {r \in c : IsAccepted(r)}
  <2>1. /\ at = "REVIEWS" /\ at' = "DECISIONS" /\ reviews' = reviews
        /\ view' = [view EXCEPT !.cases = c, !.accepted = a]
    BY <1>4 DEF ReadReviews, Then, vars
  <2>2. Vouched(view.object, view.version, view.state)
    BY <2>1 DEF StateVouched
  <2>3. \A r \in ReviewIds : CaseOf(r, view.object, view.version) =>
           r \in c /\ reviews[r].version = view.version /\ (IsAccepted(r) => r \in a)
    BY DEF CaseOf, CasesOf
  <2>4. \A r \in c : r \in ReviewIds /\ reviews[r] # NoReview
    BY DEF CasesOf
  <2> HIDE DEF c, a
  <2>5. /\ view'.cases = c /\ view'.accepted = a /\ view'.state = view.state
        /\ view'.version = view.version
    BY <1>0, <2>1 DEF Views
  <2>6. \A r : IsAccepted(r)' <=> IsAccepted(r)
    BY <2>1 DEF IsAccepted
  <2>7. /\ view.state = "REVIEW" => \E r \in c : reviews[r].version = view.version
        /\ view.state = "ACCEPTED" =>
              \E r \in c \cap a : reviews[r].version = view.version /\ IsAccepted(r)
    BY <2>2, <2>3 DEF Vouched
  <2>8. QED
    BY <2>1, <2>4, <2>5, <2>6, <2>7 DEF StateVouched
<1>5. ASSUME ReadDecisions PROVE StateVouched'
  <2> DEFINE d == {r \in view.cases : reviews[r].status # "SUBMITTED"}
  <2>1. /\ at = "DECISIONS" /\ at' \in {"ANSWER", "JOB"} /\ UNCHANGED vars
        /\ reviews' = reviews /\ view' = [view EXCEPT !.decided = d]
    BY <1>5 DEF ReadDecisions, vars
  <2>2. \A r \in view.cases : IsAccepted(r) => r \in d
    BY DEF IsAccepted
  <2> HIDE DEF d
  <2>3. /\ view'.decided = d /\ view'.cases = view.cases /\ view'.state = view.state
        /\ view'.accepted = view.accepted /\ view'.version = view.version
    BY <1>0, <2>1 DEF Views
  <2>4. \A r : IsAccepted(r)' <=> IsAccepted(r)
    BY <2>1 DEF IsAccepted
  <2>5. /\ view.state = "REVIEW" => \E r \in view.cases : reviews[r].version = view.version
        /\ view.state = "ACCEPTED" =>
              \E r \in view.cases \cap view.accepted :
                  reviews[r].version = view.version /\ IsAccepted(r)
    BY <2>1 DEF StateVouched
  <2>6. view.state = "ACCEPTED" =>
           \E r \in view.cases \cap view.accepted \cap d : reviews[r].version = view.version
    BY <2>2, <2>5
  <2>7. \A r \in view.cases : r \in ReviewIds /\ reviews[r] # NoReview
    BY DEF StateVouched
  <2>8. QED
    BY <2>1, <2>3, <2>4, <2>5, <2>6, <2>7 DEF StateVouched
<1>6. ASSUME Answer PROVE StateVouched'
  BY <1>6 DEF Answer, Then, NoView, Blank, StateVouched
<1>7. ASSUME at \notin {"IDLE", "GEOMETRIES", "EVENTS", "REVIEWS", "DECISIONS", "ANSWER"}
      PROVE  StateVouched'
  <2>1. /\ at' \in Settled /\ UNCHANGED vars
        /\ view'.version = view.version /\ view'.state = view.state
        /\ view'.cases = view.cases /\ view'.accepted = view.accepted
        /\ view'.decided = view.decided
    BY <1>0, <1>7, LaterStatements
  <2>2. reviews' = reviews /\ \A r : IsAccepted(r)' <=> IsAccepted(r)
    BY <2>1 DEF vars, IsAccepted
  <2>3. at \in Settled
    BY <1>7 DEF TypedRead
  <2>4. QED
    BY <2>1, <2>2, <2>3 DEF StateVouched
<1>8. CASE at \in {"IDLE", "GEOMETRIES", "EVENTS", "REVIEWS", "DECISIONS", "ANSWER"}
  <2>1. CASE ReadJob \/ ReadIssues \/ ReadLatest \/ ReadCompleted \/ ReadSnapshot
    BY <1>8, <2>1
       DEF ReadJob, ReadIssues, ReadLatest, ReadCompleted, ReadSnapshot, Compare,
           ReadScopes, Then
  <2>2. QED
    BY <1>1, <1>2, <1>3, <1>4, <1>5, <1>6, <2>1 DEF Read
<1>9. QED
  BY <1>7, <1>8

-----------------------------------------------------------------------------
\* Together: the inductive invariant of the read.
ReadInv == Ordered /\ TypedRead /\ Verdict /\ EventsVouched /\ StateVouched

\* Nobody reads at first.
LEMMA ReadInit ==
    ASSUME CaseInit
    PROVE  ReadInv
<1>1. /\ Init /\ queued = <<>> /\ at = "IDLE" /\ view = NoView
      /\ stateOf = [m \in Opened \X Versions |->
                       IF m[2] = ver[m[1]] THEN shown[m[1]] ELSE "UNTRACKED"]
  BY DEF CaseInit
<1>2. TypeOK
  BY <1>1, InitType
<1>3. Ordered
  <2>1. queued \in Seq(JobIds) /\ DOMAIN queued = {}
    BY <1>1
  <2>2. {j \in JobIds : jobs[j] # NoJob} = {}
    BY <1>1 DEF Init
  <2>3. QED
    BY <2>1, <2>2 DEF Ordered, IsInjective, ToSet
<1>4. \A m \in Opened \X Versions : shown[m[1]] \in {"DRAFT", "UNTRACKED"}
  BY <1>1, OpenedShape DEF Init
<1>5. /\ stateOf \in [Opened \X Versions -> States]
      /\ \A o \in Opened, v \in Versions : stateOf[<<o, v>>] \in {"DRAFT", "UNTRACKED"}
  BY <1>1, <1>4 DEF States
<1>6. EventsVouched
  BY <1>5 DEF EventsVouched, Vouched
<1>7. TypedRead
  BY <1>1, <1>5, NoViewType DEF TypedRead
<1>8. Verdict /\ StateVouched
  BY <1>1 DEF Verdict, StateVouched, NoView, Blank, Listed, Settled, Statements, Loaded
<1>9. QED
  BY <1>3, <1>6, <1>7, <1>8 DEF ReadInv

\* Every step keeps it, whether the record moves or the read.
LEMMA ReadStep ==
    ASSUME Ground, Ground', ReadInv, [CaseNext]_caseVars
    PROVE  ReadInv'
<1> USE DEF ReadInv
<1>0. TypeOK
  BY DEF Ground, RecordInv
<1>1. CASE Record
  BY <1>0, <1>1, OrderedStep, RecordKeepsTypes, RecordKeepsVerdict, EventsVouchedStep,
     RecordKeepsVouched
<1>2. CASE Read
  <2>1. UNCHANGED <<vars, queued, stateOf>>
    BY <1>2
       DEF Read, Open, ReadGeometries, ReadEvents, ReadReviews, ReadDecisions, ReadJob,
           ReadIssues, ReadLatest, ReadCompleted, ReadSnapshot, Compare, ReadScopes,
           Answer, Then
  <2>2. Ordered'
    BY <2>1 DEF Ordered, vars
  <2>3. EventsVouched'
    <3>1. stateOf' = stateOf /\ reviews' = reviews
      BY <2>1 DEF vars
    <3>2. ASSUME NEW o \in Opened, NEW v \in Versions
          PROVE  Vouched(o, v, stateOf[<<o, v>>])'
      <4>1. Vouched(o, v, stateOf[<<o, v>>])
        BY DEF EventsVouched
      <4>2. QED
        BY <3>1, <4>1 DEF Vouched, CaseOf, IsAccepted
    <3>3. QED
      BY <3>2 DEF EventsVouched
  <2>4. QED
    BY <1>2, <2>2, <2>3, ReadKeepsTypes, ReadKeepsVerdict, ReadKeepsVouched
<1>3. CASE UNCHANGED caseVars
  <2>1. /\ UNCHANGED vars /\ queued' = queued /\ stateOf' = stateOf /\ at' = at
        /\ view' = view
    BY <1>3 DEF caseVars
  <2>2. /\ life' = life /\ ver' = ver /\ facts' = facts /\ jobs' = jobs
        /\ reviews' = reviews
    BY <2>1 DEF vars
  <2>3. Ordered' /\ TypedRead'
    BY <2>1, <2>2 DEF Ordered, TypedRead
  <2>4. Verdict'
    <3>1. PICK s, p : s = jobs[view.checked].snapshot /\ p = RootOf[view.object]
      OBVIOUS
    <3>2. Ahead(s, p)' <=> Ahead(s, p)
      BY <2>1, SameGaps DEF Ahead
    <3>3. \A j : JobDone(j)' <=> JobDone(j)
      BY <2>2 DEF JobDone
    <3>4. /\ Ahead(jobs[view.checked].snapshot, RootOf[view.object])' <=> Ahead(s, p)'
      BY <2>1, <2>2, <3>1
    <3>5. QED
      BY <2>1, <2>2, <3>1, <3>2, <3>3, <3>4 DEF Verdict
  <2>5. EventsVouched' /\ StateVouched'
    BY <2>1, <2>2 DEF EventsVouched, StateVouched, Vouched, CaseOf, IsAccepted
  <2>6. QED
    BY <2>3, <2>4, <2>5
<1>4. QED
  BY <1>1, <1>2, <1>3 DEF CaseNext

\* The invariant of the read holds beside the record's own.
LEMMA ReadInvariant == CaseSpec => [](Ground /\ ReadInv)
<1>1. CaseInit => ReadInv
  BY ReadInit
<1>2. Ground /\ Ground' /\ ReadInv /\ [CaseNext]_caseVars => ReadInv'
  BY ReadStep
<1>3. QED
  BY <1>1, <1>2, ReadsLeaveTheRecord, GroundHolds, PTL DEF CaseSpec

\* The page is typed, lists every queued job once, and is blank between reads.
THEOREM CaseTypeCorrect == CaseSpec => []CaseTypeOK
<1>1. Ground /\ ReadInv => CaseTypeOK
  <2>1. SUFFICES ASSUME ReadInv PROVE CaseTypeOK
    OBVIOUS
  <2>2. NoObject \notin Opened /\ "IDLE" \notin Statements
    BY OpenedShape, Sentinels DEF Statements
  <2>3. NoView.object = NoObject
    BY DEF NoView, Blank
  <2>4. at = "IDLE" <=> view = NoView
    BY <2>1, <2>2, <2>3 DEF ReadInv, TypedRead
  <2>5. view.fresh => view.checked # NoJob
    BY <2>1 DEF ReadInv, Verdict
  <2>6. QED
    BY <2>1, <2>4, <2>5 DEF CaseTypeOK, ReadInv, TypedRead, Ordered
<1>2. QED
  BY <1>1, ReadInvariant, PTL

\* What the page calls fresh was fresh as a whole when its row was loaded, and
\* no finding that blocks is listed beside it.
THEOREM FreshPagesWereFresh == CaseSpec => []FreshShownWasFresh
<1>1. Ground /\ ReadInv => FreshShownWasFresh
  <2>1. SUFFICES ASSUME ReadInv, at = "ANSWER", view.fresh
                 PROVE  view.held /\ ~view.blocking
    BY DEF FreshShownWasFresh
  <2>2. ~Ahead(jobs[view.checked].snapshot, RootOf[view.object])
    BY <2>1 DEF Ahead, ToScopes, ToRights, ToRegistered, ToRelations, ToObjects,
                ToCurrent, Loaded
  <2>3. QED
    BY <2>1, <2>2 DEF ReadInv, Verdict
<1>2. QED
  BY <1>1, ReadInvariant, PTL

\* A page that shows REVIEW or ACCEPTED lists the case and, for ACCEPTED, its
\* decision.
THEOREM StatesComeWithCases == CaseSpec => []StateShownHasItsCase
<1>1. Ground /\ ReadInv => StateShownHasItsCase
  BY DEF ReadInv, StateVouched, StateShownHasItsCase, Listed, Settled, Statements
<1>2. QED
  BY <1>1, ReadInvariant, PTL
=============================================================================
