------------------------ MODULE ProcessingJobsProofs ------------------------
(***************************************************************************)
(* Theorems of ProcessingJobs, for any number of jobs, workers, sources,   *)
(* message copies and faults.                                              *)
(*                                                                         *)
(* The argument: a job leaves QUEUED once, so at most one worker is ever   *)
(* past the claim with it (Ownership); until that worker is done the row   *)
(* is RUNNING, or FAILED when the reaper came first.  With acknowledged    *)
(* commits every write of a status is then one of the documented           *)
(* transitions, or repeats FAILED.                                         *)
(***************************************************************************)
EXTENDS ProcessingJobs, TLAPS

Past == {"CLAIMED", "HANDLING", "FAILING"}

\* Who is past the claim, and what the row says.
Ownership ==
    /\ \A w \in Workers : pc[w] = "IDLE" => at[w] = NoJob
    /\ \A w \in Workers : pc[w] \in Past => status[at[w]] \notin {"NONE", "QUEUED"}
    /\ \A w \in Workers : pc[w] = "HANDLING" => status[at[w]] = "RUNNING"
    /\ \A v, w \in Workers :
          pc[v] \in Past /\ pc[w] \in Past /\ at[v] = at[w] => v = w

\* Without unacknowledged commits a failing worker's job is not COMPLETED.
Acknowledged ==
    \A w \in Workers : pc[w] \in Past => status[at[w]] \in {"RUNNING", "FAILED"}

\* A source without a row has no jobs.
Unregistered ==
    \A j \in JobIds : Ingests(j) /\ source[SourceOf[j]] = "NONE" => status[j] = "NONE"

-----------------------------------------------------------------------------
\* Every step keeps every column in its type.
LEMMA JobsStepType ==
    ASSUME TypeOK, [Next]_vars
    PROVE  TypeOK'
<1> USE JobSentinels DEF TypeOK, Statuses
<1>1. ASSUME NEW j \in JobIds, User(j) PROVE TypeOK'
  BY <1>1, SourceShape
     DEF User, Upload, Resubmit, Request, Cancel, Queue, Ingests
<1>2. ASSUME NEW j \in JobIds, Beat(j) PROVE TypeOK'
  BY <1>2 DEF Beat, Dispatch, DispatchAges, StartAges, Reap
<1>3. ASSUME NEW j \in JobIds, LoseMessage(j) PROVE TypeOK'
  BY <1>3 DEF LoseMessage, Fault, rows
<1>4. ASSUME NEW w \in Workers, Work(w) PROVE TypeOK'
  <2>1. CASE Claim(w)
    BY <2>1 DEF Claim, Go, Leave
  <2>2. CASE Begin(w)
    BY <2>2 DEF Begin, Go, Leave, rows
  <2>3. CASE Complete(w)
    BY <2>3, SourceShape DEF Complete, Committed, Leave, Ingests
  <2>4. CASE CompleteUnacknowledged(w)
    BY <2>4, SourceShape DEF CompleteUnacknowledged, Committed, Go, Ingests
  <2>5. CASE HandlerFails(w)
    BY <2>5 DEF HandlerFails, Go, rows
  <2>6. CASE RecordFailure(w)
    BY <2>6, SourceShape DEF RecordFailure, Leave, Ingests
  <2>7. QED
    BY <1>4, <2>1, <2>2, <2>3, <2>4, <2>5, <2>6 DEF Work
<1>5. ASSUME NEW w \in Workers, Crash(w) PROVE TypeOK'
  BY <1>5 DEF Crash, Fault, Leave, rows
<1>6. ASSUME NEW w \in Workers, NEW j \in JobIds, Receive(w, j) PROVE TypeOK'
  BY <1>6 DEF Receive, rows
<1>7. CASE UNCHANGED vars
  BY <1>7 DEF vars
<1>8. QED
  BY <1>1, <1>2, <1>3, <1>4, <1>5, <1>6, <1>7 DEF Next

\* The rows, the broker and the workers keep their types.
THEOREM JobsTypeCorrect == Spec => []TypeOK
<1>1. Init => TypeOK
  BY DEF Init, TypeOK, Statuses
<1>2. TypeOK /\ [Next]_vars => TypeOK'
  BY JobsStepType
<1>3. QED
  BY <1>1, <1>2, PTL DEF Spec

-----------------------------------------------------------------------------
\* A claim is never shared, whoever stalls, dies or is reaped.
LEMMA OwnershipStep ==
    ASSUME TypeOK, Ownership, [Next]_vars
    PROVE  Ownership'
<1> USE JobSentinels DEF TypeOK, Ownership, Past, Statuses
<1>1. ASSUME NEW j \in JobIds, User(j) PROVE Ownership'
  BY <1>1 DEF User, Upload, Resubmit, Request, Cancel, Queue
<1>2. ASSUME NEW j \in JobIds, Beat(j) PROVE Ownership'
  <2>1. CASE Reap(j)
    BY <2>1 DEF Reap, Locked
  <2>2. CASE Dispatch(j) \/ DispatchAges(j) \/ StartAges(j)
    BY <2>2 DEF Dispatch, DispatchAges, StartAges
  <2>3. QED
    BY <1>2, <2>1, <2>2 DEF Beat
<1>3. ASSUME NEW j \in JobIds, LoseMessage(j) PROVE Ownership'
  BY <1>3 DEF LoseMessage, rows
<1>4. ASSUME NEW w \in Workers, Work(w) PROVE Ownership'
  <2>1. CASE Claim(w)
    BY <2>1 DEF Claim, Go, Leave
  <2>2. CASE Begin(w)
    BY <2>2 DEF Begin, StillRunning, Go, Leave, rows
  <2>3. CASE Complete(w)
    BY <2>3 DEF Complete, Committed, Leave
  <2>4. CASE CompleteUnacknowledged(w)
    BY <2>4 DEF CompleteUnacknowledged, Committed, Go
  <2>5. CASE HandlerFails(w)
    BY <2>5 DEF HandlerFails, Go, rows
  <2>6. CASE RecordFailure(w)
    BY <2>6 DEF RecordFailure, Leave
  <2>7. QED
    BY <1>4, <2>1, <2>2, <2>3, <2>4, <2>5, <2>6 DEF Work
<1>5. ASSUME NEW w \in Workers, Crash(w) PROVE Ownership'
  BY <1>5 DEF Crash, Leave, rows
<1>6. ASSUME NEW w \in Workers, NEW j \in JobIds, Receive(w, j) PROVE Ownership'
  BY <1>6 DEF Receive, rows
<1>7. CASE UNCHANGED vars
  BY <1>7 DEF vars
<1>8. QED
  BY <1>1, <1>2, <1>3, <1>4, <1>5, <1>6, <1>7 DEF Next

\* At most one worker is past the claim of a job, in every behaviour.
THEOREM ClaimsAreExclusive == Spec => []Ownership
<1>1. Init => Ownership
  BY DEF Init, Ownership, Past
<1>2. TypeOK /\ Ownership /\ [Next]_vars => Ownership'
  BY OwnershipStep
<1>3. QED
  BY <1>1, <1>2, JobsTypeCorrect, PTL DEF Spec

\* While a handler is at work its job is RUNNING and nobody else is past the
\* claim with it, lost commits or not.
THEOREM HandlersOwnTheirJobs == Spec => []HandlerOwnsJob
<1>1. ASSUME TypeOK, Ownership, NEW w \in Workers, pc[w] = "HANDLING"
      PROVE  /\ status[at[w]] = "RUNNING"
             /\ \A v \in Workers \ {w} : at[v] = at[w] => pc[v] = "CLAIMING"
  <2>1. status[at[w]] = "RUNNING"
    BY <1>1 DEF Ownership
  <2>2. ASSUME NEW v \in Workers \ {w}, at[v] = at[w]
        PROVE  pc[v] = "CLAIMING"
    <3>1. pc[v] \notin Past
      BY <1>1, <2>2 DEF Ownership, Past
    <3>2. pc[v] # "IDLE"
      BY <1>1, <2>2, JobSentinels DEF TypeOK, Ownership
    <3>3. QED
      BY <1>1, <3>1, <3>2 DEF TypeOK, Past
  <2>3. QED
    BY <2>1, <2>2
<1>2. TypeOK /\ Ownership => HandlerOwnsJob
  BY <1>1 DEF HandlerOwnsJob
<1>3. QED
  BY <1>2, JobsTypeCorrect, ClaimsAreExclusive, PTL DEF Spec

-----------------------------------------------------------------------------
\* A source without a row has no jobs, and the jobs of a source that are
\* active are one.
SourceInv == Unregistered /\ OneActivePerSource

\* Only an upload or a submission without active jobs adds a job to a source.
LEMMA SourceStep ==
    ASSUME TypeOK, SourceInv, Ownership, [Next]_vars
    PROVE  SourceInv'
<1> USE SourceShape, JobSentinels
    DEF TypeOK, SourceInv, Unregistered, OneActivePerSource, Ingests, Statuses
<1>1. ASSUME NEW j \in JobIds, User(j) PROVE SourceInv'
  <2>1. CASE Upload(j)
    BY <2>1 DEF Upload, Queue
  <2>2. CASE Resubmit(j)
    BY <2>2 DEF Resubmit, Queue, ActiveOn
  <2>3. CASE Request(j)
    BY <2>3 DEF Request, Queue
  <2>4. CASE Cancel(j)
    BY <2>4 DEF Cancel
  <2>5. QED
    BY <1>1, <2>1, <2>2, <2>3, <2>4 DEF User
<1>2. ASSUME NEW j \in JobIds, Beat(j) PROVE SourceInv'
  BY <1>2 DEF Beat, Dispatch, DispatchAges, StartAges, Reap
<1>3. ASSUME NEW j \in JobIds, LoseMessage(j) PROVE SourceInv'
  BY <1>3 DEF LoseMessage, rows
<1>4. ASSUME NEW w \in Workers, Work(w) PROVE SourceInv'
  <2>1. CASE Claim(w)
    BY <2>1 DEF Claim, Go, Leave
  <2>2. CASE Begin(w)
    BY <2>2 DEF Begin, rows
  <2>3. CASE Complete(w)
    BY <2>3, <1>4 DEF Complete, Committed, Ownership, Past
  <2>4. CASE CompleteUnacknowledged(w)
    BY <2>4 DEF CompleteUnacknowledged, Committed, Ownership, Past
  <2>5. CASE HandlerFails(w)
    BY <2>5 DEF HandlerFails, rows
  <2>6. CASE RecordFailure(w)
    BY <2>6 DEF RecordFailure, Ownership, Past
  <2>7. QED
    BY <1>4, <2>1, <2>2, <2>3, <2>4, <2>5, <2>6 DEF Work
<1>5. ASSUME NEW w \in Workers, Crash(w) PROVE SourceInv'
  BY <1>5 DEF Crash, rows
<1>6. ASSUME NEW w \in Workers, NEW j \in JobIds, Receive(w, j) PROVE SourceInv'
  BY <1>6 DEF Receive, rows
<1>7. CASE UNCHANGED vars
  BY <1>7 DEF vars
<1>8. QED
  BY <1>1, <1>2, <1>3, <1>4, <1>5, <1>6, <1>7 DEF Next

\* However submissions, late failures and the reaper interleave, one source is
\* never read by two active jobs.
THEOREM SourcesHaveOneActiveJob == Spec => []OneActivePerSource
<1>1. Init => SourceInv
  BY DEF Init, SourceInv, Unregistered, OneActivePerSource
<1>2. TypeOK /\ SourceInv /\ Ownership /\ [Next]_vars => SourceInv'
  BY SourceStep
<1>3. SourceInv => OneActivePerSource
  BY DEF SourceInv
<1>4. QED
  BY <1>1, <1>2, <1>3, JobsTypeCorrect, ClaimsAreExclusive, PTL DEF Spec

-----------------------------------------------------------------------------
(* With acknowledged commits the table implements the documented lifecycle. *)

\* The handler's last write is COMPLETED and ends its claim.
LEMMA AcknowledgedStep ==
    ASSUME ~LostCommits, TypeOK, Ownership, Acknowledged, [Next]_vars
    PROVE  Acknowledged'
<1> USE JobSentinels DEF TypeOK, Ownership, Acknowledged, Past, Statuses
<1>1. ASSUME NEW j \in JobIds, User(j) PROVE Acknowledged'
  BY <1>1 DEF User, Upload, Resubmit, Request, Cancel, Queue
<1>2. ASSUME NEW j \in JobIds, Beat(j) PROVE Acknowledged'
  BY <1>2 DEF Beat, Dispatch, DispatchAges, StartAges, Reap
<1>3. ASSUME NEW j \in JobIds, LoseMessage(j) PROVE Acknowledged'
  BY <1>3 DEF LoseMessage, rows
<1>4. ASSUME NEW w \in Workers, Work(w) PROVE Acknowledged'
  <2>1. CASE Claim(w)
    BY <2>1 DEF Claim, Go, Leave
  <2>2. CASE Begin(w)
    BY <2>2 DEF Begin, Go, Leave, rows
  <2>3. CASE Complete(w)
    BY <2>3 DEF Complete, Committed, Leave
  <2>4. CASE CompleteUnacknowledged(w)
    BY <2>4 DEF CompleteUnacknowledged
  <2>5. CASE HandlerFails(w)
    BY <2>5 DEF HandlerFails, Go, rows
  <2>6. CASE RecordFailure(w)
    BY <2>6 DEF RecordFailure, Leave
  <2>7. QED
    BY <1>4, <2>1, <2>2, <2>3, <2>4, <2>5, <2>6 DEF Work
<1>5. ASSUME NEW w \in Workers, Crash(w) PROVE Acknowledged'
  BY <1>5 DEF Crash, Leave, rows
<1>6. ASSUME NEW w \in Workers, NEW j \in JobIds, Receive(w, j) PROVE Acknowledged'
  BY <1>6 DEF Receive, rows
<1>7. CASE UNCHANGED vars
  BY <1>7 DEF vars
<1>8. QED
  BY <1>1, <1>2, <1>3, <1>4, <1>5, <1>6, <1>7 DEF Next

\* Every step of the system is a documented transition of one job or leaves
\* what the table shows alone.
LEMMA LifecycleStep ==
    ASSUME ~LostCommits, TypeOK, Ownership, Acknowledged, [Next]_vars
    PROVE  [Abstract!Progress]_(Abstract!lifecycle)
<1> DEFINE Goal == [Abstract!Progress]_(Abstract!lifecycle)
<1> USE DEF Abstract!lifecycle
<1>1. ASSUME NEW j \in JobIds, User(j) PROVE Goal
  <2>1. CASE Cancel(j)
    BY <2>1 DEF Cancel, Abstract!Progress, Abstract!Withdrawn, Abstract!Become
  <2>2. CASE Upload(j) \/ Resubmit(j) \/ Request(j)
    BY <2>2 DEF Upload, Resubmit, Request, Queue,
                Abstract!Progress, Abstract!Enqueued, Abstract!Become
  <2>3. QED
    BY <1>1, <2>1, <2>2 DEF User
<1>2. ASSUME NEW j \in JobIds, Beat(j) PROVE Goal
  <2>1. CASE Reap(j)
    BY <2>1 DEF Reap, Abstract!Progress, Abstract!Failed, Abstract!Become
  <2>2. CASE Dispatch(j) \/ DispatchAges(j) \/ StartAges(j)
    BY <2>2 DEF Dispatch, DispatchAges, StartAges
  <2>3. QED
    BY <1>2, <2>1, <2>2 DEF Beat
<1>3. ASSUME NEW j \in JobIds, LoseMessage(j) PROVE Goal
  BY <1>3 DEF LoseMessage, rows
<1>4. ASSUME NEW w \in Workers, Work(w) PROVE Goal
  <2> DEFINE j == at[w]
  <2>1. CASE Claim(w)
    <3>1. j \in JobIds
      BY <2>1 DEF Claim, TypeOK
    <3>2. QED
      BY <2>1, <3>1 DEF Claim, Abstract!Progress, Abstract!Started, Abstract!Become
  <2>2. CASE Begin(w) \/ HandlerFails(w)
    BY <2>2 DEF Begin, HandlerFails, rows
  <2>3. CASE Complete(w)
    <3>1. j \in JobIds /\ status[j] = "RUNNING"
      BY <2>3 DEF Complete, TypeOK, Ownership
    <3>2. QED
      BY <2>3, <3>1 DEF Complete, Committed,
                        Abstract!Progress, Abstract!Completed, Abstract!Become
  <2>4. CASE CompleteUnacknowledged(w)
    BY <2>4 DEF CompleteUnacknowledged
  <2>5. CASE RecordFailure(w)
    <3>1. j \in JobIds /\ status[j] \in {"RUNNING", "FAILED"}
      BY <2>5 DEF RecordFailure, TypeOK, Acknowledged, Past
    <3>2. CASE status[j] = "RUNNING"
      BY <2>5, <3>1, <3>2 DEF RecordFailure,
                              Abstract!Progress, Abstract!Failed, Abstract!Become
    <3>3. CASE status[j] = "FAILED"
      <4>1. status' = status
        BY <2>5, <3>1, <3>3 DEF RecordFailure, TypeOK
      <4>2. QED
        BY <2>5, <4>1 DEF RecordFailure
    <3>4. QED
      BY <3>1, <3>2, <3>3
  <2>6. QED
    BY <1>4, <2>1, <2>2, <2>3, <2>4, <2>5 DEF Work
<1>5. ASSUME NEW w \in Workers, Crash(w) PROVE Goal
  BY <1>5 DEF Crash, rows
<1>6. ASSUME NEW w \in Workers, NEW j \in JobIds, Receive(w, j) PROVE Goal
  BY <1>6 DEF Receive, rows
<1>7. CASE UNCHANGED vars
  BY <1>7 DEF vars
<1>8. QED
  BY <1>1, <1>2, <1>3, <1>4, <1>5, <1>6, <1>7 DEF Next

\* Crashes, lost, duplicated and late deliveries, the reaper and the late
\* failure record show nothing but the documented lifecycle.
THEOREM WorkersImplementLifecycle ==
    ASSUME ~LostCommits
    PROVE  Spec => ImplementsLifecycle
<1>1. Init => Abstract!Begun
  BY DEF Init, Abstract!Begun
<1>2. Init => Acknowledged
  BY DEF Init, Acknowledged, Past
<1>3. TypeOK /\ Ownership /\ Acknowledged /\ [Next]_vars => Acknowledged'
  BY AcknowledgedStep
<1>4. TypeOK /\ Ownership /\ Acknowledged /\ [Next]_vars
      => [Abstract!Progress]_(Abstract!lifecycle)
  BY LifecycleStep
<1>5. QED
  BY <1>1, <1>2, <1>3, <1>4, JobsTypeCorrect, ClaimsAreExclusive, PTL
     DEF Spec, ImplementsLifecycle, Abstract!Lifecycle
=============================================================================
