--------------------------- MODULE ProcessingJobs ---------------------------
(***************************************************************************)
(* Background jobs: rows of processing_jobs, the dispatcher that polls     *)
(* them every five seconds, the Redis broker between it and the Celery     *)
(* workers, the worker's three transactions (claim, handle, record the     *)
(* failure) and the reaper (backend/app/worker.py), with the endpoints     *)
(* that queue and cancel jobs and the status of the uploaded source an     *)
(* ingestion job reads.                                                    *)
(*                                                                         *)
(* Each transaction is atomic; a worker may stop or stall between two of   *)
(* them, and inside the second it holds the row lock of its job.           *)
(***************************************************************************)
EXTENDS Naturals, FiniteSets

CONSTANTS
    JobIds,       \* ids of job rows
    Workers,      \* worker processes
    Datasets,     \* uploaded parcel sources
    SourceOf,     \* the source an ingestion job reads, NoDataset for other kinds
    LostCommits,  \* may a commit succeed while its worker sees an error?
    MaxCopies,    \* bound of the model: messages in the broker per job
    MaxFaults,    \* bound of the model: crashes, lost messages, torn dispatches
    NoJob, NoDataset

ASSUME SourceShape == SourceOf \in [JobIds -> Datasets \cup {NoDataset}]

ASSUME JobSentinels ==
    /\ NoJob \notin JobIds /\ NoDataset \notin Datasets
    /\ LostCommits \in BOOLEAN
    /\ MaxCopies \in Nat /\ MaxFaults \in Nat

-----------------------------------------------------------------------------
VARIABLES
    status,      \* status column of each job, NONE before the row exists
    output,      \* jobs whose output is committed
    dispatched,  \* dispatched_at: NEVER, or RECENT, or more than 60 seconds ago
    started,     \* started_at: RECENT, or more than ten minutes ago
    source,      \* status column of each source, NONE before its upload
    broker,      \* messages waiting in Redis, per job
    pc, at,      \* where each worker is, and with which job
    faults       \* faults so far

rows == <<status, output, dispatched, started, source>>
vars == <<status, output, dispatched, started, source, broker, pc, at, faults>>

Statuses == {"NONE", "QUEUED", "RUNNING", "COMPLETED", "FAILED", "CANCELLED"}
Terminal == {"COMPLETED", "FAILED", "CANCELLED"}

TypeOK ==
    /\ status \in [JobIds -> Statuses]
    /\ output \subseteq JobIds
    /\ dispatched \in [JobIds -> {"NEVER", "RECENT", "OVERDUE"}]
    /\ started \in [JobIds -> {"RECENT", "OVERDUE"}]
    /\ source \in [Datasets -> {"NONE", "UPLOADED", "READY", "REJECTED"}]
    /\ broker \in [JobIds -> Nat]
    /\ pc \in [Workers -> {"IDLE", "CLAIMING", "CLAIMED", "HANDLING", "FAILING"}]
    /\ at \in [Workers -> JobIds \cup {NoJob}]
    /\ \A w \in Workers : pc[w] # "IDLE" => at[w] \in JobIds
    /\ faults \in Nat

Init ==
    /\ status = [j \in JobIds |-> "NONE"]
    /\ output = {}
    /\ dispatched = [j \in JobIds |-> "NEVER"]
    /\ started = [j \in JobIds |-> "RECENT"]
    /\ source = [d \in Datasets |-> "NONE"]
    /\ broker = [j \in JobIds |-> 0]
    /\ pc = [w \in Workers |-> "IDLE"]
    /\ at = [w \in Workers |-> NoJob]
    /\ faults = 0

-----------------------------------------------------------------------------
(* The endpoints.                                                          *)

Ingests(j) == SourceOf[j] # NoDataset

\* Slip: a status the column's CHECK does not know.
QueuePending(j) == status[j] = "NONE" /\ status' = [status EXCEPT ![j] = "PENDING"]

Queue(j) == status[j] = "NONE" /\ status' = [status EXCEPT ![j] = "QUEUED"]

\* Slip: an active job is one that has not been claimed.
WaitingOn(d) == {j \in JobIds : SourceOf[j] = d /\ status[j] = "QUEUED"}

ActiveOn(d) == {j \in JobIds : SourceOf[j] = d /\ status[j] \in {"QUEUED", "RUNNING"}}

\* The upload registers the source and queues its ingestion.
Upload(j) ==
    /\ Ingests(j) /\ source[SourceOf[j]] = "NONE"
    /\ Queue(j)
    /\ source' = [source EXCEPT ![SourceOf[j]] = "UPLOADED"]
    /\ UNCHANGED <<output, dispatched, started, broker, pc, at, faults>>

\* A source that is not READY and has no active job may be submitted again.
Resubmit(j) ==
    /\ Ingests(j) /\ source[SourceOf[j]] \notin {"NONE", "READY"}
    /\ ActiveOn(SourceOf[j]) = {}
    /\ Queue(j)
    /\ source' = [source EXCEPT ![SourceOf[j]] = "UPLOADED"]
    /\ UNCHANGED <<output, dispatched, started, broker, pc, at, faults>>

\* Validation, assistance and export jobs.
Request(j) ==
    /\ ~Ingests(j)
    /\ Queue(j)
    /\ UNCHANGED <<output, dispatched, started, source, broker, pc, at, faults>>

Cancel(j) ==
    /\ status[j] = "QUEUED"
    /\ status' = [status EXCEPT ![j] = "CANCELLED"]
    /\ UNCHANGED <<output, dispatched, started, source, broker, pc, at, faults>>

-----------------------------------------------------------------------------
(* Beat: the dispatcher and the reaper.                                    *)

\* Slip: a row is dispatched once.
NeverSent(j) == status[j] = "QUEUED" /\ dispatched[j] = "NEVER"

Due(j) == status[j] = "QUEUED" /\ dispatched[j] # "RECENT"

\* The message leaves before the transaction commits: when a later send of the
\* same batch fails, or the commit does, it is out and the row does not know.
Dispatch(j) ==
    /\ Due(j)
    /\ broker[j] < MaxCopies
    /\ broker' = [broker EXCEPT ![j] = @ + 1]
    /\ \/ /\ dispatched' = [dispatched EXCEPT ![j] = "RECENT"]
          /\ UNCHANGED faults
       \/ /\ faults < MaxFaults
          /\ faults' = faults + 1
          /\ UNCHANGED dispatched
    /\ UNCHANGED <<status, output, started, source, pc, at>>

DispatchAges(j) ==
    /\ status[j] = "QUEUED" /\ dispatched[j] = "RECENT"
    /\ dispatched' = [dispatched EXCEPT ![j] = "OVERDUE"]
    /\ UNCHANGED <<status, output, started, source, broker, pc, at, faults>>

StartAges(j) ==
    /\ status[j] = "RUNNING" /\ started[j] = "RECENT"
    /\ started' = [started EXCEPT ![j] = "OVERDUE"]
    /\ UNCHANGED <<status, output, dispatched, source, broker, pc, at, faults>>

\* Slip: the reaper does not skip locked rows.
NeverLocked(j) == FALSE

\* SELECT ... FOR UPDATE in the handler's transaction.
Locked(j) == \E w \in Workers : pc[w] = "HANDLING" /\ at[w] = j

\* The source of a reaped ingestion keeps its status.
Reap(j) ==
    /\ status[j] = "RUNNING" /\ started[j] = "OVERDUE"
    /\ ~Locked(j)
    /\ status' = [status EXCEPT ![j] = "FAILED"]
    /\ UNCHANGED <<output, dispatched, started, source, broker, pc, at, faults>>

-----------------------------------------------------------------------------
(* The workers.                                                            *)

Leave(w) == /\ pc' = [pc EXCEPT ![w] = "IDLE"]
            /\ at' = [at EXCEPT ![w] = NoJob]

Go(w, to) == pc' = [pc EXCEPT ![w] = to] /\ UNCHANGED at

\* The message is acknowledged when it is received.
Receive(w, j) ==
    /\ pc[w] = "IDLE" /\ broker[j] > 0
    /\ broker' = [broker EXCEPT ![j] = @ - 1]
    /\ pc' = [pc EXCEPT ![w] = "CLAIMING"]
    /\ at' = [at EXCEPT ![w] = j]
    /\ UNCHANGED <<rows, faults>>

\* UPDATE ... SET status = 'RUNNING' WHERE status = 'QUEUED'; an update of a
\* locked row waits.
Claim(w) ==
    LET j == at[w]
    IN /\ pc[w] = "CLAIMING" /\ ~Locked(j)
       /\ IF status[j] = "QUEUED"
          THEN /\ status' = [status EXCEPT ![j] = "RUNNING"]
               /\ started' = [started EXCEPT ![j] = "RECENT"]
               /\ Go(w, "CLAIMED")
          ELSE Leave(w) /\ UNCHANGED <<status, started>>
       /\ UNCHANGED <<output, dispatched, source, broker, faults>>

\* Slip: the claim is trusted, the status is not read again under the lock.
TrustClaim(j) == TRUE

StillRunning(j) == status[j] = "RUNNING"

Begin(w) ==
    /\ pc[w] = "CLAIMED" /\ ~Locked(at[w])
    /\ IF StillRunning(at[w]) THEN Go(w, "HANDLING") ELSE Leave(w)
    /\ UNCHANGED <<rows, broker, faults>>

\* What the handler's transaction commits: output, COMPLETED and, for an
\* ingestion, the READY source.
Committed(j) ==
    /\ status' = [status EXCEPT ![j] = "COMPLETED"]
    /\ output' = output \cup {j}
    /\ source' = IF Ingests(j) THEN [source EXCEPT ![SourceOf[j]] = "READY"]
                               ELSE source

Complete(w) ==
    /\ pc[w] = "HANDLING"
    /\ Committed(at[w])
    /\ Leave(w)
    /\ UNCHANGED <<dispatched, started, broker, faults>>

\* The connection breaks after the server has committed: an error like any
\* other for the worker.
CompleteUnacknowledged(w) ==
    /\ LostCommits
    /\ pc[w] = "HANDLING"
    /\ Committed(at[w])
    /\ Go(w, "FAILING")
    /\ UNCHANGED <<dispatched, started, broker, faults>>

\* An exception in the handler, or in opening its transaction: rolled back.
HandlerFails(w) ==
    /\ pc[w] \in {"CLAIMED", "HANDLING"}
    /\ Go(w, "FAILING")
    /\ UNCHANGED <<rows, broker, faults>>

\* The failure is written whatever the row says by now.
RecordFailure(w) ==
    LET j == at[w]
    IN /\ pc[w] = "FAILING" /\ ~Locked(j)
       /\ status' = [status EXCEPT ![j] = "FAILED"]
       /\ source' = IF Ingests(j) THEN [source EXCEPT ![SourceOf[j]] = "REJECTED"]
                                  ELSE source
       /\ Leave(w)
       /\ UNCHANGED <<output, dispatched, started, broker, faults>>

-----------------------------------------------------------------------------
Fault == faults < MaxFaults /\ faults' = faults + 1

\* The process dies; an open transaction is rolled back.
Crash(w) ==
    /\ pc[w] # "IDLE"
    /\ Fault
    /\ Leave(w)
    /\ UNCHANGED <<rows, broker>>

LoseMessage(j) ==
    /\ broker[j] > 0
    /\ Fault
    /\ broker' = [broker EXCEPT ![j] = @ - 1]
    /\ UNCHANGED <<rows, pc, at>>

User(j) == Upload(j) \/ Resubmit(j) \/ Request(j) \/ Cancel(j)
Beat(j) == Dispatch(j) \/ DispatchAges(j) \/ StartAges(j) \/ Reap(j)
Work(w) == \/ Claim(w) \/ Begin(w) \/ Complete(w) \/ CompleteUnacknowledged(w)
           \/ HandlerFails(w) \/ RecordFailure(w)

Next ==
    \/ \E j \in JobIds : User(j) \/ Beat(j) \/ LoseMessage(j)
    \/ \E w \in Workers : Work(w) \/ Crash(w) \/ \E j \in JobIds : Receive(w, j)

Spec == Init /\ [][Next]_vars

\* Beat fires every five seconds, time passes, and a running worker receives
\* messages and ends what it has begun.  Users and faults are not fair.
Fairness ==
    /\ \A j \in JobIds : /\ WF_vars(Dispatch(j))
                         /\ WF_vars(DispatchAges(j))
                         /\ WF_vars(StartAges(j))
                         /\ WF_vars(Reap(j))
    /\ \A w \in Workers : /\ WF_vars(Work(w))
                          /\ WF_vars(\E j \in JobIds : Receive(w, j))

FairSpec == Spec /\ Fairness

-----------------------------------------------------------------------------
\* Whatever is lost, duplicated or interrupted, what the table and the output
\* show is the documented lifecycle - as long as every commit that happens is
\* acknowledged to the worker (LostCommits = FALSE).
Abstract == INSTANCE JobLifecycle
            WITH JobIds <- JobIds, status <- status, output <- output
ImplementsLifecycle == Abstract!Lifecycle

\* While a handler is at work its job is RUNNING and nobody else is past the
\* claim with it: neither the reaper nor a duplicate delivery gets in between.
HandlerOwnsJob ==
    \A w \in Workers : pc[w] = "HANDLING" =>
        /\ status[at[w]] = "RUNNING"
        /\ \A v \in Workers \ {w} :
              at[v] = at[w] => pc[v] = "CLAIMING"

\* Two submissions of one source never run side by side.
OneActivePerSource ==
    \A i, j \in JobIds :
        /\ Ingests(i) /\ SourceOf[i] = SourceOf[j]
        /\ status[i] \in {"QUEUED", "RUNNING"} /\ status[j] \in {"QUEUED", "RUNNING"}
        => i = j

\* Every job that is queued ends: delivered again when its message was lost,
\* reaped when its worker died.
EveryJobSettles ==
    \A j \in JobIds : status[j] = "QUEUED" ~> status[j] \in Terminal

\* "Only unprocessed parcel sources can be submitted" (routers/processing.py):
\* the features of a source are imported once.
IngestedOnce ==
    \A d \in Datasets : Cardinality({j \in output : SourceOf[j] = d}) <= 1
=============================================================================
