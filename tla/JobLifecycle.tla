---------------------------- MODULE JobLifecycle ----------------------------
(***************************************************************************)
(* What the job table promises its readers (docs/ARCHITECTURE.md, "Job and *)
(* review correctness"): a job is queued, started once, and ends once;     *)
(* output is committed together with COMPLETED; failed and cancelled jobs  *)
(* leave none.  Delivery, workers, crashes and time are not visible here.  *)
(***************************************************************************)
CONSTANT JobIds

VARIABLES
    status,   \* status column of each job row, NONE before the row exists
    output    \* jobs whose output is in the database

lifecycle == <<status, output>>

Statuses == {"NONE", "QUEUED", "RUNNING", "COMPLETED", "FAILED", "CANCELLED"}
Terminal == {"COMPLETED", "FAILED", "CANCELLED"}

Begun == /\ status = [j \in JobIds |-> "NONE"]
         /\ output = {}

Become(j, from, to) == /\ status[j] = from
                       /\ status' = [status EXCEPT ![j] = to]

Enqueued(j)  == Become(j, "NONE", "QUEUED") /\ UNCHANGED output
Started(j)   == Become(j, "QUEUED", "RUNNING") /\ UNCHANGED output
Withdrawn(j) == Become(j, "QUEUED", "CANCELLED") /\ UNCHANGED output
Completed(j) == Become(j, "RUNNING", "COMPLETED") /\ output' = output \cup {j}
Failed(j)    == Become(j, "RUNNING", "FAILED") /\ UNCHANGED output

Progress == \E j \in JobIds : \/ Enqueued(j) \/ Started(j) \/ Withdrawn(j)
                              \/ Completed(j) \/ Failed(j)

Lifecycle == Begun /\ [][Progress]_lifecycle
=============================================================================
