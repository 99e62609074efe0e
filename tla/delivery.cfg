\* Duplicated, lost and late deliveries, lost acknowledgements, crashes and the
\* reaper.
CONSTANTS
    j1 = j1  j2 = j2  j3 = j3  d1 = d1  w1 = w1  w2 = w2
    NoJob = NoJob  NoDataset = NoDataset
    JobIds = {j1, j2, j3}
    SourceOf <- MixedSource
    Datasets = {d1}
    Workers = {w1, w2}
    LostCommits = TRUE
    MaxCopies = 1
    MaxFaults = 1
SYMMETRY WorkerSymmetry
SPECIFICATION Spec
INVARIANTS
    TypeOK
    HandlerOwnsJob
    OneActivePerSource
CHECK_DEADLOCK FALSE
