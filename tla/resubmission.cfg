\* A late failure record, a resubmission and a second import.
CONSTANTS
    j1 = j1  j2 = j2  j3 = j3  d1 = d1  w1 = w1  w2 = w2
    NoJob = NoJob  NoDataset = NoDataset
    JobIds = {j1, j2, j3}
    SourceOf <- TripleSource
    Datasets = {d1}
    Workers = {w1, w2}
    LostCommits = FALSE
    MaxCopies = 1
    MaxFaults = 0
SPECIFICATION Spec
INVARIANTS
    IngestedOnce
CHECK_DEADLOCK FALSE
