\* The worker and its failures implement the documented job lifecycle.
CONSTANTS
    j1 = j1  j2 = j2  j3 = j3  d1 = d1  w1 = w1  w2 = w2
    NoJob = NoJob  NoDataset = NoDataset
    JobIds = {j1, j2}
    SourceOf <- PairSource
    Datasets = {d1}
    Workers = {w1, w2}
    LostCommits = FALSE
    MaxCopies = 2
    MaxFaults = 2
SPECIFICATION FairSpec
PROPERTIES
    ImplementsLifecycle
    EveryJobSettles
CHECK_DEADLOCK FALSE
