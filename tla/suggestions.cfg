\* Two assistive jobs, decisions, heights and floors in every order, and every
\* short series of elevations.
SPECIFICATION Spec
CONSTANTS
    p = p
    q = q
    c = c
    f = f
    d1 = d1
    d2 = d2
    j1 = j1
    j2 = j2
    Given <- GivenObjects
    Datasets = {d1, d2}
    Synthetic = {d2}
    JobIds = {j1, j2}
    Numbers = {1}
    FloorNumbers = {1, 2}
    Elevations = {0, 1, 2}
    Requests <- AskedFor
    Edited = {c, f}
    MaxDrawn = 2
    MaxHeights = 1
    NoObject = NoObject
    NoDataset = NoDataset
    NoJob = NoJob
    Eps = 1
    MinSamples = 3
    MaxPoints = 5
    MaxValue = 5
INVARIANTS TypeOK DesignationNeverMixed AdoptionIsTraceable 
 
SYMMETRY JobSymmetry
CHECK_DEADLOCK FALSE
