\* Two parcels side by side: what acceptance on one means for the other.
CONSTANTS
    p1 = p1  p2 = p2  n1 = n1  n2 = n2
    b1 = b1  f1 = f1  u1 = u1  u2 = u2  u3 = u3
    j1 = j1  j2 = j2  r1 = r1  r2 = r2
    adm = adm  off = off
    NoObject = NoObject  NoVolume = NoVolume  NoJob = NoJob  NoReview = NoReview
    Objects <- NeighbourObjects
    KindOf <- NeighbourKind
    ParentOf <- NeighbourParent
    RootOf <- NeighbourRoot
    Survey <- NeighbourSurvey
    Volumes <- NeighbourVolumes
    Edited <- NeighbourEdited
    Documented <- NeighbourEdited
    Asserted = {n1}
    JobIds = {j1, j2}
    ReviewIds = {r1, r2}
    Submitters = {adm}
    Deciders = {off}
    MaxExtent = 1
    MaxVersion = 2
    MaxFacts = 2
SYMMETRY JobSymmetry
SPECIFICATION Spec
INVARIANTS
    AcceptedDisjoint
    FreshMeansValid
    
PROPERTIES
    AcceptedKnowingAssertions
    StaleForever
CHECK_DEADLOCK FALSE
