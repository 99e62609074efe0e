\* One floor: units validated, reviewed, replaced, split and merged.
CONSTANTS
    p1 = p1  p2 = p2  n1 = n1  n2 = n2
    b1 = b1  f1 = f1  u1 = u1  u2 = u2  u3 = u3
    j1 = j1  j2 = j2  r1 = r1  r2 = r2
    adm = adm  off = off
    NoObject = NoObject  NoVolume = NoVolume  NoJob = NoJob  NoReview = NoReview
    Objects <- FloorObjects
    KindOf <- FloorKind
    ParentOf <- FloorParent
    RootOf <- FloorRoot
    Survey <- FloorSurvey
    Volumes <- FloorVolumes
    Edited = {u1, u2, u3}
    Documented = {u1}
    Asserted = {}
    JobIds = {j1}
    ReviewIds = {r1}
    Submitters = {adm}
    Deciders = {off}
    MaxExtent = 1
    MaxVersion = 2
    MaxFacts = 0
SYMMETRY UnitSymmetry
SPECIFICATION Spec
INVARIANTS
    TypeOK
    ConsumedOnce
    FreshMeansValid
PROPERTIES
    SupersededIsFinal
CHECK_DEADLOCK FALSE
