\* The page of a unit is read while the record moves on.
CONSTANTS
    p1 = p1  b1 = b1  f1 = f1  u1 = u1
    j1 = j1  j2 = j2  r1 = r1  r2 = r2
    adm = adm  off = off
    NoObject = NoObject  NoVolume = NoVolume  NoJob = NoJob  NoReview = NoReview
    Objects <- StoreyObjects
    KindOf <- StoreyKind
    ParentOf <- StoreyParent
    RootOf <- StoreyRoot
    Survey <- StoreySurvey
    Volumes <- StoreyVolumes
    Edited = {f1, u1}
    Documented = {u1}
    Asserted = {u1}
    Opened = {u1}
    JobIds = {j1}
    ReviewIds = {r1}
    Submitters = {adm}
    Deciders = {off}
    MaxExtent = 1
    MaxVersion = 2
    MaxFacts = 1
SPECIFICATION CaseSpec
INVARIANTS
    CaseTypeOK
    FreshMeansValid
    
    FreshShownWasFresh
    StateShownHasItsCase
CHECK_DEADLOCK FALSE
