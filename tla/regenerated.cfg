\* Three exports in sequence by one worker, the second at another placement.
SPECIFICATION Spec
CONSTANTS
    p = p
    b = b
    f = f
    u1 = u1
    u2 = u2
    u3 = u3
    j1 = j1
    j2 = j2
    j3 = j3
    Spaces = {p, b, f, u1, u2, u3}
    Drawn = {p, b, f, u1}
    Parcel = p
    Building = b
    Floors = {f}
    Edited = {}
    Coded = {}
    JobIds = {j1, j2, j3}
    PlacementOf <- PlacementAlternates
    NoOffset = NoOffset
    Running = 1
    Alterable = {}
    MaxVersion = 2
    NoJob = NoJob
    NoPlan = NoPlan
    NoBundle = NoBundle
    NoFile = NoFile
INVARIANTS RegeneratedIsOffered
CHECK_DEADLOCK FALSE
