\* Two exports by two workers beside edits, a split, identities, altered
\* files and a page that reads the scene in between.
SPECIFICATION Spec
CONSTANTS
    p = p
    b = b
    f = f
    u1 = u1
    u2 = u2
    u3 = u3
    j1 = j1
    j2 = j2
    j3 = j3
    Spaces = {p, b, f, u1, u2, u3}
    Drawn = {p, b, f, u1}
    Parcel = p
    Building = b
    Floors = {f}
    Edited = {f, u1}
    Coded = {u1}
    JobIds = {j1, j2}
    PlacementOf <- PlacementLeftOut
    NoOffset = NoOffset
    Running = 2
    Alterable = {u1}
    MaxVersion = 2
    NoJob = NoJob
    NoPlan = NoPlan
    NoBundle = NoBundle
    NoFile = NoFile
INVARIANTS TypeOK AssetsIntact OneBundlePerKey MeshIsOfListedGeometry  StreamShowsListed
PROPERTIES AnswersTheRecord
CHECK_DEADLOCK FALSE
