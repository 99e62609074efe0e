\* Two pages save details of one property while its history is read.
CONSTANTS
    a = a  b = b  q1 = q1  q2 = q2
    Pages = {a, b}
    Requests = {q1, q2}
    Limit = 1
    MaxNotes = 3
    MaxFaults = 1
    Nobody = Nobody
SPECIFICATION Spec
SYMMETRY PageSymmetry
INVARIANTS
    TypeOK
    OneSuccessor
    WalkMissesNothing
CHECK_DEADLOCK FALSE
