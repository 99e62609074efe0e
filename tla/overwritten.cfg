\* The form keeps what it was filled from while the page learns of a newer save.
CONSTANTS
    a = a  b = b  q1 = q1  q2 = q2
    Pages = {a, b}
    Requests = {q1, q2}
    Limit = 1
    MaxNotes = 2
    MaxFaults = 0
    Nobody = Nobody
SPECIFICATION Spec
INVARIANTS
    NothingOverwrittenUnseen
CHECK_DEADLOCK FALSE
