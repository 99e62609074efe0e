\* Two administrators at once, and the tool appointing administrators.
CONSTANTS
    ana = ana  bo = bo  cy = cy  q1 = q1  q2 = q2
    Users = {ana, bo, cy}
    Requests = {q1, q2}
    CliRoles = {"admin"}
SYMMETRY MemberSymmetry
SPECIFICATION Spec
INVARIANTS
    TypeOK
    AdministratorRemains
PROPERTIES
    OthersToldExactly
