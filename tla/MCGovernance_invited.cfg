SPECIFICATION Spec
CONSTANTS
    u1 = u1
    u2 = u2
    s1 = s1
    s2 = s2
    Users = {u1, u2}
    Applicant = u1
    Sessions = {s1, s2}
SYMMETRY Symmetry
INVARIANT AdministratorsAreVerified
CHECK_DEADLOCK FALSE
