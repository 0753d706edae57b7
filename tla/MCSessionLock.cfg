SPECIFICATION Spec
CHECK_DEADLOCK FALSE
CONSTANTS
    u1 = u1
    u2 = u2
    u3 = u3
    p1 = p1
    p2 = p2
    Users = {u1, u2, u3}
    Processes = {p1, p2}
    ProcessOf <- MCProcessOf
    Tickets = {t1, t2, t3}
    None = None
SYMMETRY MCSymmetry
INVARIANTS FileProtects OneProcessInside NoFalseSuspicion
PROPERTY OnlyOwnReleaseEnds
