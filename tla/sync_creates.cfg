SPECIFICATION Spec
CONSTANTS
    u1 = u1  u2 = u2  n1 = n1  n2 = n2
    a1 = a1  a2 = a2  c1 = c1  c2 = c2
    Null = Null
    User = {u1}
    Name = {n1, n2}
    Admin = {a1, a2}
    Scanner = {c1}
    Operation <- Creates
    Resolution <- Safe
    MaxRequests = 3
    MaxFaults = 0
    MaxEdits = 0
    MaxReports = 3
SYMMETRY Symmetry
CHECK_DEADLOCK FALSE
INVARIANTS TypeOK CreatesAgree
