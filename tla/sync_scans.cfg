SPECIFICATION Spec
CONSTANTS
    u1 = u1  u2 = u2  n1 = n1  n2 = n2
    a1 = a1  a2 = a2  c1 = c1  c2 = c2
    Null = Null
    User = {u1}
    Name = {n1, n2}
    Admin = {a1}
    Scanner = {c1, c2}
    Operation <- AllRequests
    Resolution <- Destructive
    MaxRequests = 1
    MaxFaults = 1
    MaxEdits = 1
    MaxReports = 2
SYMMETRY Symmetry
CHECK_DEADLOCK FALSE
INVARIANTS OneReportPerScanner
PROPERTY QuietScanIsExact
