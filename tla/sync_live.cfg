SPECIFICATION FairSpec
CONSTANTS
    u1 = u1  u2 = u2  n1 = n1  n2 = n2
    a1 = a1  a2 = a2  c1 = c1  c2 = c2
    Null = Null
    User = {u1}
    Name = {n1}
    Admin = {a1}
    Scanner = {c1}
    Operation <- AllRequests
    Resolution <- Safe
    MaxRequests = 2
    MaxFaults = 1
    MaxEdits = 1
    MaxReports = 9


INVARIANT PresenceAgrees
PROPERTIES DifferencesReported SettledReportsClosed
