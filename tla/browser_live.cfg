SPECIFICATION BrowserLiveSpec
CONSTANTS
  r1 = r1
  r2 = r2
  NoRow = NoRow
  Rows <- MCRows
  Slices <- MCLiveSlices
  MaxRequests = 2
  MaxNavs = 1
  MaxOthers = 1
  a1 = a1
  a2 = a2
  NoAdmin = NoAdmin
  Admins <- MCAdmins
  MaxCalls = 2
  MaxAttempts = 1
  MaxPairs = 2
  MaxFaults = 0
  p1 = p1
  p2 = p2
  Nobody = Nobody
  People <- MCPeople
  MaxTokens = 2
  MaxJobs = 3
  Flows <- LiveFlows
PROPERTIES CallsSettle PolledCatchUp RequestsSettle
CHECK_DEADLOCK FALSE
