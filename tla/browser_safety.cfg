SPECIFICATION BrowserSpec
CONSTANTS
  r1 = r1
  r2 = r2
  NoRow = NoRow
  Rows <- MCRows
  Slices <- MCAllSlices
  MaxRequests = 2
  MaxNavs = 1
  MaxOthers = 0
  a1 = a1
  a2 = a2
  NoAdmin = NoAdmin
  Admins <- MCAdmins
  MaxCalls = 2
  MaxAttempts = 2
  MaxPairs = 3
  MaxFaults = 1
  p1 = p1
  p2 = p2
  Nobody = Nobody
  People <- MCPeople
  MaxTokens = 2
  MaxJobs = 3
  Flows <- AllFlows
INVARIANTS BrowserTypeOK OwnWritesShown RefreshTokenSpentOnce SessionOfItsUser ForcedChangeHolds FactorShown
PROPERTY HeldDialogsCloseOnTheirAnswer
CONSTRAINT FewSignIns
CHECK_DEADLOCK FALSE
