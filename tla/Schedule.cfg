CONSTANTS
  c1 = c1  c2 = c2
  i1 = i1  i2 = i2
  s1 = s1  s2 = s2
  Classes = {c1, c2}
  Instructors = {i1, i2}
  Sessions = {s1, s2}
  Slots <- MCSlots
  LiveStatuses = {"scheduled", "completed"}
  MaxSeries = 2
  Requests = {"r1", "r2", "r3"}
  Limit = 1
  Window = 2
  LastTime = 3
  MaxLength = 1
  MaxDraftFaults = 1
  Workers = {"w"}
  Endpoints = {"e"}
  Assignments = {1}
  Interval = 2
  LastDay = 4
  MaxByHand = 1
  MaxFaults = 1
SPECIFICATION Suite
SYMMETRY MCSymmetry
INVARIANTS OverlapOnlyAstray PendingClear NoDeadlock
  InsuranceAddsUp QuotaIsKept RemindedApart
PROPERTY CancelledStaysPut
