CONSTANTS
  anna = anna  ben = ben  amy = amy  zoe = zoe
  Instructors = {anna, ben}
  Names = {amy, zoe}
  FirstName <- MCFirstName
  MaxSuffix = 3
  Foreign <- MCForeign
  BatchSize = 2
  MaxAttempts = 2
  MaxEdits = 2
  MaxFaults = 1
  MaxRuns = 1
SPECIFICATION Suite
INVARIANTS ShopShowsProfiles PublicIsServedRight LegacyIsTakenOver ShopifyCallsHold
PROPERTIES EntriesHaveOneOwner
CHECK_DEADLOCK FALSE
