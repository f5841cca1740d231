CONSTANTS
  anna = anna  ben = ben  one = one  two = two
  Instructors = {anna, ben}
  Sessions = {one, two}
  Seasons = {"winter"}
  MaxOps = 3
  MaxFaults = 1
  UserSessions = {one, two}
  Processes = {"p"}
  Changers = {"c", "d"}
  TTL = 2
  MaxCached = 1
  LastTime = 3
  MaxChanges = 2
  MaxRoleFaults = 1
  Documents <- MCDocuments
  CurrentSeasons = {0, 1}
  Keys = {one, two}
  HeldLevels = {0, 1}
  ValidUntil = {1}
  ExpiringWithin = 0
  MaxUploads = 2
  LastDay = 2
  ProfileCalls = {"c", "d"}
  Admins = {"a", "b"}
  Saves <- MCSaves
  Bad = 9
  MaxSaves = 2
  MaxAccountFaults = 1
  HookCalls = {"c"}
  Payloads <- MCPayloads
  Absent = ""
  Timeout <- MCTimeout
  Quick = 1
  MaxMailFaults = 1
  Invites = {1}
  Emails = {"a", "b"}
  First = "a"
  Runs = {one, two}
  Resends = {"q"}
  MaxTokens = 2
  MaxMoves = 1
  MaxByHand = 1
  MaxInviteFaults = 1
SPECIFICATION Suite
INVARIANTS
  NobodyMissed AnnouncedOnce
  InvitesReachOnce CompletedIsTrue RosterIsKept StagesAgree AccountsHold HookKeepsItsWord DemotedIsOut
SYMMETRY MCSymmetry
CHECK_DEADLOCK FALSE
