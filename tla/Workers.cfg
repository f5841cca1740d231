CONSTANTS
  class = class
  Classes = {class}
  Calendars = {"cal1", "cal2"}
  NoCalendar = "none"
  ApiSyncers = {}
  Workers = {"worker"}
  FaultKinds = {"google", "reply", "offline", "database", "crash"}
  MaxRequests = 3
  MaxFaults = 2
  MaxAttempts = 2
  Exports = {"x1", "x2"}
  Owners = {"o1", "o2"}
  Passes = {"pass"}
  Copies = 2
  MaxExportFaults = 2
  Rows <- NoRows
  Sizes = {}
  MaxFileSize = 0
  PartSize = 0
  MaxInFlight = 0
  HighWater = 0
SPECIFICATION FairSpec
INVARIANTS LessonsArePublished ZipsMatch
PROPERTIES IsReplica WorkSettles BacklogDrains
CHECK_DEADLOCK FALSE
