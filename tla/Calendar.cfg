CONSTANTS
  c1 = c1  cal1 = cal1  cal2 = cal2  none = none
  api = api  worker = worker
  Classes = {c1}
  Calendars = {cal1, cal2}
  NoCalendar = none
  ApiSyncers = {api}
  Workers = {worker}
  FaultKinds = {"google", "reply", "retried", "offline", "database", "crash"}
  MaxRequests = 2
  MaxFaults = 2
  MaxAttempts = 2
  Processes = {"app", "worker"}
  GoogleCalls = {"r1", "r2"}
  Admins = {"a"}
  MaxGrants = 2
  MaxCalls = 2
  Files <- MCFiles
  NameMatch <- MCNameMatch
  Instructors = {"i1", "i2"}
  LessonTypes = {"t1"}
  ImportCalls = {"q1", "q2"}
  MaxImportCalls = 4
  MaxImportFaults = 1
SPECIFICATION Suite
INVARIANTS EventsAreTracked ServedWhenConnected ImportedAsReviewed
PROPERTIES OffersHold
CHECK_DEADLOCK FALSE
