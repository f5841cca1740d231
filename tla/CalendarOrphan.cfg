CONSTANTS
  Classes = {c1}
  Calendars = {cal1}
  NoCalendar = none
  ApiSyncers = {api}
  Workers = {worker}
  FaultKinds = {"google"}
  MaxRequests = 2
  MaxFaults = 1
  MaxAttempts = 2
SPECIFICATION Spec
INVARIANT NothingForgotten
CHECK_DEADLOCK FALSE
