CONSTANTS
  Admins = {a1, a2}
  Classes = {c1}
  Anchors = {0, 1}
  PeriodDays = 2
  MaxDay = 3
  MaxEdits = 1
  MaxReopens = 0
  MaxMoves = 0
  MaxAdjustments = 0
  MaxChanges = 1
SPECIFICATION Spec
INVARIANT PaidOnce
