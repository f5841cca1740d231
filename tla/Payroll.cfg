CONSTANTS
  a1 = a1  a2 = a2  c1 = c1
  Admins = {a1, a2}
  Classes = {c1}
  Anchors = {0, 1}
  PeriodDays = 2
  MaxDay = 2
  MaxEdits = 1
  MaxReopens = 1
  MaxMoves = 1
  MaxAdjustments = 1
  MaxChanges = 3
SPECIFICATION Suite
SYMMETRY MCSymmetry
INVARIANTS LessonsPaidOnce ViewAddsUp
PROPERTIES FinalizedStands
