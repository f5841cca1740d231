CONSTANTS
  annas = annas
  annas2 = annas2
  bens = bens
  letter = letter
  letter2 = letter2
  legal = legal
  None = None
  s1 = s1
  s2 = s2
  t1 = t1
  t2 = t2
  Assignments = {annas, annas2, bens}
  Owner <- MCOwner
  Pdfs = {letter, letter2, legal}
  Layout <- MCLayout
  Sessions = {t1, t2}
  MaxOps = 4
  MaxFaults = 1
  Editors = {"e", "f"}
  Signers = {"s"}
  MaxEdits = 3
  MaxVersionFaults = 1
  Uploads = {1, 2}
  Requests = {s1, s2}
  Passes = {"p1", "p2"}
  Window = 0
  Grace = 1
  LastDate = 2
  MaxRequests = 3
  MaxPasses = 2
  MaxCertFaults = 1
SPECIFICATION ArchiveSuite
PROPERTY CutFailsExport
CHECK_DEADLOCK FALSE
