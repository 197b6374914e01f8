SPECIFICATION Spec
CONSTANTS
  Workers = {w1, w2}
  Codes = {c1, c2}
  MaxAttempts = 2
  MaxRequests = 4
  MaxFaults = 1
  NoCode = NoCode
  NoWorker = NoWorker
SYMMETRY Symmetry
INVARIANTS TypeOK CodesAreSpentOnce GuessesAreBounded
CHECK_DEADLOCK FALSE
