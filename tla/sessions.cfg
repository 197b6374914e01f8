SPECIFICATION Spec
CONSTANTS
  Workers = {w1, w2, w3}
  Tokens = {t1, t2, t3}
  MaxPasswords = 2
  NoWorker = NoWorker
SYMMETRY Symmetry
INVARIANTS TypeOK NoSessionCrossesPasswordChange SessionsEndWhole
CHECK_DEADLOCK FALSE
