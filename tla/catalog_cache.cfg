SPECIFICATION CacheFairSpec
CONSTANTS
  Readers = {r1, r2}
  MaxWrites = 2
  MaxLapses = 1
  Nothing = Nothing
INVARIANTS CacheTypeOK FreshAfterInvalidation
PROPERTIES StalePagesDieOut
CHECK_DEADLOCK FALSE
