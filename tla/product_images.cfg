CONSTANTS
  Products = {p1}
  Images = {i1, i2}
  Old = {i1}
  Workers = {w1, w2}
  NoImage = NoImage
SPECIFICATION Spec
INVARIANTS RowsConsistent OriginalsStay NoFileLeftBehind
PROPERTIES ThumbnailsStay
CHECK_DEADLOCK FALSE
