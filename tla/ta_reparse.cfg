SPECIFICATION Spec
CONSTANTS
  A = A B = B i1 = i1 i2 = i2 x = x y = y p = p r1 = r1 r2 = r2
  Titles = {A, B}
  Items = {i1, i2}
  RawTitles = {x, y}
  Metadata = {p}
  NoMeta = NoMeta NoRaw = NoRaw
  Runs = {r1, r2}
  Modes = {"recheck-existing", "reparse-unfound"}
  Retryable = {i2}
  BatchSize = 1
  Chaining = FALSE
  Serialized = TRUE
  MaxEntries = 1
  MaxProposals = 0
  MaxFailures = 0
INVARIANTS FlaggedTitlesAreStamped
SYMMETRY AnyOrder
CHECK_DEADLOCK FALSE
