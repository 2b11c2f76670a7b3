SPECIFICATION Spec
CONSTANTS
  A = A B = B C = C i1 = i1 i2 = i2 r1 = r1 r2 = r2 r3 = r3
  Titles = {A}
  Items = {i1}
  Runs = {r1, r2, r3}
  Feeds <- OneEntry
  Kind <- AllMovies
  ModeOf <- RssReparseRss
  BatchSize = 1
  MaxFailures = 0
  MaxCrashes = 0
  MaxEdits = 0
  Serialized = TRUE
  NoTitle = NoTitle NoRun = NoRun NoItem = NoItem
INVARIANTS RetryableHasNoResolution
CHECK_DEADLOCK FALSE
