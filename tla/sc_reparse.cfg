SPECIFICATION FairSpec
CONSTANTS
  A = A B = B C = C i1 = i1 i2 = i2 r1 = r1 r2 = r2 r3 = r3
  Titles = {A, B}
  Items = {i1}
  Runs = {r1, r2, r3}
  Feeds <- OneEntry
  Kind <- AllMovies
  ModeOf <- RssReparseRss
  BatchSize = 1
  MaxFailures = 1
  MaxCrashes = 0
  MaxEdits = 1
  Serialized = TRUE
  NoTitle = NoTitle NoRun = NoRun NoItem = NoItem
INVARIANTS ResolutionsAreDurable
PROPERTIES MappingsAppliedBeforeConsumed RetryableWorkKept RunsEnd
CHECK_DEADLOCK FALSE
