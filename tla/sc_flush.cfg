SPECIFICATION Spec
CONSTANTS
  A = A B = B C = C i1 = i1 i2 = i2 r1 = r1 r2 = r2 r3 = r3
  Titles = {A, B, C}
  Items = {i1, i2}
  Runs = {r1, r2}
  Feeds <- TwoFeeds
  Kind <- MCKinds
  ModeOf <- RssAllRss
  BatchSize = 1
  MaxFailures = 1
  MaxCrashes = 1
  MaxEdits = 0
  Serialized = FALSE
  NoTitle = NoTitle NoRun = NoRun NoItem = NoItem
CONSTRAINT OneRunHasAll
INVARIANTS TypeOK FiledUnderStoredTitles ClosedRunsAreDurable LatestIsWhole LatestFollowsFeeds
CHECK_DEADLOCK FALSE
