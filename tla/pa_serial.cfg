SPECIFICATION FairSpec
CONSTANTS
  A = A B = B o1 = o1 o2 = o2 p1 = p1 p2 = p2
  Titles = {A, B}
  Occurrences = {o1, o2}
  Proposals = {p1, p2}
  Runs = {r1, r2}
  Scans = {s1}
  Identities = {1, 2}
  Details = {1}
  Origins = {1, 2}
  Canonical <- MCCanonical
  Entered <- MCEntered
  Source <- MCSource
  Named <- MCNamed
  Suggested <- MCSuggestedOrNone
  Filed <- MCFiled
  Observations <- MCObservationsMore
  Readings <- MCReadingsBefore
  LeaseDuration = 1
  MaxTime = 1
  MaxScanWrites = 1
  Serialized = TRUE
  NoField = NoField NoPrint = NoPrint NoTitle = NoTitle NoRun = NoRun NoProposal = NoProposal
INVARIANTS OccurrencesHaveTitles
CHECK_DEADLOCK FALSE
PROPERTIES LeasesEnd
