SPECIFICATION Spec
CONSTANTS
  A = A B = B o1 = o1 o2 = o2 p1 = p1 p2 = p2
  Titles = {A, B}
  Occurrences = {o1, o2}
  Proposals = {p1}
  Runs = {r1}
  Scans = {s1}
  Identities = {1, 2}
  Details = {1}
  Origins = {1, 2}
  Canonical <- MCCanonical
  Entered <- MCEntered
  Source <- MCSourceOne
  Named <- MCNamedOne
  Suggested <- MCSuggestedOneSelf
  Filed <- MCFiled
  Observations <- MCObservations
  Readings <- MCReadingsBefore
  LeaseDuration = 1
  MaxTime = 1
  MaxScanWrites = 0
  Serialized = FALSE
  NoField = NoField NoPrint = NoPrint NoTitle = NoTitle NoRun = NoRun NoProposal = NoProposal
PROPERTIES SameSourceTargetIsNoOp
CHECK_DEADLOCK FALSE
