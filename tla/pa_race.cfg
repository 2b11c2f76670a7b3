SPECIFICATION Spec
CONSTANTS
  A = A B = B o1 = o1 o2 = o2 p1 = p1 p2 = p2
  Titles = {A, B}
  Occurrences = {o1, o2}
  Proposals = {p1, p2}
  Runs = {r1, r2}
  Scans = {s1}
  Identities = {1, 2}
  Details = {1}
  Origins = {1, 2}
  Canonical <- MCCanonical
  Entered <- MCEntered
  Source <- MCSource
  Named <- MCNamed
  Suggested <- MCSuggested
  Filed <- MCFiled
  Observations <- MCObservationsBoth
  Readings <- MCReadingsBetween
  LeaseDuration = 1
  MaxTime = 1
  MaxScanWrites = 1
  Serialized = FALSE
  NoField = NoField NoPrint = NoPrint NoTitle = NoTitle NoRun = NoRun NoProposal = NoProposal
CONSTRAINT OneReadBetween
SYMMETRY RunSymmetry
INVARIANTS TypeOK LeasesAgree NoLeaseLeftBehind
PROPERTIES AppliedAsApproved ImplementsRepair OccurrencesMoveWhole StatusesMoveLegally
CHECK_DEADLOCK FALSE
