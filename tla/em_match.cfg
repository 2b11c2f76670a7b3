SPECIFICATION Spec
CONSTANTS
  x = x y = y t1 = t1 t2 = t2 e1 = e1 e2 = e2
  Entries = {e1, e2}
  Feeds <- TwoFeeds
  Parsed <- MCParsed
  MapOf <- MCMapOf
  Readings <- MCReadings
  Lookups <- MCLookups
  Payloads <- MCPayloads
  InitialCaches <- MCCaches
  NoId = NoId Blank = Blank NoPayload = NoPayload
  ExcludedCountries = {"RU"}
  ExcludedGenres = {"Short"}
  RequestLimit = 2
  CacheDays = 30
  MaxRetries = 2
  MaxFailures = 1
  Modes = {"rss", "all", "recheck-existing", "reparse-unfound"}
  MaxRuns = 2
  Gaps = {0}
INVARIANTS TypeOK RequestsWithinBudget NoNeedlessRequests AcceptedAsDocumented MappingsAreObeyed TroubleShows
PROPERTIES QuietAfterQuota NotFoundIsWhole RunsEnd
CHECK_DEADLOCK FALSE
