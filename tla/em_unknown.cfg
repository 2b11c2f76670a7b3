SPECIFICATION Spec
CONSTANTS
  x = x y = y t1 = t1 t2 = t2 e1 = e1 e2 = e2
  Entries = {e1}
  Feeds <- OneFeed
  Parsed <- MCParsed
  MapOf <- MCMapOf
  Readings <- UntypedReading
  Lookups <- MCLookups
  Payloads <- FilmOrGame
  InitialCaches <- FilmCached
  NoId = NoId Blank = Blank NoPayload = NoPayload
  ExcludedCountries = {"RU"}
  ExcludedGenres = {"Short"}
  RequestLimit = 2
  CacheDays = 30
  MaxRetries = 2
  MaxFailures = 0
  Modes = {"rss", "recheck-existing"}
  MaxRuns = 2
  Gaps = {0}
INVARIANTS UnknownTypeIsAmbiguous
CHECK_DEADLOCK FALSE
