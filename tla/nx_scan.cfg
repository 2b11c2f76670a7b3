SPECIFICATION Spec
CONSTANTS
    w1 = w1  w2 = w2
    s1 = s1  s2 = s2
    e1 = e1  e2 = e2  e3 = e3
    f1 = f1  f2 = f2  f3 = f3
    k1 = k1  k2 = k2
    NoWorker = NoWorker
    NoKey = NoKey
    NoFilm = NoFilm
    Workers = {w1, w2}
    Scheduled = w1
    Entries = {e1}
    Sources = {s1, s2}
    FeedOf <- OneEntry
    Keys = {k1}
    Dated = {k1}
    KeyOf <- OneKey
    Films = {f1}
    FilmOrder <- OneFilm
    MaxFilms = 1
    DailyLimit = 2
    OscarLimit = 1
    LogCap = 8
    MaxFailures = 1
    MaxStops = 1
    MaxKills = 1
    MaxDrops = 1
    MaxTroubles = 1
    MaxManual = 1
INVARIANTS TypeOK BudgetRespected OscarRunsReportWhatTheyStored SucceededRunsAreComplete
PROPERTIES SettledFilmsStaySettled QuietAfterQuota
CONSTRAINT OneDay
