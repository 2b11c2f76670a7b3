SPECIFICATION FairSpec
CONSTANTS
    w1 = w1  w2 = w2
    s1 = s1  s2 = s2
    e1 = e1  e2 = e2  e3 = e3
    f1 = f1  f2 = f2  f3 = f3
    k1 = k1  k2 = k2
    NoWorker = NoWorker
    NoKey = NoKey
    NoFilm = NoFilm
    Workers = {w1}
    Scheduled = w1
    Entries = {}
    Sources = {}
    FeedOf <- NoFeeds
    Keys = {k1}
    Dated = {}
    KeyOf <- OneKey
    Films = {f1, f2, f3}
    FilmOrder <- NewestFirst
    MaxFilms = 1
    DailyLimit = 5
    OscarLimit = 4
    LogCap = 8
    MaxFailures = 0
    MaxStops = 0
    MaxKills = 0
    MaxDrops = 0
    MaxTroubles = 0
    MaxManual = 0
PROPERTIES FilmsEventuallyTried
CONSTRAINT LastFilmOnce
