--------------------------- MODULE MCEntryMatching ---------------------------
(* Small instances of EntryMatching for TLC. *)
EXTENDS EntryMatching, TLC

CONSTANTS x, y,       \* titles
          t1, t2,     \* IMDb ids
          e1, e2      \* entries

By(title, year, type) == [title |-> title, year |-> year, type |-> type, id |-> NoId]
Payload(title, id, type, years, ongoing, countries, genres) ==
    [title |-> title, id |-> id, type |-> type, years |-> years, ongoing |-> ongoing,
     countries |-> countries, genres |-> genres]

(* A film, a series that ended, a film of an excluded genre, a game, and an *)
(* answer without a title, as an older program may have stored it.          *)
Film == Payload(x, t1, "movie", <<11>>, FALSE, {"US"}, {"Drama"})
Ended == Payload(x, t2, "series", <<10, 12>>, FALSE, {"US", "RU"}, {})
Refused == Payload(y, t1, "movie", <<11>>, FALSE, {"US"}, {"Short"})
Game == Payload(x, t2, "game", <<12>>, FALSE, {}, {})
Nameless == Payload(Blank, t1, "movie", <<11>>, FALSE, {}, {})

MCPayloads == {Film, Ended, Refused}

(* An entry of a film, and a season of a series with a mapping.             *)
MCParsed == [e \in Entries |-> IF e = e2 THEN By(x, 13, "series") ELSE By(x, 12, "movie")]
MCMapOf == [e \in Entries |-> IF e = e2 THEN t2 ELSE NoId]
MCReadings == {By(y, 12, "movie"), By(x, 13, "series"), By(x, 12, "unknown")}
MCLookups ==
    LET titled == {MCParsed[e] : e \in Entries} \cup MCReadings
    IN  titled \cup {[k EXCEPT !.type = t] : k \in MCReadings, t \in {"movie", "series"}}
        \cup {[MCParsed[e] EXCEPT !.id = MCMapOf[e]] : e \in Entries}

NoCache == [k \in Lookups |-> NoEntry]
MCCaches == {NoCache} \cup {[k \in Lookups |-> Entry("found", p, u)] : p \in {Film, Nameless}, u \in {1, 3}}

(* The film is filed from the cache; the AI then gives its title without a  *)
(* type, and OMDb answers with a game of that title.                        *)
FilmOrGame == {Film, Game}
UntypedReading == {By(x, 12, "unknown")}
FilmCached == {[NoCache EXCEPT ![By(x, 12, "movie")] = Entry("found", Film, 3)]}

OneFeed == <<<<e1>>>>
TwoFeeds == <<<<e1>>, <<e2>>>>
=============================================================================
