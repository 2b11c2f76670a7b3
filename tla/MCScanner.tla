----------------------------- MODULE MCScanner ------------------------------
(* Small instances of Scanner for TLC. *)
EXTENDS Scanner, TLC

CONSTANTS A, B, C,    \* titles
          i1, i2,     \* feed entries
          r1, r2, r3  \* runs

AllMovies == [t \in Titles |-> "movie"]
MCKinds == [t \in Titles |-> CASE t = A -> "movie" [] t = B -> "series" [] t = C -> "unknown"]

OneEntry == <<<<i1>>>>
TwoFeeds == <<<<i1>>, <<i2>>>>

RssReparseRss == [r \in Runs |-> IF r = r2 THEN "reparse-unfound" ELSE "rss"]
RssAllRss == [r \in Runs |-> IF r = r2 THEN "all" ELSE "rss"]

(* Bound: the second run comes upon the movie only. *)
OneRunHasAll == \A n \in DOMAIN accepted[r2] : accepted[r2][n][1] = A
=============================================================================
