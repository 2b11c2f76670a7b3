----------------------------- MODULE MatchPolicy -----------------------------
(***************************************************************************)
(* What OMDb says of a title, read, and whether it fits what a feed or the *)
(* AI says of an entry (match_policy.py and OmdbClient._normalize_payload).*)
(* A payload is cut down to what the policy looks at.                      *)
(***************************************************************************)
EXTENDS Integers, Sequences

CONSTANTS ExcludedCountries, ExcludedGenres

(* Years are positive. *)
NoYear == 0

SourceTypes == {"movie", "series", "unknown"}

normalize_source_type(t) == IF t \in {"movie", "series"} THEN t ELSE "unknown"

effective_source_type(media, source) ==
    IF source # "unknown" THEN source
    ELSE IF media = "series" THEN "series"
    ELSE IF media \in {"movie", "documentary", "short"} THEN "movie" ELSE "unknown"

(* classify_media *)
ContentKind(genres) ==
    IF "Documentary" \in genres THEN "documentary"
    ELSE IF "Short" \in genres THEN "short" ELSE "standard"
MediaType(source, kind) ==
    IF source = "series" THEN "series" ELSE IF kind # "standard" THEN kind ELSE "movie"

(* The years a series was broadcast: no end stands for an open range. *)
NoRange == [start |-> NoYear, end |-> NoYear]

parse_broadcast_range(years, ongoing) ==
    IF years = <<>> THEN NoRange
    ELSE [start |-> years[1],
          end |-> IF Len(years) >= 2 THEN years[2] ELSE IF ongoing THEN NoYear ELSE years[1]]

Contains(range, year) ==
    /\ year >= range.start
    /\ range.end = NoYear \/ year <= range.end

(* A payload has the years of its Year field in order, and whether they end *)
(* in a dash or in "present".                                               *)
normalize_payload(p) ==
    LET source == normalize_source_type(p.type) IN
    [id |-> p.id, title |-> p.title, source |-> source, media |-> MediaType(source, ContentKind(p.genres)),
     year |-> IF p.years = <<>> THEN NoYear ELSE p.years[1],
     range |-> IF source = "series" THEN parse_broadcast_range(p.years, p.ongoing) ELSE NoRange,
     countries |-> p.countries, genres |-> p.genres]

(* Excluded are titles all of whose countries are, or any of whose genres. *)
Excluded(r) ==
    \/ r.countries # {} /\ r.countries \subseteq ExcludedCountries
    \/ r.genres \cap ExcludedGenres # {}

WithinTolerance(sourceYear, year) == year - sourceYear \in -1 .. 1

(* Mutant: the last season announced may come a year after the end. *)
YearFitsLoosely(r, actual, year) ==
    \/ year = NoYear
    \/ actual = "series" /\ (r.range = NoRange \/ Contains(r.range, year) \/ Contains(r.range, year - 1))
    \/ actual # "series" /\ (r.year = NoYear \/ WithinTolerance(year, r.year))

YearFits(r, actual, year) ==
    \/ year = NoYear
    \/ actual = "series" /\ (r.range = NoRange \/ Contains(r.range, year))
    \/ actual # "series" /\ (r.year = NoYear \/ WithinTolerance(year, r.year))

(* The decision's status. *)
evaluate_match(expected, r, year, manual) ==
    LET actual == effective_source_type(r.media, r.source) IN
    IF manual THEN IF Excluded(r) THEN "rejected" ELSE "accepted"
    ELSE IF actual = "unknown" THEN "ambiguous"
    ELSE IF expected # "unknown" /\ actual # expected THEN "rejected"
    ELSE IF ~YearFits(r, actual, year) \/ Excluded(r) THEN "rejected" ELSE "accepted"

-----------------------------------------------------------------------------
(* The compatibility matrix of DATA_CONTRACTS, read off a payload: a movie  *)
(* or a series and, of the two, the expected one; a movie's year within one *)
(* of the expected; a season inside the broadcast years, if they are known; *)
(* no exclusion.                                                            *)
KnownType(p) == p.type \in {"movie", "series"}
TypeFits(expected, p) == KnownType(p) /\ (expected # "unknown" => p.type = expected)
SeasonFits(years, ongoing, year) ==
    \/ year = NoYear \/ years = <<>>
    \/ year >= years[1] /\ (year <= years[Len(years)] \/ (ongoing /\ Len(years) = 1))
NotExcluded(p) ==
    /\ p.countries = {} \/ \E c \in p.countries : c \notin ExcludedCountries
    /\ \A g \in p.genres : g \notin ExcludedGenres
DocumentedFit(expected, p, year) ==
    /\ TypeFits(expected, p)
    /\ IF p.type = "series" THEN SeasonFits(p.years, p.ongoing, year)
       ELSE year = NoYear \/ p.years = <<>> \/ year \in p.years[1] - 1 .. p.years[1] + 1
    /\ NotExcluded(p)

=============================================================================
