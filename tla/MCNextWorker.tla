---------------------------- MODULE MCNextWorker ----------------------------
(***************************************************************************)
(* Instances of NextWorker: one entry and one Oscar film on one key, and   *)
(* three Oscar films without feeds.                                        *)
(***************************************************************************)
EXTENDS NextWorker

CONSTANTS w1, w2, s1, s2, e1, e2, e3, f1, f2, f3, k1, k2

OneEntry == <<<<s1, <<e1>>>>>>
NoFeeds == <<>>

OneFilm == <<f1>>
NewestFirst == <<f1, f2, f3>>

(* The films and the entry are one title: one lookup, and one cache row. *)
OneKey == [x \in Entries \cup Films |-> k1]

ASSUME AmpleAssumption == Ample

(* One attempt at a film is enough where its delays are not the question,   *)
(* one day on which something was stored, with the runs that outlive its    *)
(* midnight, and overlapping runs around the timer's other hour.            *)
OneDay ==
    /\ \A f \in Films : film[f].attempts <= 1
    /\ hour = 5 => \E w \in Workers : ~Active(w)
    /\ hour = 0 /\ (\A w \in Workers : ~Active(w)) =>
          /\ catalog = {}
          /\ \A k \in Keys : cache[k] = "none"
          /\ \A f \in Films : film[f].attempts = 0

(* The third film is behind those that FilmsEventuallyTried is about: one   *)
(* attempt at it is enough.                                                 *)
LastFilmOnce == film[f3].attempts <= 1

=============================================================================
