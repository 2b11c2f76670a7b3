----------------------------- MODULE ParseLogs -----------------------------
(***************************************************************************)
(* The diagnostic record of one feed entry, parseLogs/{source item id}.    *)
(*                                                                         *)
(* A log is kept to what its lifecycle turns on: retryState, and the       *)
(* resolution map (its outcome and its titleId).  RSS scans write logs     *)
(* without a resolution and leave the state to effective_retry_state;      *)
(* reparsing writes both.  The repository merges what arrives with what it *)
(* has, and refuses to read back a combination that ParseLog.__post_init__ *)
(* rejects.                                                                *)
(***************************************************************************)
CONSTANTS Titles, NoTitle

ASSUME ParseLogsAssumption == NoTitle \notin Titles

RetryStates == {"retryable", "terminal", "resolved"}

(* A stored log; state "absent" stands for a document that does not exist.  *)
Logs == [state : RetryStates \cup {"absent"},
         outcome : {"none", "matched", "terminal"},
         title : Titles \cup {NoTitle}]

Unresolved(state) == [state |-> state, outcome |-> "none", title |-> NoTitle]
NoLog == Unresolved("absent")

(* The three kinds of log reparsing writes. *)
RetryLog == Unresolved("retryable")
TerminalLog == [state |-> "terminal", outcome |-> "terminal", title |-> NoTitle]
ResolvedLog(t) == [state |-> "resolved", outcome |-> "matched", title |-> t]

(* _resolution_matches_state *)
ResolutionMatches(log) ==
    \/ log.state = "resolved" /\ log.outcome = "matched"
    \/ log.state = "terminal" /\ log.outcome = "terminal"

(* ParseLog.__post_init__, run whenever parse_log_from_dict reads one back. *)
Readable(log) == log.outcome = "none" \/ ResolutionMatches(log)

(* merge_parse_logs: the incoming log replaces the stored one, but takes    *)
(* over its resolution when it brings none.                                 *)
Merged(old, new) ==
    IF new.outcome = "none" /\ ResolutionMatches(old)
    THEN [new EXCEPT !.outcome = old.outcome, !.title = old.title]
    ELSE new

=============================================================================
