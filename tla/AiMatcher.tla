------------------------------ MODULE AiMatcher ------------------------------
(***************************************************************************)
(* AiMatcher and ai_validator.py: a question about a batch of items is     *)
(* asked up to MaxRetries times; a reply that is not whole and sure is no  *)
(* reply.                                                                  *)
(***************************************************************************)
EXTENDS Integers, Sequences, FiniteSets

CONSTANT MaxRetries

ASSUME AiAssumption == MaxRetries \in Nat \ {0}

VARIABLES
    ai,       \* _disabled, and whether _forbidden_until lies ahead
    question  \* the question under way

NoAnswers == <<>>
Quiet == [pc |-> "none", ids |-> {}, says |-> {}, attempt |-> 0, answers |-> NoAnswers]
FreshAi == [disabled |-> FALSE, forbidden |-> FALSE]

is_available == ~ai.disabled /\ ~ai.forbidden

(* Mutant: an answer is taken for each item it comes for. *)
ValidPartly(reply, ids) ==
    /\ \A i \in DOMAIN reply : reply[i].id \in ids /\ reply[i].sure
    /\ \A i, j \in DOMAIN reply : reply[i].id = reply[j].id => i = j

(* validate_ai_batch_structure and the checks of each entry: exactly one    *)
(* entry per item, each well formed and sure enough.                        *)
Valid(reply, ids) ==
    /\ Len(reply) = Cardinality(ids)
    /\ {reply[i].id : i \in DOMAIN reply} = ids
    /\ \A i \in DOMAIN reply : reply[i].sure

Validated(reply, ids) ==
    IF ~Valid(reply, ids) THEN NoAnswers
    ELSE [e \in {reply[i].id : i \in DOMAIN reply} |->
             reply[CHOOSE i \in DOMAIN reply : reply[i].id = e].says]

Replies(ids, sayings) ==
    LET entry == [id : ids, says : sayings, sure : BOOLEAN]
    IN UNION {[1 .. n -> entry] : n \in 0 .. Cardinality(ids)}

-----------------------------------------------------------------------------
(* batch_extract_titles, batch_validate_omdb_matches, batch_recheck_matches *)
(* of a matcher that is available: sayings is what an entry may say.        *)
Ask(ids, sayings) ==
    /\ question.pc = "none"
    /\ is_available
    /\ question' = [Quiet EXCEPT !.pc = "asked", !.ids = ids, !.says = sayings, !.attempt = 1]

Reply ==
    /\ question.pc = "asked"
    /\ \E reply \in Replies(question.ids, question.says) :
          question' = [question EXCEPT !.pc = "answered", !.answers = Validated(reply, question.ids)]
    /\ UNCHANGED ai

(* Mutant: the last attempt starts the count again. *)
TryForEver == question' = [question EXCEPT !.attempt = (@ % MaxRetries) + 1] /\ ai' = ai

(* HTTP 429 or 5xx, or a timeout. *)
TryAgain ==
    IF question.attempt < MaxRetries
    THEN question' = [question EXCEPT !.attempt = @ + 1] /\ ai' = ai
    ELSE question' = [question EXCEPT !.pc = "answered"] /\ ai' = [ai EXCEPT !.disabled = TRUE]

Busy == question.pc = "asked" /\ TryAgain

(* Too large, or without candidates. *)
Unusable ==
    /\ question.pc = "asked"
    /\ question' = [question EXCEPT !.pc = "answered"]
    /\ UNCHANGED ai

(* HTTP 403: not again for five minutes. *)
Forbidden ==
    /\ question.pc = "asked"
    /\ question' = [question EXCEPT !.pc = "answered"]
    /\ ai' = [ai EXCEPT !.forbidden = TRUE]

(* Any other error. *)
Fatal ==
    /\ question.pc = "asked"
    /\ question' = [question EXCEPT !.pc = "answered"]
    /\ ai' = [ai EXCEPT !.disabled = TRUE]

CooldownEnds ==
    /\ ai.forbidden
    /\ ai' = [ai EXCEPT !.forbidden = FALSE]
    /\ UNCHANGED question

Answer == Reply \/ Busy \/ Unusable \/ Forbidden \/ Fatal

=============================================================================
