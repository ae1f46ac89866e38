---------------------------- MODULE SourceHealth ----------------------------
(***************************************************************************)
(* libs/observability/health_assessment.py without state: the outcomes of  *)
(* recent fetches and a freshness age are classified.  The adapters' own   *)
(* trackers (SourceFetch) and the health task of Airflow (DerivedTables)   *)
(* call the same assessor.                                                 *)
(*                                                                         *)
(* Ratios are compared in hundredths.  A failure reason is the class that  *)
(* the assessor finds in its text.                                         *)
(***************************************************************************)
EXTENDS Integers, Sequences, FiniteSets

CONSTANTS MinSuccess,    \* min_success_ratio, in hundredths
          MaxMalformed,  \* max_malformed_ratio, in hundredths
          MaxEmpty,      \* max_empty_fetches
          MaxAge,        \* max_freshness_age_seconds, -1 for None
          MinExpected,   \* min_expected_records, 0 for None
          MaxHistory     \* max_history

\* The values that a configuration may have.
Thresholds ==
  /\ MinSuccess \in 0 .. 100 /\ MaxMalformed \in 0 .. 100
  /\ MaxEmpty \in Nat /\ MaxAge \in Int /\ MinExpected \in Nat
  /\ MaxHistory \in Nat \ {0}

State == {"healthy", "unreachable", "rate_limited", "structurally_changed", "stale",
          "empty_result", "partially_parseable"}
Reason == {"rate limit", "structure", "other"}
Fresh == {"fresh", "stale", "never_collected"}
Never == -1  \* an age of None

Success(events, records, malformed) ==
  [success |-> TRUE, events |-> events, records |-> records, malformed |-> malformed,
   reason |-> "other"]
Failure(reason) ==
  [success |-> FALSE, events |-> 0, records |-> 0, malformed |-> 0, reason |-> reason]

Successes(outcomes) == {i \in DOMAIN outcomes : outcomes[i].success}
Failures(outcomes) == DOMAIN outcomes \ Successes(outcomes)

\* A sum over a prefix of the outcomes; failed fetches count nothing.
Total(outcomes, field) ==
  LET sum[n \in 0 .. Len(outcomes)] ==
        IF n = 0 THEN 0 ELSE sum[n - 1] + outcomes[n][field]
  IN sum[Len(outcomes)]

LastReason(outcomes) ==
  outcomes[CHOOSE i \in Failures(outcomes) : \A j \in Failures(outcomes) : j <= i].reason

\* get_freshness_state, and _compute_freshness_state of the evaluator.
Freshness(age) == IF age = Never THEN "never_collected"
                  ELSE IF MaxAge >= 0 /\ age > MaxAge THEN "stale" ELSE "fresh"

\* What the last failure says, wherever in the history it is.
Complaint(outcomes) ==
  IF Failures(outcomes) = {} \/ LastReason(outcomes) = "other" THEN "none"
  ELSE IF LastReason(outcomes) = "rate limit" THEN "rate_limited" ELSE "structurally_changed"

MostlyFailing(outcomes) ==
  100 * Cardinality(Successes(outcomes)) < MinSuccess * Len(outcomes)

TooFew(outcomes, empty) ==
  \/ empty >= MaxEmpty
  \/ /\ MinExpected > 0 /\ Total(outcomes, "records") > 0
     /\ Total(outcomes, "records") < MinExpected

Garbled(outcomes) ==
  /\ Total(outcomes, "records") > 0
  /\ 100 * Total(outcomes, "malformed") > MaxMalformed * Total(outcomes, "records")

Assess(outcomes, empty, age) ==
  CASE outcomes = <<>> -> "healthy"
    [] outcomes # <<>> /\ Complaint(outcomes) # "none" -> Complaint(outcomes)
    [] OTHER ->
         IF MostlyFailing(outcomes) THEN "unreachable"
         ELSE IF Freshness(age) = "stale" THEN "stale"
         ELSE IF TooFew(outcomes, empty) THEN "empty_result"
         ELSE IF Garbled(outcomes) THEN "partially_parseable"
         ELSE "healthy"

\* The tracker's bounded history.
Recorded_Slip(outcomes, outcome) ==
  IF Len(outcomes) < MaxHistory THEN Append(outcomes, outcome) ELSE outcomes
Recorded(outcomes, outcome) ==
  LET longer == Append(outcomes, outcome)
  IN IF Len(longer) > MaxHistory THEN SubSeq(longer, Len(longer) - MaxHistory + 1, Len(longer))
                                 ELSE longer

\* Failures leave the count of empty fetches alone.
EmptyAfter(empty, outcome) ==
  IF ~outcome.success THEN empty ELSE IF outcome.events = 0 THEN empty + 1 ELSE 0
=============================================================================
