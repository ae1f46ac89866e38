----------------------------- MODULE SourceFetch -----------------------------
(***************************************************************************)
(* libs/adapters: one fetch cycle of a source adapter, from the first      *)
(* request to a FetchResult or an exception, with the counters of          *)
(* SourceMetrics and the health tracker of the difficult retailer.  The    *)
(* source answers every request as it likes.                               *)
(*                                                                         *)
(* A behaviour follows one adapter, as they share no state.  A page is a   *)
(* sequence of articles, items in the case of an API, and may link to      *)
(* another page, with an address that may not join to that of the page.    *)
(***************************************************************************)
EXTENDS Integers, Sequences, FiniteSets

CONSTANTS Adapters,   \* the adapters to follow
          Page,       \* pages that a source may serve
          MaxRetries, \* max_retries of the clients that retry
          MaxPages,   \* max_pages of the web retailer
          MaxFetches, \* bound: fetch cycles
          MaxTime,    \* bound: the clock
          MinSuccess, MaxMalformed, MaxEmpty, MaxAge, MinExpected, MaxHistory

Health == INSTANCE SourceHealth

\* A scraped card may have no link or name, an address that is missing or cannot be joined to
\* that of the page, and a price that is missing, negative or no number.
Article == [link : BOOLEAN, name : BOOLEAN, href : {"none", "good", "broken"},
            price : {"none", "good", "negative", "text"}]

ASSUME PageAssumption ==
  Page \subseteq [articles : Seq(Article), next : {"none", "good", "broken"}]
ASSUME ThresholdAssumption == Health!Thresholds
ASSUME LimitAssumption == MaxRetries \in Nat \ {0} /\ MaxPages \in Nat \ {0} /\ MaxFetches \in Nat
                          /\ MaxTime \in Nat

VARIABLES adapter,
          token,    \* the eBay client holds an access token
          fetch,    \* the fetch in hand; gets are the requests before the one it waits for
          metrics,  \* SourceMetrics
          tracker,  \* SourceHealthTracker
          clock,
          fresh,    \* time of the last fetch with events, -1 for none
          run       \* the clean fetches, or the failures, that came last in a row

vars == <<adapter, token, fetch, metrics, tracker, clock, fresh, run>>

Scrapers == {"web_retailer", "premium_retailer"}
Steps == {"idle", "auth", "request", "again auth", "again request"}
Idle == [step |-> "idle", page |-> 1, attempt |-> 1, gets |-> 0, posts |-> 0,
         events |-> 0, malformed |-> 0, total |-> 0, pages |-> 0]
NoCounts == [attempts |-> 0, success |-> 0, failure |-> 0, collected |-> 0, emitted |-> 0,
             empty |-> 0, pages |-> 0, retries |-> 0, malformed |-> 0, partial |-> 0, timed |-> 0]

Init ==
  /\ adapter \in Adapters
  /\ token = FALSE /\ fetch = Idle /\ metrics = NoCounts
  /\ tracker = [outcomes |-> <<>>, empty |-> 0, age |-> Health!Never]
  /\ clock = 0 /\ fresh = -1
  /\ run = [clean |-> 0, failed |-> 0]

-----------------------------------------------------------------------------
(* What becomes of an article: an event, a product that the event model refuses, a malformed
   record, or nothing at all when the parser stumbles. *)

ParsedCard(a) ==
  IF a.link /\ a.href = "broken" THEN "skipped"
  ELSE IF ~a.link \/ ~a.name \/ a.href = "none" THEN "bad"
  ELSE IF a.price = "negative" THEN "unmapped" ELSE "event"

ValidatedItem(a) ==
  IF ~a.name \/ a.price = "text" THEN "bad" ELSE IF a.price = "negative" THEN "unmapped" ELSE "event"

Parsed(a) == IF adapter \in Scrapers THEN ParsedCard(a) ELSE ValidatedItem(a)
Count(page, class) == Cardinality({i \in DOMAIN page.articles : Parsed(page.articles[i]) = class})

-----------------------------------------------------------------------------
(* The two ends of a fetch. *)

\* Only the difficult retailer has a tracker.
Track(outcome) ==
  tracker' = IF adapter # "premium_retailer" THEN tracker
             ELSE [tracker EXCEPT !.outcomes = Health!Recorded(@, outcome),
                                  !.empty = Health!EmptyAfter(@, outcome)]

\* Every exception is counted and goes on to the caller.
Raise_Slip(reason) ==
  /\ fetch' = Idle
  /\ metrics' = IF reason = "untyped" THEN metrics
                ELSE [metrics EXCEPT !.failure = @ + 1, !.timed = @ + 1]
  /\ Track(Health!Failure(reason))
  /\ run' = [clean |-> 0, failed |-> run.failed + 1]
  /\ UNCHANGED <<adapter, clock, fresh>>
Raise(reason) ==
  /\ fetch' = Idle
  /\ metrics' = [metrics EXCEPT !.failure = @ + 1, !.timed = @ + 1]
  /\ Track(Health!Failure(IF reason = "untyped" THEN "other" ELSE reason))
  /\ run' = [clean |-> 0, failed |-> run.failed + 1]
  /\ UNCHANGED <<adapter, clock, fresh>>

\* What was collected before the page in hand, and that page.
With(page) ==
  LET parsed == Count(page, "event") + Count(page, "unmapped")
      bad == Count(page, "bad")
  IN [fetch EXCEPT !.events = @ + Count(page, "event"),
                   !.malformed = @ + Count(page, "unmapped") + bad,
                   !.total = @ + parsed + bad, !.pages = @ + 1]

Clean(got) == got.events > 0 /\ got.malformed = 0 /\ got.total >= MinExpected

\* record_fetch_success, after the counters that the scrapers alone keep.
Return(got, cut) ==
  LET scraper == adapter \in Scrapers
      partial == cut \/ (adapter = "premium_retailer" /\ got.malformed > 0)
  IN
  /\ fetch' = Idle
  /\ metrics' = [metrics EXCEPT
       !.success = @ + 1, !.timed = @ + 1,
       !.collected = @ + got.total, !.emitted = @ + got.events,
       !.empty = IF got.total = 0 THEN @ + 1 ELSE @,
       !.pages = IF scraper THEN @ + got.pages ELSE @,
       !.malformed = IF scraper THEN @ + got.malformed ELSE @,
       !.partial = IF partial THEN @ + 1 ELSE @]
  /\ Track(Health!Success(got.events, got.total, got.malformed))
  /\ fresh' = IF got.events > 0 THEN clock ELSE fresh
  /\ run' = [clean |-> IF Clean(got) THEN run.clean + 1 ELSE 0, failed |-> 0]
  /\ UNCHANGED <<adapter, clock>>

\* A failure behind the first page returns what there is; only the web retailer gets there.
GiveUp(reason) == IF fetch.page > 1 THEN Return(fetch, TRUE) ELSE Raise(reason)

\* tenacity: another attempt, or the last exception.
Retry(step, reason) ==
  IF fetch.attempt < MaxRetries
  THEN /\ fetch' = [fetch EXCEPT !.step = step, !.attempt = @ + 1, !.gets = @ + 1]
       /\ metrics' = IF adapter \in Scrapers THEN [metrics EXCEPT !.retries = @ + 1] ELSE metrics
       /\ UNCHANGED <<adapter, tracker, clock, fresh, run>>
  ELSE GiveUp(reason)

-----------------------------------------------------------------------------
(* A fetch starts, and waits for answers. *)

\* The runner calls fetch(); eBay's client needs a token first.
Start ==
  /\ fetch = Idle /\ metrics.attempts < MaxFetches
  /\ metrics' = [metrics EXCEPT !.attempts = @ + 1]
  /\ fetch' = [Idle EXCEPT !.step = IF adapter = "ebay" /\ ~token THEN "auth" ELSE "request"]
  /\ UNCHANGED <<adapter, token, tracker, clock, fresh, run>>

Waiting(client) == adapter = client /\ fetch.step \in {"request", "again request"}

\* The one page of a fetch.
Answer(page) == Return(With(page), FALSE) /\ UNCHANGED token

-----------------------------------------------------------------------------
(* The API clients without retries: no answer, an error status, an answer that is not JSON or
   not of the expected shape. *)

BestBuyFails == Waiting("best_buy") /\ Raise("other") /\ UNCHANGED token
BestBuyLimits == Waiting("best_buy") /\ Raise("rate limit") /\ UNCHANGED token
BestBuyAnswers == Waiting("best_buy") /\ \E page \in Page : Answer(page)

FakeStoreFails == Waiting("fake_store") /\ Raise("other") /\ UNCHANGED token
FakeStoreAnswers == Waiting("fake_store") /\ \E page \in Page : Answer(page)

-----------------------------------------------------------------------------
(* eBay. *)

\* _authenticate: an answer that is not JSON escapes as it is.
Authenticate ==
  /\ fetch.step \in {"auth", "again auth"}
  /\ \/ /\ token' = TRUE
        /\ fetch' = [fetch EXCEPT !.posts = @ + 1,
                                  !.step = IF @ = "auth" THEN "request" ELSE "again request"]
        /\ UNCHANGED <<adapter, metrics, tracker, clock, fresh, run>>
     \/ \E reason \in {"other", "untyped"} : Raise(reason) /\ UNCHANGED token

\* A timeout or a broken connection, of either request, is tried again from the first.
EbayRetries == Waiting("ebay") /\ Retry("request", "other") /\ UNCHANGED token

\* 429, another error status, no connection, an answer that is not JSON.
EbayFails == Waiting("ebay") /\ \E reason \in {"other", "rate limit"} : Raise(reason) /\ UNCHANGED token

\* 401 of the first request of an attempt drops the token; that of the second is an error.
EbayRefuses ==
  /\ adapter = "ebay" /\ fetch.step = "request"
  /\ token' = FALSE
  /\ fetch' = [fetch EXCEPT !.step = "again auth", !.gets = @ + 1]
  /\ UNCHANGED <<adapter, metrics, tracker, clock, fresh, run>>

\* JSON of another shape: a malformed record, or an exception of its parser.
EbayPuzzles ==
  /\ Waiting("ebay") /\ UNCHANGED token
  /\ \/ Raise("untyped")
     \/ Return([fetch EXCEPT !.malformed = 1, !.total = 1], FALSE)

EbayAnswers == Waiting("ebay") /\ \E page \in Page : Answer(page)

-----------------------------------------------------------------------------
(* The difficult retailer. *)

\* 429, with a capped sleep, 5xx, a timeout or no connection.
RetailerRetries ==
  /\ Waiting("premium_retailer") /\ UNCHANGED token
  /\ \E reason \in {"other", "rate limit"} : Retry("request", reason)

\* Any other status, a page that says it is a block or an outage, a broken connection.
RetailerRefuses == Waiting("premium_retailer") /\ Raise("other") /\ UNCHANGED token

\* No containers for products; an empty body is an error like any other.
StructureChanged ==
  /\ Waiting("premium_retailer") /\ UNCHANGED token
  /\ \E reason \in {"structure", "other"} : Raise(reason)

RetailerAnswers == Waiting("premium_retailer") /\ \E page \in Page : Answer(page)

-----------------------------------------------------------------------------
(* The web retailer, which follows the links to next pages up to max_pages. *)

\* 429, 5xx, a timeout or no connection.
WebRetries == Waiting("web_retailer") /\ Retry("request", "other") /\ UNCHANGED token

WebRefuses == Waiting("web_retailer") /\ GiveUp("other") /\ UNCHANGED token

\* An empty body ends the pagination, and is an error on the first page.
Blank ==
  /\ Waiting("web_retailer") /\ UNCHANGED token
  /\ IF fetch.page = 1 THEN Raise("other") ELSE Return(fetch, FALSE)

NextPage_Slip ==
  /\ Waiting("web_retailer") /\ UNCHANGED token
  /\ \E page \in Page :
       CASE page.next = "none" \/ fetch.page > MaxPages -> Return(With(page), FALSE)
         [] page.next = "broken" /\ fetch.page <= MaxPages -> Raise("untyped")
         [] page.next = "good" /\ fetch.page <= MaxPages ->
              /\ fetch' = [With(page) EXCEPT !.page = @ + 1, !.attempt = 1, !.gets = @ + 1]
              /\ UNCHANGED <<adapter, metrics, tracker, clock, fresh, run>>
NextPage ==
  /\ Waiting("web_retailer") /\ UNCHANGED token
  /\ \E page \in Page :
       CASE page.next = "none" \/ fetch.page >= MaxPages -> Return(With(page), FALSE)
         [] page.next = "broken" /\ fetch.page < MaxPages -> Raise("untyped")
         [] page.next = "good" /\ fetch.page < MaxPages ->
              /\ fetch' = [With(page) EXCEPT !.page = @ + 1, !.attempt = 1, !.gets = @ + 1]
              /\ UNCHANGED <<adapter, metrics, tracker, clock, fresh, run>>

-----------------------------------------------------------------------------
(* Time, and the callers of health_assessment(). *)

Tick ==
  /\ clock < MaxTime
  /\ clock' = clock + 1
  /\ UNCHANGED <<adapter, token, fetch, metrics, tracker, fresh, run>>

AskHealth_Slip ==
  /\ adapter = "premium_retailer"
  /\ tracker' = [tracker EXCEPT !.age = clock - fresh]
  /\ UNCHANGED <<adapter, token, fetch, metrics, clock, fresh, run>>
AskHealth ==
  /\ adapter = "premium_retailer"
  /\ tracker' = [tracker EXCEPT !.age = IF fresh < 0 THEN Health!Never ELSE clock - fresh]
  /\ UNCHANGED <<adapter, token, fetch, metrics, clock, fresh, run>>

Next ==
  \/ Start \/ Tick \/ AskHealth
  \/ BestBuyFails \/ BestBuyLimits \/ BestBuyAnswers \/ FakeStoreFails \/ FakeStoreAnswers
  \/ Authenticate \/ EbayRetries \/ EbayFails \/ EbayRefuses \/ EbayPuzzles \/ EbayAnswers
  \/ RetailerRetries \/ RetailerRefuses \/ StructureChanged \/ RetailerAnswers
  \/ WebRetries \/ WebRefuses \/ Blank \/ NextPage

Spec == Init /\ [][Next]_vars

-----------------------------------------------------------------------------
(* Properties. *)

Counter == DOMAIN NoCounts

TypeOK ==
  /\ adapter \in Adapters /\ token \in BOOLEAN
  /\ fetch.step \in Steps
  /\ \A f \in DOMAIN Idle \ {"step"} : fetch[f] \in Nat
  /\ \A c \in Counter : metrics[c] \in Nat
  /\ tracker.outcomes \in Seq([success : BOOLEAN, events : Nat, records : Nat, malformed : Nat,
                               reason : Health!Reason])
  /\ tracker.empty \in Nat /\ tracker.age \in -1 .. MaxTime
  /\ clock \in 0 .. MaxTime /\ fresh \in -1 .. clock
  /\ run.clean \in Nat /\ run.failed \in Nat

\* Whatever the source answers, and wherever its links and its refusals lead, a fetch sends
\* a bounded number of requests: max_retries for a page, of which the web retailer has max_pages,
\* twice that for eBay with its second request, and a token request for each attempt besides
\* the first.
\* (web_retailer/client.py:188, ebay/client.py:178, web_retailer/adapter.py:100)
RequestsBounded ==
  /\ fetch.gets < CASE adapter = "web_retailer" -> MaxRetries * MaxPages
                    [] adapter = "premium_retailer" -> MaxRetries
                    [] adapter = "ebay" -> 2 * MaxRetries
                    [] OTHER -> 1
  /\ fetch.posts <= 1 + MaxRetries

\* The counters tell every fetch and every record once: an attempt ends as a success or a
\* failure, also when an exception of an unexpected type ends it; a record that was collected
\* was emitted or is malformed; and the tracker has heard of the fetches the counters tell of.
\* (source_metrics.py:161, difficult_retailer/adapter.py:80)
LedgerAddsUp ==
  /\ metrics.attempts = metrics.success + metrics.failure + (IF fetch = Idle THEN 0 ELSE 1)
  /\ metrics.timed = metrics.success + metrics.failure
  /\ adapter \in Scrapers => metrics.collected = metrics.emitted + metrics.malformed
  /\ fetch.total = fetch.events + fetch.malformed
  /\ adapter = "premium_retailer" =>
       LET ended == metrics.success + metrics.failure
       IN Len(tracker.outcomes) = IF ended < MaxHistory THEN ended ELSE MaxHistory

\* The assessment follows the source: after a whole history of clean fetches nothing but an
\* old freshness age can be held against it, and after a whole history of failures it is not
\* called healthy.  (health_assessment.py:224, :336)
HealthFollows ==
  LET verdict == Health!Assess(tracker.outcomes, tracker.empty, tracker.age)
  IN adapter = "premium_retailer" =>
       /\ run.clean >= MaxHistory => verdict \in {"healthy", "stale"}
       /\ run.failed >= MaxHistory => verdict \in {"unreachable", "rate_limited", "structurally_changed"}
=============================================================================
