------------------------- MODULE SourceFetchProofs -------------------------
(***************************************************************************)
(* Proofs about SourceFetch, for every set of pages, number of retries and *)
(* of pages, and whatever thresholds the assessor has.                     *)
(*                                                                         *)
(* How many requests a fetch may still send depends on where it is: on the *)
(* page and the attempt in hand and, for eBay, on whether the answer it    *)
(* waits for is that of the second request of an attempt (Spent).          *)
(*                                                                         *)
(* What the assessor says of a source follows its fetches because the      *)
(* tracker's bounded history is the end of what happened: a run of clean   *)
(* or failed fetches fills it from behind, or fills it whole (Remembers).  *)
(***************************************************************************)
EXTENDS SourceFetch, FiniteSetTheorems, SequenceTheorems, WellFoundedInduction, TLAPS

FetchType == [step : Steps, page : Nat, attempt : Nat, gets : Nat, posts : Nat,
              events : Nat, malformed : Nat, total : Nat, pages : Nat]
CountsType == [attempts : Nat, success : Nat, failure : Nat, collected : Nat, emitted : Nat,
               empty : Nat, pages : Nat, retries : Nat, malformed : Nat, partial : Nat, timed : Nat]
OutcomeType == [success : BOOLEAN, events : Nat, records : Nat, malformed : Nat,
                reason : Health!Reason]
TrackerType == [outcomes : Seq(OutcomeType), empty : Nat, age : -1 .. MaxTime]

Types ==
  /\ adapter \in Adapters /\ token \in BOOLEAN
  /\ fetch \in FetchType /\ metrics \in CountsType /\ tracker \in TrackerType
  /\ clock \in 0 .. MaxTime /\ fresh \in -1 .. clock
  /\ run \in [clean : Nat, failed : Nat]

\* Without a step there is no fetch, only eBay's has more than one kind of request, and only
\* the web retailer's has more than one page.
InHand ==
  /\ fetch.step = "idle" => fetch = Idle
  /\ adapter # "ebay" => fetch.step \in {"idle", "request"} /\ fetch.posts = 0
  /\ adapter # "web_retailer" => fetch.page = 1
  /\ fetch.page = 1 => fetch.events = 0

Renewed == IF fetch.step = "again request" THEN 1 ELSE 0
Again == IF fetch.step \in {"again auth", "again request"} THEN 1 ELSE 0

\* The requests that page and attempt account for.
Spent ==
  /\ fetch.attempt \in 1 .. MaxRetries
  /\ fetch.page \in 1 .. MaxPages
  /\ fetch.gets <= CASE adapter = "web_retailer" -> (fetch.page - 1) * MaxRetries + fetch.attempt - 1
                     [] adapter = "premium_retailer" -> fetch.attempt - 1
                     [] adapter = "ebay" -> 2 * (fetch.attempt - 1) + Again
                     [] OTHER -> 0
  /\ fetch.step = "auth" => fetch.posts = 0
  /\ fetch.posts <= fetch.attempt + Renewed

IInv == Types /\ InHand /\ Spent /\ LedgerAddsUp

-----------------------------------------------------------------------------
(* What an article adds, and what the tracker keeps. *)

LEMMA Thresholds == MaxHistory \in Nat \ {0}
BY ThresholdAssumption DEF Health!Thresholds

LEMMA CountType ==
  ASSUME NEW page \in Page, NEW class
  PROVE  Count(page, class) \in Nat
<1> DEFINE D == DOMAIN page.articles
           C == {i \in D : Parsed(page.articles[i]) = class}
<1>1. page.articles \in Seq(Article)
  BY PageAssumption
<1>2. IsFiniteSet(D)
  <2>1. D = 1 .. Len(page.articles) /\ Len(page.articles) \in Nat
    BY <1>1
  <2> QED BY <2>1, FS_Interval
<1>3. C \in SUBSET D
  OBVIOUS
<1> HIDE DEF C, D
<1>4. IsFiniteSet(C)
  BY <1>2, <1>3, FS_Subset
<1>5. Cardinality(C) \in Nat
  BY <1>4, FS_CardinalityType
<1> QED BY <1>5 DEF Count, C, D

LEMMA RecordedType ==
  ASSUME NEW outcomes \in Seq(OutcomeType), NEW outcome \in OutcomeType,
         NEW ended \in Nat,
         Len(outcomes) = IF ended < MaxHistory THEN ended ELSE MaxHistory
  PROVE  /\ Health!Recorded(outcomes, outcome) \in Seq(OutcomeType)
         /\ Len(Health!Recorded(outcomes, outcome))
              = IF ended + 1 < MaxHistory THEN ended + 1 ELSE MaxHistory
<1> DEFINE longer == Append(outcomes, outcome)
           from == Len(longer) - MaxHistory + 1
<1>1. /\ longer \in Seq(OutcomeType) /\ Len(longer) = Len(outcomes) + 1 /\ Len(longer) \in Nat
      /\ \A i \in 1 .. Len(longer) : longer[i] \in OutcomeType
  OBVIOUS
<1> HIDE DEF longer
<1>2. CASE Len(longer) > MaxHistory
  <2>1. from \in 1 .. Len(longer)
    BY <1>1, <1>2, Thresholds
  <2> HIDE DEF from
  <2>2. \A i \in from .. Len(longer) : longer[i] \in OutcomeType
    BY <1>1, <2>1
  <2>3. /\ SubSeq(longer, from, Len(longer)) \in Seq(OutcomeType)
        /\ Len(SubSeq(longer, from, Len(longer))) = Len(longer) - from + 1
    BY <1>1, <2>1, <2>2, SubSeqProperties
  <2>4. Health!Recorded(outcomes, outcome) = SubSeq(longer, from, Len(longer))
    BY <1>2 DEF Health!Recorded, longer, from
  <2> QED BY <1>1, <1>2, <2>3, <2>4, Thresholds DEF from
<1>3. CASE ~(Len(longer) > MaxHistory)
  BY <1>1, <1>3, Thresholds DEF Health!Recorded, longer
<1> QED BY <1>2, <1>3

LEMMA IdleType == Idle \in FetchType /\ Idle.step = "idle" /\ Idle.page = 1 /\ Idle.attempt = 1
                  /\ Idle.gets = 0 /\ Idle.posts = 0 /\ Idle.events = 0 /\ Idle.total = Idle.events + Idle.malformed
BY DEF Idle, FetchType, Steps

\* Nothing is spent while there is no fetch.
LEMMA IdleSpent == ASSUME fetch = Idle PROVE InHand /\ Spent
<1>1. (1 - 1) * MaxRetries = 0 /\ 1 \in 1 .. MaxRetries /\ 1 \in 1 .. MaxPages
  BY LimitAssumption
<1>2. InHand
  BY IdleType DEF InHand
<1>3. fetch = Idle => Again = 0 /\ (fetch.page - 1) * MaxRetries + fetch.attempt - 1 = 0
  BY <1>1, IdleType DEF Again
<1>4. fetch = Idle => Spent
  BY <1>1, <1>3, IdleType DEF Spent, Renewed
<1> QED BY <1>2, <1>4

LEMMA HeldFetch == fetch.step # "idle" => fetch # Idle
BY IdleType

\* Every counter is a number.
LEMMA CountsOf ==
  ASSUME NEW m \in CountsType
  PROVE  /\ m.attempts \in Nat /\ m.success \in Nat /\ m.failure \in Nat /\ m.collected \in Nat
         /\ m.emitted \in Nat /\ m.empty \in Nat /\ m.pages \in Nat /\ m.retries \in Nat
         /\ m.malformed \in Nat /\ m.partial \in Nat /\ m.timed \in Nat
BY DEF CountsType

-----------------------------------------------------------------------------
(* The ways out of a request. *)

LEMMA TrackKeeps ==
  ASSUME IInv, fetch # Idle, NEW outcome \in OutcomeType, Track(outcome)
  PROVE  /\ tracker' \in TrackerType
         /\ adapter = "premium_retailer" =>
              LET ended == metrics.success + metrics.failure + 1
              IN Len(tracker'.outcomes) = IF ended < MaxHistory THEN ended ELSE MaxHistory
<1> DEFINE ended == metrics.success + metrics.failure
           recorded == Health!Recorded(tracker.outcomes, outcome)
           empty == Health!EmptyAfter(tracker.empty, outcome)
<1>1. ended \in Nat /\ tracker \in TrackerType
  BY DEF IInv, Types, CountsType
<1>2. empty \in Nat
  BY <1>1 DEF Health!EmptyAfter, TrackerType, OutcomeType
<1>3. CASE adapter # "premium_retailer"
  BY <1>1, <1>3 DEF Track
<1>4. CASE adapter = "premium_retailer"
  <2>1. Len(tracker.outcomes) = IF ended < MaxHistory THEN ended ELSE MaxHistory
    BY <1>4 DEF IInv, LedgerAddsUp
  <2>2. tracker.outcomes \in Seq(OutcomeType)
    BY <1>1 DEF TrackerType
  <2>3. /\ recorded \in Seq(OutcomeType)
        /\ Len(recorded) = IF ended + 1 < MaxHistory THEN ended + 1 ELSE MaxHistory
    BY <1>1, <2>1, <2>2, RecordedType
  <2>4. tracker' = [tracker EXCEPT !.outcomes = recorded, !.empty = empty]
    BY <1>4 DEF Track
  <2> HIDE DEF recorded, empty
  <2>5. tracker' \in TrackerType /\ tracker'.outcomes = recorded
    BY <1>1, <1>2, <2>3, <2>4 DEF TrackerType
  <2> QED BY <2>3, <2>5
<1> QED BY <1>3, <1>4

LEMMA RaiseKeeps ==
  ASSUME IInv, fetch # Idle, NEW reason \in Health!Reason \cup {"untyped"}, Raise(reason),
         token' \in BOOLEAN
  PROVE  IInv'
<1> DEFINE outcome == Health!Failure(IF reason = "untyped" THEN "other" ELSE reason)
<1>1. outcome \in OutcomeType
  BY DEF Health!Failure, Health!Reason, OutcomeType
<1>2. /\ fetch' = Idle /\ UNCHANGED <<adapter, clock, fresh>>
      /\ metrics' = [metrics EXCEPT !.failure = @ + 1, !.timed = @ + 1]
      /\ run' = [clean |-> 0, failed |-> run.failed + 1] /\ Track(outcome)
  BY DEF Raise
<1> HIDE DEF outcome
<1>3. /\ tracker' \in TrackerType
      /\ adapter = "premium_retailer" =>
           LET ended == metrics.success + metrics.failure + 1
           IN Len(tracker'.outcomes) = IF ended < MaxHistory THEN ended ELSE MaxHistory
  BY <1>1, <1>2, TrackKeeps
<1>4. metrics \in CountsType /\ run.failed \in Nat
  BY DEF IInv, Types
<1>5. /\ metrics' \in CountsType /\ metrics'.failure = metrics.failure + 1
      /\ metrics'.timed = metrics.timed + 1 /\ metrics'.success = metrics.success
      /\ metrics'.attempts = metrics.attempts /\ metrics'.collected = metrics.collected
      /\ metrics'.emitted = metrics.emitted /\ metrics'.malformed = metrics.malformed
  <2>1. metrics' \in CountsType
    <3> DEFINE x == metrics.failure + 1
               y == metrics.timed + 1
    <3>1. x \in Nat /\ y \in Nat
      BY <1>4, CountsOf
    <3>2. metrics' = [metrics EXCEPT !.failure = x, !.timed = y]
      BY <1>2
    <3> HIDE DEF x, y
    <3> QED BY <3>1, <3>2, <1>4 DEF CountsType
  <2>2. metrics'.failure = metrics.failure + 1
    BY <1>2, <1>4 DEF CountsType
  <2>3. metrics'.timed = metrics.timed + 1
    BY <1>2, <1>4 DEF CountsType
  <2>4. /\ metrics'.success = metrics.success /\ metrics'.attempts = metrics.attempts
        /\ metrics'.collected = metrics.collected /\ metrics'.emitted = metrics.emitted
        /\ metrics'.malformed = metrics.malformed
    BY <1>2, <1>4 DEF CountsType
  <2> QED BY <2>1, <2>2, <2>3, <2>4
<1>6. Types'
  BY <1>2, <1>3, <1>4, <1>5, IdleType DEF IInv, Types
<1>7. LedgerAddsUp'
  <2>1. /\ metrics.attempts = metrics.success + metrics.failure + 1
        /\ metrics.timed = metrics.success + metrics.failure
        /\ adapter \in Scrapers => metrics.collected = metrics.emitted + metrics.malformed
    BY DEF IInv, LedgerAddsUp
  <2>2. /\ metrics'.attempts = metrics'.success + metrics'.failure + 0
        /\ metrics'.timed = metrics'.success + metrics'.failure
        /\ metrics'.success + metrics'.failure = metrics.success + metrics.failure + 1
    BY <2>1, <1>4, <1>5, CountsOf
  <2> QED BY <2>1, <2>2, <1>2, <1>3, <1>5, IdleType DEF LedgerAddsUp
<1>8. InHand' /\ Spent'
  BY <1>2, IdleType, LimitAssumption DEF InHand, Spent, Again, Renewed
<1> QED BY <1>6, <1>7, <1>8 DEF IInv

LEMMA ReturnKeeps ==
  ASSUME IInv, fetch # Idle, NEW got \in FetchType, got.total = got.events + got.malformed,
         NEW cut \in BOOLEAN, Return(got, cut), token' \in BOOLEAN
  PROVE  IInv'
<1> DEFINE outcome == Health!Success(got.events, got.total, got.malformed)
           scraper == adapter \in Scrapers
           partial == cut \/ (adapter = "premium_retailer" /\ got.malformed > 0)
           clean == Clean(got)
<1>1. /\ outcome \in OutcomeType
      /\ got.events \in Nat /\ got.total \in Nat /\ got.malformed \in Nat /\ got.pages \in Nat
  BY DEF Health!Success, Health!Reason, OutcomeType, FetchType
<1>2. metrics' = [metrics EXCEPT
       !.success = @ + 1, !.timed = @ + 1,
       !.collected = @ + got.total, !.emitted = @ + got.events,
       !.empty = IF got.total = 0 THEN @ + 1 ELSE @,
       !.pages = IF scraper THEN @ + got.pages ELSE @,
       !.malformed = IF scraper THEN @ + got.malformed ELSE @,
       !.partial = IF partial THEN @ + 1 ELSE @]
  BY DEF Return
<1>3. /\ fetch' = Idle /\ UNCHANGED <<adapter, clock>> /\ Track(outcome)
      /\ fresh' = IF got.events > 0 THEN clock ELSE fresh
      /\ run' = [clean |-> IF clean THEN run.clean + 1 ELSE 0, failed |-> 0]
  BY DEF Return
<1> HIDE DEF outcome, partial, clean
<1>4. /\ tracker' \in TrackerType
      /\ adapter = "premium_retailer" =>
           LET ended == metrics.success + metrics.failure + 1
           IN Len(tracker'.outcomes) = IF ended < MaxHistory THEN ended ELSE MaxHistory
  BY <1>1, <1>3, TrackKeeps
<1>5. /\ metrics \in CountsType /\ run.clean \in Nat /\ clock \in 0 .. MaxTime
      /\ fresh \in -1 .. clock
  BY DEF IInv, Types
<1> HIDE DEF scraper
<1>6. /\ metrics' \in CountsType /\ metrics'.failure = metrics.failure
      /\ metrics'.timed = metrics.timed + 1 /\ metrics'.success = metrics.success + 1
      /\ metrics'.attempts = metrics.attempts /\ metrics'.collected = metrics.collected + got.total
      /\ metrics'.emitted = metrics.emitted + got.events
      /\ scraper => metrics'.malformed = metrics.malformed + got.malformed
  <2> DEFINE n1 == metrics.success + 1
             n2 == metrics.timed + 1
             n3 == metrics.collected + got.total
             n4 == metrics.emitted + got.events
             n5 == IF got.total = 0 THEN metrics.empty + 1 ELSE metrics.empty
             n6 == IF scraper THEN metrics.pages + got.pages ELSE metrics.pages
             n7 == IF scraper THEN metrics.malformed + got.malformed ELSE metrics.malformed
             n8 == IF partial THEN metrics.partial + 1 ELSE metrics.partial
  <2>1. /\ n1 \in Nat /\ n2 \in Nat /\ n3 \in Nat /\ n4 \in Nat /\ n5 \in Nat /\ n6 \in Nat
        /\ n7 \in Nat /\ n8 \in Nat
    BY <1>1, <1>5, CountsOf
  <2>2. metrics' = [metrics EXCEPT !.success = n1, !.timed = n2, !.collected = n3, !.emitted = n4,
                                   !.empty = n5, !.pages = n6, !.malformed = n7, !.partial = n8]
    BY <1>2
  <2>3. scraper => n7 = metrics.malformed + got.malformed
    OBVIOUS
  <2> HIDE DEF n1, n2, n3, n4, n5, n6, n7, n8
  <2>4. metrics' \in CountsType
    BY <2>1, <2>2, <1>5 DEF CountsType
  <2>5. /\ metrics'.failure = metrics.failure /\ metrics'.attempts = metrics.attempts
        /\ metrics'.success = n1 /\ metrics'.timed = n2 /\ metrics'.collected = n3
        /\ metrics'.emitted = n4 /\ metrics'.malformed = n7
    BY <2>2, <1>5 DEF CountsType
  <2> QED BY <2>3, <2>4, <2>5 DEF n1, n2, n3, n4
<1>7. Types'
  <2>1. run' \in [clean : Nat, failed : Nat]
    BY <1>3, <1>5
  <2>2. fresh' \in -1 .. clock'
    BY <1>3, <1>5, LimitAssumption
  <2> QED BY <2>1, <2>2, <1>3, <1>4, <1>6, IdleType DEF IInv, Types
<1>8. LedgerAddsUp'
  <2>1. adapter \in Scrapers => metrics'.collected = metrics'.emitted + metrics'.malformed
    <3>1. scraper => metrics.collected = metrics.emitted + metrics.malformed
      BY DEF IInv, LedgerAddsUp, scraper
    <3> QED BY <3>1, <1>1, <1>3, <1>5, <1>6, CountsOf DEF scraper
  <2>2. /\ metrics.attempts = metrics.success + metrics.failure + 1
        /\ metrics.timed = metrics.success + metrics.failure
    BY DEF IInv, LedgerAddsUp
  <2>3. /\ metrics'.attempts = metrics'.success + metrics'.failure + 0
        /\ metrics'.timed = metrics'.success + metrics'.failure
        /\ metrics'.success + metrics'.failure = metrics.success + metrics.failure + 1
    BY <2>2, <1>5, <1>6, CountsOf
  <2> QED BY <2>1, <2>3, <1>3, <1>4, IdleType DEF LedgerAddsUp
<1>9. InHand' /\ Spent'
  BY <1>3, IdleType, LimitAssumption DEF InHand, Spent, Again, Renewed
<1> QED BY <1>7, <1>8, <1>9 DEF IInv

LEMMA GiveUpKeeps ==
  ASSUME IInv, fetch # Idle, NEW reason \in Health!Reason, GiveUp(reason), token' \in BOOLEAN
  PROVE  IInv'
<1>1. fetch \in FetchType /\ fetch.total = fetch.events + fetch.malformed
  BY DEF IInv, Types, LedgerAddsUp
<1>2. CASE fetch.page > 1
  BY <1>1, <1>2, ReturnKeeps DEF GiveUp
<1>3. CASE ~(fetch.page > 1)
  BY <1>3, RaiseKeeps DEF GiveUp
<1> QED BY <1>2, <1>3

\* While the fetch goes on, the counters of fetches and records wait.
LEMMA LedgerWaits ==
  ASSUME LedgerAddsUp, fetch # Idle, fetch' # Idle, UNCHANGED <<adapter, metrics, tracker>>,
         fetch'.total = fetch'.events + fetch'.malformed
  PROVE  LedgerAddsUp'
BY DEF LedgerAddsUp

\* The clients that try again.
Retries == Waiting(adapter) /\ adapter \in {"web_retailer", "premium_retailer", "ebay"}

\* An attempt more: the requests of those before it are all accounted for.
LEMMA RetryKeeps ==
  ASSUME IInv, Retries, NEW reason \in Health!Reason, Retry("request", reason), token' \in BOOLEAN
  PROVE  IInv'
<1>1. fetch # Idle
  BY HeldFetch DEF Retries, Waiting
<1>2. CASE fetch.attempt < MaxRetries
  <2> DEFINE k == fetch.attempt + 1
             g == fetch.gets + 1
             r == IF adapter \in Scrapers THEN metrics.retries + 1 ELSE metrics.retries
  <2>1. fetch \in FetchType /\ metrics \in CountsType
    BY DEF IInv, Types
  <2>2. fetch' = [fetch EXCEPT !.step = "request", !.attempt = k, !.gets = g]
    BY <1>2 DEF Retry
  <2>3. metrics' = [metrics EXCEPT !.retries = r] /\ UNCHANGED <<adapter, tracker, clock, fresh, run>>
    <3>1. metrics = [metrics EXCEPT !.retries = metrics.retries]
      BY <2>1 DEF CountsType
    <3> QED BY <3>1, <1>2 DEF Retry
  <2>4. k \in Nat /\ g \in Nat /\ r \in Nat
    <3>1. fetch.attempt \in Nat /\ fetch.gets \in Nat
      BY <2>1 DEF FetchType
    <3>2. metrics.retries \in Nat
      BY <2>1, CountsOf
    <3> QED BY <3>1, <3>2
  <2> HIDE DEF r
  <2>5. metrics' \in CountsType
    BY <2>1, <2>3, <2>4 DEF CountsType
  <2>6. /\ metrics'.attempts = metrics.attempts /\ metrics'.success = metrics.success
        /\ metrics'.failure = metrics.failure /\ metrics'.timed = metrics.timed
        /\ metrics'.collected = metrics.collected /\ metrics'.emitted = metrics.emitted
        /\ metrics'.malformed = metrics.malformed
    BY <2>1, <2>3 DEF CountsType
  <2>7. fetch' \in FetchType
    <3> HIDE DEF k, g
    <3> QED BY <2>1, <2>2, <2>4 DEF FetchType, Steps
  <2>8. /\ fetch'.step = "request" /\ fetch'.attempt = fetch.attempt + 1
        /\ fetch'.gets = fetch.gets + 1 /\ fetch'.page = fetch.page /\ fetch'.posts = fetch.posts
        /\ fetch'.total = fetch.total /\ fetch'.events = fetch.events
        /\ fetch'.malformed = fetch.malformed
    BY <2>1, <2>2 DEF FetchType
  <2>9. Types' /\ InHand'
    BY <2>3, <2>5, <2>7, <2>8 DEF IInv, Types, InHand
  <2>10. LedgerAddsUp'
    <3>1. fetch' # Idle
      BY <2>8, IdleType
    <3> QED BY <3>1, <1>1, <2>3, <2>6, <2>8 DEF IInv, LedgerAddsUp
  <2>11. Spent'
    <3> DEFINE base == (fetch.page - 1) * MaxRetries
    <3>1. fetch.attempt \in Nat /\ fetch.gets \in Nat /\ fetch.posts \in Nat
      BY <2>1 DEF FetchType
    <3>2. fetch.attempt \in 1 .. MaxRetries /\ fetch.page \in 1 .. MaxPages
          /\ MaxRetries \in Nat /\ MaxPages \in Nat /\ fetch.page \in Nat
      BY LimitAssumption DEF IInv, Spent, Types, FetchType
    <3>3. base \in Nat
      BY <3>2
    <3>4. fetch'.attempt \in 1 .. MaxRetries /\ fetch'.page \in 1 .. MaxPages
      BY <3>2, <2>8, <1>2
    <3>5. fetch'.posts <= fetch'.attempt + Renewed'
      <4>1. fetch.posts <= fetch.attempt + 1
        <5>1. fetch.posts <= fetch.attempt + Renewed
          BY DEF IInv, Spent
        <5>2. Renewed \in {0, 1}
          BY DEF Renewed
        <5> QED BY <5>1, <5>2, <3>1
      <4>2. Renewed' = 0
        BY <2>8 DEF Renewed
      <4> QED BY <4>1, <4>2, <3>1, <2>8
    <3>6. (fetch'.page - 1) * MaxRetries = base
      BY <2>8
    <3> HIDE DEF base
    <3>7. CASE adapter = "web_retailer"
      <4>1. fetch.gets <= base + fetch.attempt - 1
        BY <3>7 DEF IInv, Spent, base
      <4>2. fetch'.gets <= base + fetch'.attempt - 1
        BY <4>1, <3>1, <3>3, <2>8
      <4> QED BY <4>2, <3>4, <3>5, <3>6, <3>7, <2>3, <2>8 DEF Spent
    <3>8. CASE adapter = "premium_retailer"
      <4>1. fetch.gets <= fetch.attempt - 1
        BY <3>8 DEF IInv, Spent
      <4>2. fetch'.gets <= fetch'.attempt - 1
        BY <4>1, <3>1, <2>8
      <4> QED BY <4>2, <3>4, <3>5, <3>8, <2>3, <2>8 DEF Spent
    <3>9. CASE adapter = "ebay"
      <4>1. fetch.gets <= 2 * (fetch.attempt - 1) + Again
        BY <3>9 DEF IInv, Spent
      <4>2. Again \in {0, 1} /\ Again' = 0
        BY <2>8 DEF Again
      <4>3. fetch'.gets <= 2 * (fetch'.attempt - 1) + Again'
        BY <4>1, <4>2, <3>1, <2>8
      <4> QED BY <4>3, <3>4, <3>5, <3>9, <2>3, <2>8 DEF Spent
    <3> QED BY <3>7, <3>8, <3>9 DEF Retries
  <2> QED BY <2>9, <2>10, <2>11 DEF IInv
<1>3. CASE ~(fetch.attempt < MaxRetries)
  BY <1>1, <1>3, GiveUpKeeps DEF Retry
<1> QED BY <1>2, <1>3

\* What a page leaves in the fetch.
LEMMA WithType ==
  ASSUME IInv, NEW page \in Page
  PROVE  /\ With(page) \in FetchType /\ With(page).total = With(page).events + With(page).malformed
         /\ With(page).step = fetch.step /\ With(page).page = fetch.page
         /\ With(page).attempt = fetch.attempt /\ With(page).gets = fetch.gets
         /\ With(page).posts = fetch.posts
<1> DEFINE good == Count(page, "event")
           unmapped == Count(page, "unmapped")
           bad == Count(page, "bad")
           n1 == fetch.events + good
           n2 == fetch.malformed + unmapped + bad
           n3 == fetch.total + (good + unmapped) + bad
           n4 == fetch.pages + 1
<1>1. good \in Nat /\ unmapped \in Nat /\ bad \in Nat
  BY CountType
<1>2. With(page) = [fetch EXCEPT !.events = n1, !.malformed = n2, !.total = n3, !.pages = n4]
  BY DEF With
<1> HIDE DEF good, unmapped, bad
<1>3. fetch \in FetchType /\ fetch.total = fetch.events + fetch.malformed
  BY DEF IInv, Types, LedgerAddsUp
<1>4. /\ fetch.events \in Nat /\ fetch.malformed \in Nat /\ fetch.total \in Nat
      /\ fetch.pages \in Nat
  BY <1>3 DEF FetchType
<1>5. n1 \in Nat /\ n2 \in Nat /\ n3 \in Nat /\ n4 \in Nat /\ n3 = n1 + n2
  BY <1>1, <1>3, <1>4
<1> HIDE DEF n1, n2, n3, n4
<1>6. With(page) \in FetchType
  BY <1>2, <1>3, <1>5 DEF FetchType
<1>7. /\ With(page).total = n3 /\ With(page).events = n1 /\ With(page).malformed = n2
      /\ With(page).step = fetch.step /\ With(page).page = fetch.page
      /\ With(page).attempt = fetch.attempt /\ With(page).gets = fetch.gets
      /\ With(page).posts = fetch.posts
  BY <1>2, <1>3 DEF FetchType
<1> QED BY <1>5, <1>6, <1>7

LEMMA AnswerKeeps ==
  ASSUME IInv, fetch # Idle, NEW page \in Page, Answer(page)
  PROVE  IInv'
<1>1. Return(With(page), FALSE) /\ token' \in BOOLEAN
  BY DEF Answer, IInv, Types
<1> QED BY <1>1, WithType, ReturnKeeps

-----------------------------------------------------------------------------
(* The steps. *)

LEMMA StartKeeps == ASSUME IInv, Start PROVE IInv'
<1> DEFINE step == IF adapter = "ebay" /\ ~token THEN "auth" ELSE "request"
           n == metrics.attempts + 1
<1>1. /\ fetch = Idle /\ fetch' = [Idle EXCEPT !.step = step]
      /\ metrics' = [metrics EXCEPT !.attempts = n]
      /\ UNCHANGED <<adapter, token, tracker, clock, fresh, run>>
  BY DEF Start
<1>2. step \in {"auth", "request"} /\ (adapter # "ebay" => step = "request")
  OBVIOUS
<1> HIDE DEF step
<1>3. metrics \in CountsType
  BY DEF IInv, Types
<1>4. n \in Nat
  BY <1>3, CountsOf
<1> HIDE DEF n
<1>5. metrics' \in CountsType
  BY <1>1, <1>3, <1>4 DEF CountsType
<1>6. /\ metrics'.attempts = n /\ metrics'.success = metrics.success
      /\ metrics'.failure = metrics.failure /\ metrics'.timed = metrics.timed
      /\ metrics'.collected = metrics.collected /\ metrics'.emitted = metrics.emitted
      /\ metrics'.malformed = metrics.malformed
  BY <1>1, <1>3 DEF CountsType
<1>7. /\ fetch'.step = step /\ fetch'.page = 1 /\ fetch'.attempt = 1 /\ fetch'.gets = 0
      /\ fetch'.posts = 0 /\ fetch'.events = 0 /\ fetch'.total = fetch'.events + fetch'.malformed
  BY <1>1 DEF Idle
<1>8. fetch' \in FetchType
  BY <1>1, <1>2 DEF Idle, FetchType, Steps
<1>9. Types'
  BY <1>1, <1>5, <1>8 DEF IInv, Types
<1>10. InHand'
  BY <1>1, <1>2, <1>7 DEF InHand
<1>11. Spent'
  <2>1. (1 - 1) * MaxRetries = 0 /\ 1 \in 1 .. MaxRetries /\ 1 \in 1 .. MaxPages
    BY LimitAssumption
  <2>2. Again' = 0 /\ Renewed' = 0
    BY <1>2, <1>7 DEF Again, Renewed
  <2>3. (fetch'.page - 1) * MaxRetries + fetch'.attempt - 1 = 0
    BY <2>1, <1>7
  <2> QED BY <2>1, <2>2, <2>3, <1>7 DEF Spent
<1>12. LedgerAddsUp'
  <2>1. fetch' # Idle
    BY <1>2, <1>7, IdleType
  <2>2. /\ metrics.attempts = metrics.success + metrics.failure + 0
        /\ metrics.timed = metrics.success + metrics.failure
        /\ adapter \in Scrapers => metrics.collected = metrics.emitted + metrics.malformed
    BY <1>1 DEF IInv, LedgerAddsUp
  <2>3. metrics'.attempts = metrics'.success + metrics'.failure + 1
    BY <2>2, <1>3, <1>6, CountsOf DEF n
  <2> QED BY <2>1, <2>2, <2>3, <1>1, <1>6, <1>7 DEF IInv, LedgerAddsUp
<1> QED BY <1>9, <1>10, <1>11, <1>12 DEF IInv

LEMMA ClocksKeep == ASSUME IInv, Tick \/ AskHealth PROVE IInv'
<1>1. UNCHANGED <<adapter, token, fetch, metrics, fresh, run>>
  BY DEF Tick, AskHealth
<1>2. /\ tracker \in TrackerType /\ clock \in 0 .. MaxTime /\ fresh \in -1 .. clock
      /\ MaxTime \in Nat
  BY LimitAssumption DEF IInv, Types
<1>3. /\ clock' \in 0 .. MaxTime /\ fresh' \in -1 .. clock' /\ tracker' \in TrackerType
      /\ tracker'.outcomes = tracker.outcomes
  <2>1. CASE Tick
    BY <2>1, <1>2 DEF Tick
  <2>2. CASE AskHealth
    <3> DEFINE age == IF fresh < 0 THEN Health!Never ELSE clock - fresh
    <3>1. age \in -1 .. MaxTime
      BY <1>2 DEF Health!Never
    <3>2. tracker' = [tracker EXCEPT !.age = age] /\ UNCHANGED <<clock, fresh>>
      BY <2>2 DEF AskHealth
    <3> HIDE DEF age
    <3> QED BY <3>1, <3>2, <1>2 DEF TrackerType
  <2> QED BY <2>1, <2>2
<1>4. Types'
  BY <1>1, <1>3 DEF IInv, Types
<1>5. InHand' /\ Spent' /\ LedgerAddsUp'
  BY <1>1, <1>3 DEF IInv, InHand, Spent, Again, Renewed, LedgerAddsUp
<1> QED BY <1>4, <1>5 DEF IInv

\* A token comes, and the request of the attempt follows.
LEMMA AuthenticateKeeps == ASSUME IInv, Authenticate PROVE IInv'
<1>1. fetch # Idle /\ token' \in BOOLEAN
  BY HeldFetch DEF Authenticate, IInv, Types
<1>2. CASE \E reason \in {"other", "untyped"} : Raise(reason) /\ UNCHANGED token
  BY <1>1, <1>2, RaiseKeeps DEF Health!Reason
<1>3. CASE /\ token' = TRUE
           /\ fetch' = [fetch EXCEPT !.posts = @ + 1,
                                    !.step = IF @ = "auth" THEN "request" ELSE "again request"]
           /\ UNCHANGED <<adapter, metrics, tracker, clock, fresh, run>>
  <2> DEFINE n == fetch.posts + 1
             step == IF fetch.step = "auth" THEN "request" ELSE "again request"
  <2>1. fetch \in FetchType
    BY DEF IInv, Types
  <2>2. fetch' = [fetch EXCEPT !.posts = n, !.step = step]
    BY <1>3
  <2>3. n \in Nat /\ fetch.posts \in Nat /\ fetch.attempt \in Nat
    BY <2>1 DEF FetchType
  <2>4. \/ fetch.step = "auth" /\ step = "request"
        \/ fetch.step = "again auth" /\ step = "again request"
    BY DEF Authenticate
  <2> HIDE DEF n, step
  <2>5. fetch' \in FetchType
    BY <2>1, <2>2, <2>3, <2>4 DEF FetchType, Steps
  <2>6. fetch'.step = step
    BY <2>1, <2>2 DEF FetchType
  <2>7. /\ fetch'.posts = n /\ fetch'.page = fetch.page /\ fetch'.attempt = fetch.attempt
        /\ fetch'.gets = fetch.gets /\ fetch'.total = fetch.total /\ fetch'.events = fetch.events
        /\ fetch'.malformed = fetch.malformed
    BY <2>1, <2>2 DEF FetchType
  <2>8. Types'
    BY <1>3, <2>5 DEF IInv, Types
  <2>9. InHand'
    BY <1>3, <2>4, <2>6, <2>7 DEF IInv, InHand
  <2>10. Again' = Again
    BY <2>4, <2>6 DEF Again
  <2>11. fetch'.posts <= fetch'.attempt + Renewed'
    <3>1. CASE fetch.step = "auth"
      <4>1. fetch.posts = 0 /\ fetch.attempt \in 1 .. MaxRetries /\ MaxRetries \in Nat
        BY <3>1, LimitAssumption DEF IInv, Spent
      <4>2. Renewed' = 0
        BY <3>1, <2>4, <2>6 DEF Renewed
      <4>3. fetch'.posts = 1
        BY <4>1, <2>7 DEF n
      <4> QED BY <4>1, <4>2, <4>3, <2>3, <2>7
    <3>2. CASE fetch.step = "again auth"
      <4>1. fetch.posts <= fetch.attempt + Renewed
        BY DEF IInv, Spent
      <4>2. Renewed = 0 /\ Renewed' = 1
        BY <3>2, <2>4, <2>6 DEF Renewed
      <4> QED BY <4>1, <4>2, <2>3, <2>7 DEF n
    <3> QED BY <3>1, <3>2, <2>4
  <2>12. Spent'
    <3>1. fetch'.step # "auth"
      BY <2>4, <2>6
    <3> QED BY <3>1, <1>3, <2>7, <2>10, <2>11 DEF IInv, Spent
  <2>13. LedgerAddsUp'
    <3>1. fetch' # Idle
      BY <2>4, <2>6, IdleType
    <3> QED BY <3>1, <1>1, <1>3, <2>7, LedgerWaits DEF IInv, LedgerAddsUp
  <2> QED BY <2>8, <2>9, <2>12, <2>13 DEF IInv
<1> QED BY <1>2, <1>3 DEF Authenticate

\* The first request of an attempt is refused, and makes room for the second.
LEMMA RefusedKeeps == ASSUME IInv, EbayRefuses PROVE IInv'
<1> DEFINE n == fetch.gets + 1
<1>1. /\ adapter = "ebay" /\ fetch.step = "request" /\ token' = FALSE
      /\ fetch' = [fetch EXCEPT !.step = "again auth", !.gets = n]
      /\ UNCHANGED <<adapter, metrics, tracker, clock, fresh, run>>
  BY DEF EbayRefuses
<1>2. fetch \in FetchType
  BY DEF IInv, Types
<1>3. n \in Nat /\ fetch.gets \in Nat /\ fetch.attempt \in Nat /\ fetch.posts \in Nat
  BY <1>2 DEF FetchType
<1> HIDE DEF n
<1>4. fetch' \in FetchType
  BY <1>1, <1>2, <1>3 DEF FetchType, Steps
<1>5. fetch'.step = "again auth"
  BY <1>1, <1>2 DEF FetchType
<1>6. /\ fetch'.gets = n /\ fetch'.page = fetch.page /\ fetch'.attempt = fetch.attempt
      /\ fetch'.posts = fetch.posts /\ fetch'.total = fetch.total /\ fetch'.events = fetch.events
      /\ fetch'.malformed = fetch.malformed
  BY <1>1, <1>2 DEF FetchType
<1>7. Types'
  BY <1>1, <1>4 DEF IInv, Types
<1>8. InHand'
  BY <1>1, <1>5, <1>6 DEF IInv, InHand
<1>9. Spent'
  <2>1. /\ fetch.gets <= 2 * (fetch.attempt - 1) + Again
        /\ fetch.posts <= fetch.attempt + Renewed
    BY <1>1 DEF IInv, Spent
  <2>2. Again = 0 /\ Again' = 1 /\ Renewed = 0 /\ Renewed' = 0
    BY <1>1, <1>5 DEF Again, Renewed
  <2>3. fetch'.gets <= 2 * (fetch'.attempt - 1) + Again' /\ fetch'.posts <= fetch'.attempt + Renewed'
    BY <2>1, <2>2, <1>3, <1>6 DEF n
  <2>4. fetch'.attempt \in 1 .. MaxRetries /\ fetch'.page \in 1 .. MaxPages
    BY <1>6 DEF IInv, Spent
  <2> QED BY <2>3, <2>4, <1>1, <1>5 DEF Spent
<1>10. LedgerAddsUp'
  <2>1. fetch # Idle /\ fetch' # Idle
    BY <1>1, <1>5, IdleType
  <2> QED BY <2>1, <1>1, <1>6, LedgerWaits DEF IInv, LedgerAddsUp
<1> QED BY <1>7, <1>8, <1>9, <1>10 DEF IInv

\* Of answers of another shape, what counts is one malformed record.
LEMMA PuzzleKeeps == ASSUME IInv, EbayPuzzles PROVE IInv'
<1>1. fetch # Idle /\ token' \in BOOLEAN
  BY HeldFetch DEF EbayPuzzles, Waiting, IInv, Types
<1>2. CASE Raise("untyped")
  BY <1>1, <1>2, RaiseKeeps
<1>3. CASE Return([fetch EXCEPT !.malformed = 1, !.total = 1], FALSE)
  <2> DEFINE got == [fetch EXCEPT !.malformed = 1, !.total = 1]
  <2>1. fetch \in FetchType
    BY DEF IInv, Types
  <2>2. got \in FetchType
    BY <2>1 DEF FetchType
  <2>3. got.malformed = 1 /\ got.total = 1 /\ got.events = 0
    <3>1. fetch.events = 0
      BY DEF EbayPuzzles, Waiting, IInv, InHand
    <3> QED BY <3>1, <2>1 DEF FetchType
  <2>4. Return(got, FALSE)
    BY <1>3
  <2> HIDE DEF got
  <2>5. got.total = got.events + got.malformed
    BY <2>3
  <2> QED BY <1>1, <2>2, <2>4, <2>5, ReturnKeeps
<1> QED BY <1>2, <1>3 DEF EbayPuzzles

\* The next page: what the pages before it may have cost is one attempt after another.
LEMMA NextPageKeeps == ASSUME IInv, NextPage PROVE IInv'
<1>1. fetch # Idle /\ token' \in BOOLEAN /\ adapter = "web_retailer"
  BY HeldFetch DEF NextPage, Waiting, IInv, Types
<1>2. ASSUME NEW page \in Page, Return(With(page), FALSE)
      PROVE  IInv'
  BY <1>1, <1>2, WithType, ReturnKeeps
<1>3. CASE Raise("untyped")
  BY <1>1, <1>3, RaiseKeeps
<1>4. ASSUME NEW page \in Page, fetch.page < MaxPages,
             fetch' = [With(page) EXCEPT !.page = @ + 1, !.attempt = 1, !.gets = @ + 1],
             UNCHANGED <<adapter, metrics, tracker, clock, fresh, run>>
      PROVE  IInv'
  <2> DEFINE got == With(page)
             p == fetch.page + 1
             g == fetch.gets + 1
             base == (fetch.page - 1) * MaxRetries
  <2>1. /\ got \in FetchType /\ got.total = got.events + got.malformed
        /\ got.step = fetch.step /\ got.page = fetch.page /\ got.gets = fetch.gets
        /\ got.posts = fetch.posts
    BY WithType
  <2> HIDE DEF got
  <2>2. fetch' = [got EXCEPT !.page = p, !.attempt = 1, !.gets = g]
    BY <1>4, <2>1 DEF got
  <2>3. /\ fetch.page \in 1 .. MaxPages /\ fetch.attempt \in 1 .. MaxRetries
        /\ MaxRetries \in Nat /\ MaxPages \in Nat /\ fetch.gets \in Nat /\ fetch.posts \in Nat
    BY LimitAssumption DEF IInv, Types, Spent, FetchType
  <2>4. p \in Nat /\ g \in Nat /\ p \in 1 .. MaxPages /\ p # 1
    BY <2>3, <1>4
  <2>5. fetch' \in FetchType
    <3> HIDE DEF p, g
    <3> QED BY <2>1, <2>2, <2>4 DEF FetchType
  <2>6. /\ fetch'.page = p /\ fetch'.attempt = 1 /\ fetch'.gets = g
        /\ fetch'.posts = fetch.posts /\ fetch'.step = fetch.step
        /\ fetch'.total = got.total /\ fetch'.events = got.events
        /\ fetch'.malformed = got.malformed
    <3> HIDE DEF p, g
    <3> QED BY <2>1, <2>2 DEF FetchType
  <2>7. Types'
    BY <1>1, <1>4, <2>5 DEF IInv, Types
  <2>8. fetch.step = "request"
    BY <1>1 DEF NextPage, Waiting, IInv, InHand
  <2>9. InHand'
    BY <1>1, <1>4, <2>4, <2>6, <2>8 DEF IInv, InHand
  <2>10. Spent'
    <3>1. fetch.gets <= base + fetch.attempt - 1
      BY <1>1 DEF IInv, Spent
    <3>2. base \in Nat /\ base + MaxRetries = (p - 1) * MaxRetries
      BY <2>3
    <3> HIDE DEF base, p
    <3>3. g <= (p - 1) * MaxRetries + 1 - 1
      BY <3>1, <3>2, <2>3
    <3>4. fetch.posts <= fetch.attempt + Renewed /\ Renewed = 0 /\ Renewed' = 0
      BY <2>6, <2>8 DEF IInv, Spent, Renewed
    <3>5. fetch'.posts <= fetch'.attempt + Renewed' /\ 1 \in 1 .. MaxRetries
      <4>1. fetch.posts = 0
        BY <1>1 DEF IInv, InHand
      <4> QED BY <4>1, <3>4, <2>3, <2>6
    <3> QED BY <3>3, <3>5, <1>1, <1>4, <2>4, <2>6, <2>8 DEF Spent
  <2>11. LedgerAddsUp'
    <3>1. fetch' # Idle
      BY <2>6, <2>8, IdleType
    <3> QED BY <3>1, <1>1, <1>4, <2>1, <2>6, LedgerWaits DEF IInv
  <2> QED BY <2>7, <2>9, <2>10, <2>11 DEF IInv
<1>5. PICK page \in Page :
        CASE page.next = "none" \/ fetch.page >= MaxPages -> Return(With(page), FALSE)
          [] page.next = "broken" /\ fetch.page < MaxPages -> Raise("untyped")
          [] page.next = "good" /\ fetch.page < MaxPages ->
               /\ fetch' = [With(page) EXCEPT !.page = @ + 1, !.attempt = 1, !.gets = @ + 1]
               /\ UNCHANGED <<adapter, metrics, tracker, clock, fresh, run>>
  BY DEF NextPage
<1>6. page.next \in {"none", "good", "broken"}
  BY PageAssumption
<1>7. fetch.page >= MaxPages <=> ~(fetch.page < MaxPages)
  BY LimitAssumption DEF IInv, Spent
<1>8. CASE page.next = "none" \/ fetch.page >= MaxPages
  <2>1. ~(page.next = "broken" /\ fetch.page < MaxPages) /\ ~(page.next = "good" /\ fetch.page < MaxPages)
    BY <1>7, <1>8
  <2>2. Return(With(page), FALSE)
    BY <1>5, <1>8, <2>1, Zenon
  <2> QED BY <1>2, <2>2
<1>9. CASE page.next = "broken" /\ fetch.page < MaxPages /\ ~(fetch.page >= MaxPages)
  BY <1>3, <1>5, <1>9
<1>10. CASE page.next = "good" /\ fetch.page < MaxPages /\ ~(fetch.page >= MaxPages)
  <2>1. page.next # "none" /\ page.next # "broken"
    BY <1>10
  <2> QED BY <1>4, <1>5, <1>10, <2>1
<1> QED BY <1>6, <1>7, <1>8, <1>9, <1>10

THEOREM IInvInit == Init => IInv
<1> SUFFICES ASSUME Init PROVE IInv
  OBVIOUS
<1>1. fetch = Idle /\ metrics = NoCounts
  BY DEF Init
<1>2. NoCounts \in CountsType /\ \A c \in DOMAIN NoCounts : NoCounts[c] = 0
  BY DEF NoCounts, CountsType
<1>3. tracker \in TrackerType /\ Len(tracker.outcomes) = 0
  BY LimitAssumption DEF Init, TrackerType, Health!Never
<1>4. Types
  <2>1. fetch \in FetchType /\ metrics \in CountsType
    BY <1>1, <1>2, IdleType
  <2>2. clock \in 0 .. MaxTime /\ fresh \in -1 .. clock
    BY LimitAssumption DEF Init
  <2>3. run \in [clean : Nat, failed : Nat] /\ adapter \in Adapters /\ token \in BOOLEAN
    BY DEF Init
  <2> QED BY <1>3, <2>1, <2>2, <2>3 DEF Types
<1>5. InHand /\ Spent
  BY <1>1, IdleSpent
<1>6. LedgerAddsUp
  BY <1>1, <1>3, IdleType, Thresholds DEF LedgerAddsUp, NoCounts
<1> QED BY <1>4, <1>5, <1>6 DEF IInv

THEOREM IInvNext == IInv /\ [Next]_vars => IInv'
<1> SUFFICES ASSUME IInv, [Next]_vars PROVE IInv'
  OBVIOUS
<1> USE HeldFetch, RaiseKeeps, AnswerKeeps DEF Waiting, Health!Reason
<1>1. CASE Start
  BY <1>1, StartKeeps
<1>2. CASE Tick \/ AskHealth
  BY <1>2, ClocksKeep
<1>3. UNCHANGED token => token' \in BOOLEAN
  BY DEF IInv, Types
<1>4. CASE BestBuyFails \/ BestBuyLimits
  BY <1>3, <1>4 DEF BestBuyFails, BestBuyLimits
<1>5. CASE BestBuyAnswers
  BY <1>5 DEF BestBuyAnswers
<1>6. CASE FakeStoreFails
  BY <1>3, <1>6 DEF FakeStoreFails
<1>7. CASE FakeStoreAnswers
  BY <1>7 DEF FakeStoreAnswers
<1>8. CASE Authenticate
  BY <1>8, AuthenticateKeeps
<1>9. CASE EbayRetries
  BY <1>3, <1>9, RetryKeeps DEF EbayRetries, Retries
<1>10. CASE EbayFails
  BY <1>3, <1>10 DEF EbayFails
<1>11. CASE EbayRefuses
  BY <1>11, RefusedKeeps
<1>12. CASE EbayPuzzles
  BY <1>12, PuzzleKeeps
<1>13. CASE EbayAnswers
  BY <1>13 DEF EbayAnswers
<1>14. CASE RetailerRetries
  BY <1>3, <1>14, RetryKeeps DEF RetailerRetries, Retries
<1>15. CASE RetailerRefuses
  BY <1>3, <1>15 DEF RetailerRefuses
<1>16. CASE StructureChanged
  BY <1>3, <1>16 DEF StructureChanged
<1>17. CASE RetailerAnswers
  BY <1>17 DEF RetailerAnswers
<1>18. CASE WebRetries
  BY <1>3, <1>18, RetryKeeps DEF WebRetries, Retries
<1>19. CASE WebRefuses
  BY <1>3, <1>19, GiveUpKeeps DEF WebRefuses
<1>20. CASE Blank
  <2>1. fetch \in FetchType /\ fetch.total = fetch.events + fetch.malformed
    BY DEF IInv, Types, LedgerAddsUp
  <2> QED BY <2>1, <1>3, <1>20, ReturnKeeps DEF Blank
<1>21. CASE NextPage
  BY <1>21, NextPageKeeps
<1>22. CASE UNCHANGED vars
  BY <1>22 DEF vars, IInv, Types, InHand, Spent, Again, Renewed, LedgerAddsUp
<1> QED BY <1>1, <1>2, <1>4, <1>5, <1>6, <1>7, <1>8, <1>9, <1>10, <1>11, <1>12, <1>13, <1>14, <1>15,
          <1>16, <1>17, <1>18, <1>19, <1>20, <1>21, <1>22 DEF Next

THEOREM Invariance == Spec => []IInv
BY IInvInit, IInvNext, PTL DEF Spec

-----------------------------------------------------------------------------
(* What follows. *)

\* Every counter and every field of a fetch is a number, and the tracker's history is one of
\* outcomes, whatever a source has answered.
THEOREM TypeCorrect == Spec => []TypeOK
<1>1. ASSUME Types PROVE TypeOK
  <2>1. \A f \in DOMAIN Idle \ {"step"} : fetch[f] \in Nat
    BY <1>1 DEF Types, FetchType, Idle
  <2>2. \A c \in Counter : metrics[c] \in Nat
    BY <1>1 DEF Types, CountsType, Counter, NoCounts
  <2>3. fetch.step \in Steps
    BY <1>1 DEF Types, FetchType
  <2>4. /\ tracker.outcomes \in Seq([success : BOOLEAN, events : Nat, records : Nat, malformed : Nat,
                                     reason : Health!Reason])
        /\ tracker.empty \in Nat /\ tracker.age \in -1 .. MaxTime
    BY <1>1 DEF Types, TrackerType, OutcomeType
  <2> QED BY <1>1, <2>1, <2>2, <2>3, <2>4 DEF Types, TypeOK
<1> QED BY <1>1, Invariance, PTL DEF IInv

\* The attempts for a page, page after page.
LEMMA PagesOfAttempts ==
  ASSUME NEW R \in Nat, NEW P \in Nat, NEW a \in 1 .. R, NEW p \in 1 .. P
  PROVE  (p - 1) * R + a - 1 < R * P
<1>1. (p - 1) * R <= (P - 1) * R
  <2>1. (P - 1) * R = (p - 1) * R + (P - p) * R
    OBVIOUS
  <2>2. (P - p) * R >= 0 /\ (p - 1) * R \in Int /\ (P - p) * R \in Int
    OBVIOUS
  <2> QED BY <2>1, <2>2
<1>2. (P - 1) * R = R * P - R /\ (P - 1) * R \in Int /\ (p - 1) * R \in Int /\ R * P \in Int
  OBVIOUS
<1> QED BY <1>1, <1>2

\* A fetch sends a bounded number of requests, whatever the source answers and wherever its
\* links and its refusals lead.
\* (web_retailer/client.py:188, ebay/client.py:178, web_retailer/adapter.py:100)
THEOREM FewRequests == Spec => []RequestsBounded
<1>1. ASSUME IInv PROVE RequestsBounded
  <2>1. /\ fetch.gets \in Nat /\ fetch.posts \in Nat /\ MaxRetries \in Nat \ {0}
        /\ MaxPages \in Nat \ {0}
    BY <1>1, LimitAssumption DEF IInv, Types, FetchType
  <2>2. fetch.attempt \in 1 .. MaxRetries /\ fetch.page \in 1 .. MaxPages
    BY <1>1 DEF IInv, Spent
  <2>3. fetch.posts <= 1 + MaxRetries
    <3>1. fetch.posts <= fetch.attempt + Renewed
      BY <1>1 DEF IInv, Spent
    <3>2. Renewed \in {0, 1}
      BY DEF Renewed
    <3> QED BY <3>1, <3>2, <2>1, <2>2
  <2>4. CASE adapter = "web_retailer"
    <3>1. fetch.gets <= (fetch.page - 1) * MaxRetries + fetch.attempt - 1
      BY <1>1, <2>4 DEF IInv, Spent
    <3>2. (fetch.page - 1) * MaxRetries + fetch.attempt - 1 < MaxRetries * MaxPages
      BY <2>1, <2>2, PagesOfAttempts
    <3>3. (fetch.page - 1) * MaxRetries \in Int /\ MaxRetries * MaxPages \in Int
      BY <2>1, <2>2
    <3>4. fetch.gets < MaxRetries * MaxPages
      BY <3>1, <3>2, <3>3, <2>1, <2>2
    <3> QED BY <3>4, <2>3, <2>4 DEF RequestsBounded
  <2>5. CASE adapter = "premium_retailer"
    <3>1. fetch.gets <= fetch.attempt - 1
      BY <1>1, <2>5 DEF IInv, Spent
    <3>2. fetch.gets < MaxRetries
      BY <3>1, <2>1, <2>2
    <3> QED BY <3>2, <2>3, <2>5 DEF RequestsBounded
  <2>6. CASE adapter = "ebay"
    <3>1. fetch.gets <= 2 * (fetch.attempt - 1) + Again /\ Again \in {0, 1}
      BY <1>1, <2>6 DEF IInv, Spent, Again
    <3>2. fetch.gets < 2 * MaxRetries
      BY <3>1, <2>1, <2>2
    <3> QED BY <3>2, <2>3, <2>6 DEF RequestsBounded
  <2>7. CASE adapter \notin {"web_retailer", "premium_retailer", "ebay"}
    <3>1. fetch.gets <= 0
      BY <1>1, <2>7 DEF IInv, Spent
    <3>2. fetch.gets < 1
      BY <3>1, <2>1
    <3> QED BY <3>2, <2>3, <2>7 DEF RequestsBounded
  <2> QED BY <2>4, <2>5, <2>6, <2>7
<1> QED BY <1>1, Invariance, PTL

\* The counters tell every fetch and every record once, however a fetch has ended, and the
\* tracker has heard of the fetches they tell of.
\* (source_metrics.py:161, difficult_retailer/adapter.py:80)
THEOREM LedgerBalanced == Spec => []LedgerAddsUp
BY Invariance, PTL DEF IInv
-----------------------------------------------------------------------------
(* The sums of the assessor, by induction over the outcomes. *)

LEMMA Induction ==
  ASSUME NEW S, 0 \in S, \A n \in Nat : n \in S => n + 1 \in S
  PROVE  Nat \subseteq S
<1> SUFFICES ASSUME Nat \ S # {} PROVE FALSE
  OBVIOUS
<1>1. PICK i \in Nat \ S : \A j \in Nat \ S : ~(<<j, i>> \in OpToRel(<, Nat))
  BY NatLessThanWellFounded, WFMin
<1>2. ASSUME NEW j \in Nat \ S PROVE ~(j < i)
  <2>1. ~(<<j, i>> \in {ss \in Nat \X Nat : ss[1] < ss[2]})
    BY <1>1 DEF OpToRel
  <2> QED BY <2>1
<1>3. i # 0 /\ i - 1 \in Nat /\ (i - 1) + 1 = i
  OBVIOUS
<1>4. i - 1 \in S
  BY <1>2, <1>3
<1> QED BY <1>3, <1>4

\* The sum is over every outcome, and no recursion fails.
LEMMA SumExists ==
  ASSUME NEW o \in Seq(OutcomeType), NEW field \in {"records", "malformed"}, NEW m \in Nat
  PROVE  \E f : f = [n \in 0 .. m |-> IF n = 0 THEN 0 ELSE f[n - 1] + o[n][field]]
<1> DEFINE Sums(f, k) == f = [n \in 0 .. k |-> IF n = 0 THEN 0 ELSE f[n - 1] + o[n][field]]
           S == {k \in Nat : \E f : Sums(f, k)}
<1>1. 0 \in S
  <2>1. [n \in 0 .. 0 |-> 0]
          = [n \in 0 .. 0 |-> IF n = 0 THEN 0 ELSE [i \in 0 .. 0 |-> 0][n - 1] + o[n][field]]
    OBVIOUS
  <2> QED BY <2>1
<1>2. ASSUME NEW k \in Nat, k \in S PROVE k + 1 \in S
  <2>1. PICK f : f = [n \in 0 .. k |-> IF n = 0 THEN 0 ELSE f[n - 1] + o[n][field]]
    BY <1>2
  <2> DEFINE g == [n \in 0 .. k + 1 |-> IF n <= k THEN f[n] ELSE f[k] + o[n][field]]
  <2>2. ASSUME NEW n \in 0 .. k + 1
        PROVE  g[n] = IF n = 0 THEN 0 ELSE g[n - 1] + o[n][field]
    <3>1. CASE n = 0
      BY <2>1, <3>1
    <3>2. CASE n # 0 /\ n <= k
      <4>1. n - 1 \in 0 .. k /\ n \in 0 .. k
        BY <3>2
      <4> QED BY <2>1, <3>2, <4>1
    <3>3. CASE n = k + 1
      <4>1. n - 1 = k
        BY <3>3
      <4> QED BY <3>3, <4>1
    <3> QED BY <3>1, <3>2, <3>3
  <2>3. g = [n \in 0 .. k + 1 |-> g[n]]
    OBVIOUS
  <2>4. [n \in 0 .. k + 1 |-> g[n]]
          = [n \in 0 .. k + 1 |-> IF n = 0 THEN 0 ELSE g[n - 1] + o[n][field]]
    <3> HIDE DEF g
    <3> QED BY <2>2
  <2>5. g = [n \in 0 .. k + 1 |-> IF n = 0 THEN 0 ELSE g[n - 1] + o[n][field]]
    <3> HIDE DEF g
    <3> QED BY <2>3, <2>4
  <2>6. Sums(g, k + 1)
    <3> HIDE DEF g
    <3> QED BY <2>5
  <2> HIDE DEF Sums, g
  <2> QED BY <2>6
<1> HIDE DEF S
<1>3. m \in S
  BY <1>1, <1>2, Induction
<1> QED BY <1>3 DEF S

\* A field that every outcome keeps at 0 sums to 0, and one that none lets below a bound does
\* not sum to less.
LEMMA TotalOf ==
  ASSUME NEW o \in Seq(OutcomeType), NEW field \in {"records", "malformed"}, NEW least \in Nat,
         Len(o) > 0
  PROVE  /\ Health!Total(o, field) \in Nat
         /\ (\A n \in 1 .. Len(o) : o[n][field] = 0) => Health!Total(o, field) = 0
         /\ (\A n \in 1 .. Len(o) : o[n][field] >= least) => Health!Total(o, field) >= least
<1> DEFINE m == Len(o)
           sum == CHOOSE f : f = [n \in 0 .. m |-> IF n = 0 THEN 0 ELSE f[n - 1] + o[n][field]]
<1>1. m \in Nat /\ \A n \in 1 .. m : o[n][field] \in Nat
  <2>1. m \in Nat /\ \A n \in 1 .. m : o[n] \in OutcomeType
    OBVIOUS
  <2>2. \A x \in OutcomeType : x["records"] \in Nat /\ x["malformed"] \in Nat
    BY DEF OutcomeType
  <2>3. field = "records" \/ field = "malformed"
    OBVIOUS
  <2> HIDE DEF m
  <2> QED BY <2>1, <2>2, <2>3
<1>2. sum = [n \in 0 .. m |-> IF n = 0 THEN 0 ELSE sum[n - 1] + o[n][field]]
  BY <1>1, SumExists
<1>3. Health!Total(o, field) = sum[m]
  BY DEF Health!Total
<1> HIDE DEF sum, m
<1>4. sum[0] = 0 /\ \A n \in 1 .. m : sum[n] = sum[n - 1] + o[n][field]
  BY <1>1, <1>2
<1> DEFINE S == {n \in Nat : n <= m =>
                   /\ sum[n] \in Nat
                   /\ (\A k \in 1 .. m : o[k][field] = 0) => sum[n] = 0
                   /\ (\A k \in 1 .. m : o[k][field] >= least) /\ n > 0 => sum[n] >= least}
<1>5. 0 \in S
  BY <1>4
<1>6. ASSUME NEW n \in Nat, n \in S PROVE n + 1 \in S
  <2> SUFFICES ASSUME n + 1 <= m
               PROVE  /\ sum[n + 1] \in Nat
                      /\ (\A k \in 1 .. m : o[k][field] = 0) => sum[n + 1] = 0
                      /\ (\A k \in 1 .. m : o[k][field] >= least) => sum[n + 1] >= least
    OBVIOUS
  <2>1. n + 1 \in 1 .. m /\ n <= m
    BY <1>1
  <2>2. sum[n + 1] = sum[n] + o[n + 1][field]
    BY <1>4, <2>1
  <2>3. sum[n] \in Nat /\ o[n + 1][field] \in Nat
    BY <1>1, <1>6, <2>1
  <2>4. (\A k \in 1 .. m : o[k][field] = 0) => sum[n] = 0
    BY <1>6, <2>1
  <2> QED BY <2>1, <2>2, <2>3, <2>4
<1> HIDE DEF S
<1>7. m \in S
  BY <1>1, <1>5, <1>6, Induction
<1>8. m > 0
  BY DEF m
<1> QED BY <1>1, <1>3, <1>7, <1>8 DEF S, m

-----------------------------------------------------------------------------
(* The tracker remembers how the last fetches went. *)

CleanOutcome(o) == o.success /\ o.events > 0 /\ o.malformed = 0 /\ o.records >= MinExpected

Remembers ==
  adapter = "premium_retailer" =>
    LET o == tracker.outcomes
    IN /\ \A i \in 1 .. Len(o) : i > Len(o) - run.clean => CleanOutcome(o[i])
       /\ \A i \in 1 .. Len(o) : i > Len(o) - run.failed => ~o[i].success
       /\ run.clean > 0 => tracker.empty = 0
       /\ run.clean > 0 \/ run.failed > 0 => Len(o) > 0

\* The new outcome is the last, and the others keep their order.
LEMMA RecordedShifts ==
  ASSUME NEW o \in Seq(OutcomeType), NEW outcome \in OutcomeType
  PROVE  LET new == Health!Recorded(o, outcome)
         IN /\ Len(new) \in Nat \ {0} /\ Len(new) <= Len(o) + 1 /\ new[Len(new)] = outcome
            /\ \A i \in 1 .. Len(new) : i # Len(new) =>
                 /\ i + (Len(o) + 1 - Len(new)) \in 1 .. Len(o)
                 /\ new[i] = o[i + (Len(o) + 1 - Len(new))]
<1> DEFINE longer == Append(o, outcome)
           from == Len(longer) - MaxHistory + 1
           new == Health!Recorded(o, outcome)
<1>1. /\ Len(longer) = Len(o) + 1 /\ Len(o) \in Nat /\ longer[Len(o) + 1] = outcome
      /\ \A i \in 1 .. Len(o) : longer[i] = o[i]
      /\ \A i \in 1 .. Len(longer) : longer[i] \in OutcomeType
      /\ longer \in Seq(OutcomeType)
  OBVIOUS
<1> HIDE DEF longer
<1>2. CASE Len(longer) > MaxHistory
  <2>1. from \in 1 .. Len(longer) /\ Len(longer) - from + 1 = MaxHistory
    BY <1>1, <1>2, Thresholds
  <2>2. new = SubSeq(longer, from, Len(longer))
    BY <1>2 DEF Health!Recorded, longer
  <2>3. /\ Len(new) = MaxHistory
        /\ \A i \in 1 .. MaxHistory : new[i] = longer[from + i - 1]
    <3> HIDE DEF from, new
    <3>1. \A i \in from .. Len(longer) : longer[i] \in OutcomeType
      BY <1>1, <2>1
    <3> QED BY <1>1, <2>1, <2>2, <3>1, SubSeqProperties
  <2> HIDE DEF new
  <2>4. new[MaxHistory] = outcome
    BY <1>1, <2>3, Thresholds
  <2>5. ASSUME NEW i \in 1 .. MaxHistory, i # MaxHistory
        PROVE  /\ i + (Len(o) + 1 - MaxHistory) \in 1 .. Len(o)
               /\ new[i] = o[i + (Len(o) + 1 - MaxHistory)]
    <3>1. i + (Len(o) + 1 - MaxHistory) \in 1 .. Len(o) /\ from + i - 1 = i + (Len(o) + 1 - MaxHistory)
      BY <1>1, <1>2, <2>5, Thresholds
    <3> HIDE DEF from
    <3> QED BY <1>1, <2>3, <3>1
  <2>6. Len(new) \in Nat \ {0} /\ Len(new) <= Len(o) + 1
    BY <1>1, <1>2, <2>3, Thresholds
  <2> QED BY <2>3, <2>4, <2>5, <2>6 DEF new
<1>3. CASE ~(Len(longer) > MaxHistory)
  <2>1. new = longer
    BY <1>3 DEF Health!Recorded, longer
  <2> HIDE DEF new
  <2>2. \A i \in 1 .. Len(new) : i # Len(new) => i \in 1 .. Len(o) /\ i + (Len(o) + 1 - Len(new)) = i
    BY <1>1, <2>1
  <2> QED BY <1>1, <2>1, <2>2 DEF new
<1> QED BY <1>2, <1>3

LEMMA RaiseRemembers ==
  ASSUME IInv, Remembers, NEW reason \in Health!Reason \cup {"untyped"}, Raise(reason)
  PROVE  Remembers'
<1> DEFINE outcome == Health!Failure(IF reason = "untyped" THEN "other" ELSE reason)
           o == tracker.outcomes
           new == Health!Recorded(o, outcome)
<1>1. outcome \in OutcomeType /\ ~outcome.success
  BY DEF Health!Failure, Health!Reason, OutcomeType
<1>2. Track(outcome) /\ adapter' = adapter /\ run' = [clean |-> 0, failed |-> run.failed + 1]
  BY DEF Raise
<1> HIDE DEF outcome
<1> SUFFICES ASSUME adapter = "premium_retailer" PROVE Remembers'
  BY <1>2 DEF Remembers
<1>3. /\ o \in Seq(OutcomeType) /\ tracker'.outcomes = new
      /\ run.failed \in Nat
  BY <1>2 DEF IInv, Types, TrackerType, Track
<1>4. /\ Len(new) \in Nat \ {0} /\ Len(new) <= Len(o) + 1 /\ new[Len(new)] = outcome
      /\ \A i \in 1 .. Len(new) : i # Len(new) =>
           /\ i + (Len(o) + 1 - Len(new)) \in 1 .. Len(o)
           /\ new[i] = o[i + (Len(o) + 1 - Len(new))]
  BY <1>1, <1>3, RecordedShifts
<1> HIDE DEF new
<1>5. ASSUME NEW i \in 1 .. Len(new), i > Len(new) - (run.failed + 1) PROVE ~new[i].success
  <2>1. CASE i = Len(new)
    BY <2>1, <1>1, <1>4
  <2>2. CASE i # Len(new)
    <3> DEFINE j == i + (Len(o) + 1 - Len(new))
    <3>1. j \in 1 .. Len(o) /\ new[i] = o[j]
      BY <1>4, <2>2
    <3>2. j > Len(o) - run.failed
      BY <1>3, <1>4, <1>5
    <3> HIDE DEF j
    <3> QED BY <3>1, <3>2 DEF Remembers
  <2> QED BY <2>1, <2>2
<1>6. run'.clean = 0 /\ run'.failed = run.failed + 1
  BY <1>2
<1>7. ~(run'.clean > 0) /\ \A i \in 1 .. Len(new) : ~(i > Len(new) - run'.clean)
  BY <1>4, <1>6
<1> QED BY <1>3, <1>4, <1>5, <1>6, <1>7 DEF Remembers

LEMMA ReturnRemembers ==
  ASSUME IInv, Remembers, NEW got \in FetchType, NEW cut \in BOOLEAN, Return(got, cut)
  PROVE  Remembers'
<1> DEFINE outcome == Health!Success(got.events, got.total, got.malformed)
           o == tracker.outcomes
           new == Health!Recorded(o, outcome)
           clean == IF Clean(got) THEN run.clean + 1 ELSE 0
<1>1. /\ outcome \in OutcomeType /\ outcome.success
      /\ Clean(got) => CleanOutcome(outcome) /\ Health!EmptyAfter(tracker.empty, outcome) = 0
  <2>1. got.events \in Nat /\ got.total \in Nat /\ got.malformed \in Nat
    BY DEF FetchType
  <2>2. outcome \in OutcomeType /\ outcome.success
    BY <2>1 DEF Health!Success, Health!Reason, OutcomeType
  <2>3. Clean(got) => CleanOutcome(outcome) /\ Health!EmptyAfter(tracker.empty, outcome) = 0
    BY <2>1 DEF Health!Success, Clean, CleanOutcome, Health!EmptyAfter
  <2> QED BY <2>2, <2>3
<1>2. Track(outcome) /\ adapter' = adapter /\ run' = [clean |-> clean, failed |-> 0]
  BY DEF Return
<1> HIDE DEF outcome
<1> SUFFICES ASSUME adapter = "premium_retailer" PROVE Remembers'
  BY <1>2 DEF Remembers
<1>3. /\ o \in Seq(OutcomeType) /\ tracker'.outcomes = new
      /\ tracker'.empty = Health!EmptyAfter(tracker.empty, outcome)
      /\ run.clean \in Nat
  BY <1>2 DEF IInv, Types, TrackerType, Track
<1>4. /\ Len(new) \in Nat \ {0} /\ Len(new) <= Len(o) + 1 /\ new[Len(new)] = outcome
      /\ \A i \in 1 .. Len(new) : i # Len(new) =>
           /\ i + (Len(o) + 1 - Len(new)) \in 1 .. Len(o)
           /\ new[i] = o[i + (Len(o) + 1 - Len(new))]
  BY <1>1, <1>3, RecordedShifts
<1> HIDE DEF new
<1>5. ASSUME NEW i \in 1 .. Len(new), i > Len(new) - clean PROVE CleanOutcome(new[i])
  <2>0. Clean(got) /\ clean = run.clean + 1
    BY <1>4, <1>5
  <2>1. CASE i = Len(new)
    BY <2>0, <2>1, <1>1, <1>4
  <2>2. CASE i # Len(new)
    <3> DEFINE j == i + (Len(o) + 1 - Len(new))
    <3>1. j \in 1 .. Len(o) /\ new[i] = o[j]
      BY <1>4, <2>2
    <3>2. j > Len(o) - run.clean
      BY <1>3, <1>4, <1>5, <2>0
    <3> HIDE DEF j
    <3> QED BY <3>1, <3>2 DEF Remembers
  <2> QED BY <2>1, <2>2
<1>6. clean > 0 => tracker'.empty = 0
  BY <1>1, <1>3
<1> HIDE DEF clean
<1>7. run'.clean = clean /\ run'.failed = 0
  BY <1>2
<1>8. \A i \in 1 .. Len(new) : ~(i > Len(new) - run'.failed)
  BY <1>4, <1>7
<1> QED BY <1>3, <1>4, <1>5, <1>6, <1>7, <1>8 DEF Remembers

LEMMA StillRemembers ==
  ASSUME Remembers, UNCHANGED <<adapter, run>>,
         tracker'.outcomes = tracker.outcomes, tracker'.empty = tracker.empty
  PROVE  Remembers'
BY DEF Remembers

LEMMA AnswerRemembers ==
  ASSUME IInv, Remembers, NEW page \in Page, Answer(page)
  PROVE  Remembers'
BY WithType, ReturnRemembers DEF Answer

LEMMA GiveUpRemembers ==
  ASSUME IInv, Remembers, NEW reason \in Health!Reason, GiveUp(reason)
  PROVE  Remembers'
<1>1. fetch \in FetchType
  BY DEF IInv, Types
<1>2. CASE fetch.page > 1
  BY <1>1, <1>2, ReturnRemembers DEF GiveUp
<1>3. CASE ~(fetch.page > 1)
  BY <1>3, RaiseRemembers DEF GiveUp
<1> QED BY <1>2, <1>3

LEMMA RetryRemembers ==
  ASSUME IInv, Remembers, NEW reason \in Health!Reason, Retry("request", reason)
  PROVE  Remembers'
<1>1. CASE fetch.attempt < MaxRetries
  BY <1>1, StillRemembers DEF Retry
<1>2. CASE ~(fetch.attempt < MaxRetries)
  BY <1>2, GiveUpRemembers DEF Retry
<1> QED BY <1>1, <1>2

LEMMA NextPageRemembers == ASSUME IInv, Remembers, NextPage PROVE Remembers'
<1>1. PICK page \in Page :
        CASE page.next = "none" \/ fetch.page >= MaxPages -> Return(With(page), FALSE)
          [] page.next = "broken" /\ fetch.page < MaxPages -> Raise("untyped")
          [] page.next = "good" /\ fetch.page < MaxPages ->
               /\ fetch' = [With(page) EXCEPT !.page = @ + 1, !.attempt = 1, !.gets = @ + 1]
               /\ UNCHANGED <<adapter, metrics, tracker, clock, fresh, run>>
  BY DEF NextPage
<1>2. page.next \in {"none", "good", "broken"}
  BY PageAssumption
<1>3. fetch.page >= MaxPages <=> ~(fetch.page < MaxPages)
  BY LimitAssumption DEF IInv, Spent
<1>4. CASE page.next = "none" \/ fetch.page >= MaxPages
  <2>1. ~(page.next = "broken" /\ fetch.page < MaxPages) /\ ~(page.next = "good" /\ fetch.page < MaxPages)
    BY <1>3, <1>4
  <2>2. Return(With(page), FALSE)
    BY <1>1, <1>4, <2>1, Zenon
  <2> QED BY <2>2, WithType, ReturnRemembers
<1>5. CASE page.next = "broken" /\ fetch.page < MaxPages /\ ~(fetch.page >= MaxPages)
  <2>1. Raise("untyped")
    BY <1>1, <1>5
  <2> QED BY <2>1, RaiseRemembers
<1>6. CASE page.next = "good" /\ fetch.page < MaxPages /\ ~(fetch.page >= MaxPages)
  <2>1. page.next # "none" /\ page.next # "broken"
    BY <1>6
  <2>2. UNCHANGED <<adapter, tracker, run>>
    BY <1>1, <1>6, <2>1
  <2> QED BY <2>2, StillRemembers
<1> QED BY <1>2, <1>3, <1>4, <1>5, <1>6

LEMMA RemembersNext == IInv /\ Remembers /\ [Next]_vars => Remembers'
<1> SUFFICES ASSUME IInv, Remembers, [Next]_vars PROVE Remembers'
  OBVIOUS
<1>1. fetch \in FetchType /\ tracker \in TrackerType
  BY DEF IInv, Types
<1> USE RaiseRemembers, AnswerRemembers, StillRemembers DEF Health!Reason
<1>2. CASE Start \/ Tick
  BY <1>2 DEF Start, Tick
<1>3. CASE AskHealth
  <2>1. tracker'.outcomes = tracker.outcomes /\ tracker'.empty = tracker.empty
    BY <1>1, <1>3 DEF AskHealth, TrackerType
  <2> QED BY <1>3, <2>1 DEF AskHealth
<1>4. CASE BestBuyFails \/ BestBuyLimits \/ FakeStoreFails
  BY <1>4 DEF BestBuyFails, BestBuyLimits, FakeStoreFails
<1>5. CASE BestBuyAnswers \/ FakeStoreAnswers \/ EbayAnswers \/ RetailerAnswers
  BY <1>5 DEF BestBuyAnswers, FakeStoreAnswers, EbayAnswers, RetailerAnswers
<1>6. CASE Authenticate
  BY <1>6 DEF Authenticate
<1>7. CASE EbayRetries \/ RetailerRetries \/ WebRetries
  BY <1>7, RetryRemembers DEF EbayRetries, RetailerRetries, WebRetries
<1>8. CASE EbayFails \/ RetailerRefuses \/ StructureChanged
  BY <1>8 DEF EbayFails, RetailerRefuses, StructureChanged
<1>9. CASE EbayRefuses
  BY <1>9 DEF EbayRefuses
<1>10. CASE EbayPuzzles
  <2> DEFINE got == [fetch EXCEPT !.malformed = 1, !.total = 1]
  <2>1. got \in FetchType
    BY <1>1 DEF FetchType
  <2>2. Raise("untyped") \/ Return(got, FALSE)
    BY <1>10 DEF EbayPuzzles
  <2> HIDE DEF got
  <2> QED BY <2>1, <2>2, ReturnRemembers
<1>11. CASE WebRefuses
  BY <1>11, GiveUpRemembers DEF WebRefuses
<1>12. CASE Blank
  BY <1>1, <1>12, ReturnRemembers DEF Blank
<1>13. CASE NextPage
  BY <1>13, NextPageRemembers
<1>14. CASE UNCHANGED vars
  BY <1>14 DEF vars
<1> QED BY <1>2, <1>3, <1>4, <1>5, <1>6, <1>7, <1>8, <1>9, <1>10, <1>11, <1>12, <1>13, <1>14 DEF Next

-----------------------------------------------------------------------------
(* The assessment follows the source. *)

\* The assessor counts as this module does.
LEMMA SameCount == ASSUME NEW S PROVE Health!Cardinality(S) = Cardinality(S)
BY DEF Health!Cardinality, Cardinality

\* Nothing but an old freshness age is held against a history of clean fetches.
LEMMA CleanIsWell ==
  ASSUME NEW o \in Seq(OutcomeType), Len(o) > 0, NEW age, MaxEmpty > 0,
         \A i \in 1 .. Len(o) : CleanOutcome(o[i])
  PROVE  Health!Assess(o, 0, age) \in {"healthy", "stale"}
<1>1. /\ MinSuccess \in 0 .. 100 /\ MaxMalformed \in 0 .. 100 /\ MaxEmpty \in Nat
      /\ MinExpected \in Nat
  BY ThresholdAssumption DEF Health!Thresholds
<1>2. Len(o) \in Nat /\ DOMAIN o = 1 .. Len(o) /\ o # <<>>
  OBVIOUS
<1>3. Health!Successes(o) = 1 .. Len(o) /\ Health!Failures(o) = {}
  BY <1>2 DEF Health!Successes, Health!Failures, CleanOutcome
<1>4. Health!Complaint(o) = "none"
  BY <1>3 DEF Health!Complaint
<1>5. ~Health!MostlyFailing(o)
  <2>1. Cardinality(1 .. Len(o)) = Len(o)
    BY <1>2, FS_Interval
  <2>2. MinSuccess * Len(o) <= 100 * Len(o)
    <3>1. 100 * Len(o) = MinSuccess * Len(o) + (100 - MinSuccess) * Len(o)
      BY <1>1, <1>2
    <3>2. (100 - MinSuccess) * Len(o) \in Nat /\ MinSuccess * Len(o) \in Nat
      BY <1>1, <1>2
    <3> QED BY <3>1, <3>2
  <2>3. MinSuccess * Len(o) \in Nat
    BY <1>1, <1>2
  <2>4. ~(100 * Cardinality(Health!Successes(o)) < MinSuccess * Len(o))
    <3> DEFINE x == MinSuccess * Len(o)
    <3>1. x <= 100 * Len(o) /\ x \in Nat
      BY <2>2, <2>3
    <3> HIDE DEF x
    <3>2. ~(100 * Cardinality(Health!Successes(o)) < x)
      BY <3>1, <1>2, <1>3, <2>1
    <3> QED BY <3>2 DEF x
  <2> QED BY <2>4, SameCount DEF Health!MostlyFailing
<1>6. Health!Total(o, "malformed") = 0 /\ Health!Total(o, "records") \in Nat
      /\ Health!Total(o, "records") >= MinExpected
  <2>1. \A n \in 1 .. Len(o) : o[n]["malformed"] = 0 /\ o[n]["records"] >= MinExpected
    BY DEF CleanOutcome
  <2> QED BY <1>1, <2>1, TotalOf
<1>7. ~Health!TooFew(o, 0)
  BY <1>1, <1>6 DEF Health!TooFew
<1>8. ~Health!Garbled(o)
  <2>1. MaxMalformed * Health!Total(o, "records") >= 0
    BY <1>1, <1>6
  <2>2. MaxMalformed * Health!Total(o, "records") \in Nat
    BY <1>1, <1>6
  <2> QED BY <1>6, <2>1, <2>2 DEF Health!Garbled
<1> QED BY <1>2, <1>4, <1>5, <1>7, <1>8, Zenon DEF Health!Assess

\* A history of failures is never called healthy.
LEMMA FailedIsIll ==
  ASSUME NEW o \in Seq(OutcomeType), Len(o) > 0, NEW empty, NEW age, MinSuccess > 0,
         \A i \in 1 .. Len(o) : ~o[i].success
  PROVE  Health!Assess(o, empty, age) \in {"unreachable", "rate_limited", "structurally_changed"}
<1>1. Len(o) \in Nat /\ DOMAIN o = 1 .. Len(o) /\ o # <<>>
  OBVIOUS
<1>2. Health!Successes(o) = {}
  BY <1>1 DEF Health!Successes
<1>3. Health!MostlyFailing(o)
  <2>1. Cardinality(Health!Successes(o)) = 0
    BY <1>2, FS_EmptySet
  <2>2. MinSuccess \in 0 .. 100 /\ MinSuccess > 0
    BY ThresholdAssumption DEF Health!Thresholds
  <2>3. MinSuccess * Len(o) > 0
    BY <1>1, <2>2
  <2>4. 100 * Cardinality(Health!Successes(o)) < MinSuccess * Len(o)
    <3> DEFINE x == MinSuccess * Len(o)
    <3>1. x > 0
      BY <2>3
    <3> HIDE DEF x
    <3>2. 100 * Cardinality(Health!Successes(o)) < x
      BY <3>1, <2>1
    <3> QED BY <3>2 DEF x
  <2> QED BY <2>4, SameCount DEF Health!MostlyFailing
<1>4. Health!Complaint(o) \in {"none", "rate_limited", "structurally_changed"}
  BY DEF Health!Complaint
<1>5. CASE Health!Complaint(o) # "none"
  BY <1>1, <1>4, <1>5, Zenon DEF Health!Assess
<1>6. CASE Health!Complaint(o) = "none"
  BY <1>1, <1>3, <1>6, Zenon DEF Health!Assess
<1> QED BY <1>5, <1>6

\* Where some fetches have to succeed and one in a row may come back empty, which the code takes
\* for granted and does not ensure (health_assessment.py:83), a whole history of clean fetches
\* leaves nothing but an old freshness age to hold against the source; and after a whole
\* history of failures it is not called healthy.  (health_assessment.py:224, :336)
THEOREM HealthIsFair == MinSuccess > 0 /\ MaxEmpty > 0 => (Spec => []HealthFollows)
<1>1. Init => Remembers
  <2> SUFFICES ASSUME Init PROVE Remembers
    OBVIOUS
  <2>1. Len(tracker.outcomes) = 0 /\ run.clean = 0 /\ run.failed = 0
    BY DEF Init
  <2> QED BY <2>1 DEF Remembers
<1>2. ASSUME MinSuccess > 0, MaxEmpty > 0, IInv, Remembers PROVE HealthFollows
  <2> DEFINE o == tracker.outcomes
  <2> SUFFICES ASSUME adapter = "premium_retailer"
               PROVE  /\ run.clean >= MaxHistory =>
                           Health!Assess(o, tracker.empty, tracker.age) \in {"healthy", "stale"}
                      /\ run.failed >= MaxHistory =>
                           Health!Assess(o, tracker.empty, tracker.age)
                             \in {"unreachable", "rate_limited", "structurally_changed"}
    BY DEF HealthFollows
  <2>1. /\ o \in Seq(OutcomeType) /\ Len(o) \in Nat /\ run.clean \in Nat /\ run.failed \in Nat
        /\ metrics.success + metrics.failure \in Nat
    BY <1>2, CountsOf DEF IInv, Types, TrackerType
  <2>2. Len(o) <= MaxHistory
    BY <1>2, <2>1, Thresholds DEF IInv, LedgerAddsUp
  <2>3. ASSUME run.clean >= MaxHistory
        PROVE  Health!Assess(o, tracker.empty, tracker.age) \in {"healthy", "stale"}
    <3>1. tracker.empty = 0 /\ Len(o) > 0
      BY <1>2, <2>1, <2>3, Thresholds DEF Remembers
    <3>2. \A i \in 1 .. Len(o) : CleanOutcome(o[i])
      <4>1. \A i \in 1 .. Len(o) : i > Len(o) - run.clean
        BY <2>1, <2>2, <2>3, Thresholds
      <4> QED BY <4>1, <1>2 DEF Remembers
    <3> QED BY <1>2, <2>1, <3>1, <3>2, CleanIsWell
  <2>4. ASSUME run.failed >= MaxHistory
        PROVE  Health!Assess(o, tracker.empty, tracker.age)
                 \in {"unreachable", "rate_limited", "structurally_changed"}
    <3>1. Len(o) > 0
      BY <1>2, <2>1, <2>4, Thresholds DEF Remembers
    <3>2. \A i \in 1 .. Len(o) : ~o[i].success
      <4>1. \A i \in 1 .. Len(o) : i > Len(o) - run.failed
        BY <2>1, <2>2, <2>4, Thresholds
      <4> QED BY <4>1, <1>2 DEF Remembers
    <3> QED BY <1>2, <2>1, <3>1, <3>2, FailedIsIll
  <2> QED BY <2>3, <2>4
<1>3. Spec => []Remembers
  BY <1>1, RemembersNext, Invariance, PTL DEF Spec
<1> SUFFICES ASSUME MinSuccess > 0, MaxEmpty > 0 PROVE Spec => []HealthFollows
  OBVIOUS
<1>4. IInv /\ Remembers => HealthFollows
  BY <1>2
<1> QED BY <1>3, <1>4, Invariance, PTL
=============================================================================
