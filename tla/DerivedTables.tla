--------------------------- MODULE DerivedTables ---------------------------
(***************************************************************************)
(* The Airflow DAGs that derive tables from the warehouse: daily metrics,  *)
(* daily quality results and the health of the sources.  Every one reads   *)
(* the observations, computes, and inserts rows whose replay key holds the *)
(* logical date, ON CONFLICT DO NOTHING.  The warehouse goes on loading;   *)
(* a task may fail, be retried, die after its commit, or be run again by   *)
(* an operator.                                                            *)
(*                                                                         *)
(* A behaviour follows one DAG, as they share nothing but the warehouse    *)
(* they read, or a client of the API that pages through the history of a   *)
(* product.  A day is the schedule's interval, of any length.              *)
(***************************************************************************)
EXTENDS ApiQueries

CONSTANTS Dags,      \* whom to follow: a subset of {"metrics", "quality", "health", "api"}
          Row,       \* observations that the loader may insert
          Source,
          Days0,     \* bound: days
          MaxReruns, \* bound: runs that an operator clears
          Configured,\* sources in the Airflow variable of the health DAG
          PageSize,  \* page_size of the client of the API
          ListLimit, \* limit of list_source_health
          Overfetch, \* rows it fetches for each of them, 10 in the code
          NameRank,  \* the order of the sources' names
          MinSuccess, MaxMalformed, MaxEmpty, MaxAge, MinExpected, MaxHistory

Health == INSTANCE SourceHealth

ASSUME ThresholdAssumption == Health!Thresholds
\* A stored price is not negative (chk_price_non_negative), and every event has a currency.
ASSUME RowAssumption ==
  /\ \A r \in Row : r.source \in Source /\ r.day \in Nat /\ r.id \in Nat
                     /\ r.price \in Nat \cup {Missing} /\ r.currency # "none"
  /\ \A q, r \in Row : q.id = r.id => q = r
ASSUME BoundAssumption == Days0 \in Nat /\ MaxReruns \in Nat
ASSUME ConfiguredAssumption == Configured \subseteq Source /\ Configured # {} /\ IsFiniteSet(Configured)
ASSUME ApiAssumption == PageSize \in Nat \ {0} /\ ListLimit \in Nat /\ Overfetch \in Nat
                        /\ NameRank \in [Source -> Nat]

VARIABLES dag,
          today,
          loaded,  \* observations in the warehouse
          task,    \* the run in hand: its date, attempt, step and what it computed
          table,   \* the rows of the DAG's table
          outcome, \* date -> "none", "success" or "failed"
          reruns,
          reader   \* the client: what it has seen of what was there when it began

vars == <<dag, today, loaded, task, table, outcome, reruns, reader>>

Attempts == 3  \* retries: 2
Day == 0 .. Days0
NoTask == [step |-> "idle", date |-> 0, attempt |-> 0, results |-> {}, red |-> FALSE]
Steps == {"idle", "query", "write", "finish"}
NoReader == [step |-> "idle", product |-> "none", page |-> 1, total |-> 0, there |-> {}, seen |-> {}]

-----------------------------------------------------------------------------
(* What each DAG computes: a set of [key, value]. *)

OnDay_Slip(rows, date) == {r \in rows : r.day >= date}
OnDay(rows, date) == {r \in rows : r.day = date}
Recent(rows) == {r \in rows : r.day >= today - 1}
Sources(rows) == {r.source : r \in rows}

Metric(name, dim, value) == [key |-> <<name, dim>>, value |-> value]

\* The calculators in their order; each is a set, as the metrics of one are written together.
Metrics(rows) ==
  <<{Metric("observation_count", "", Cardinality(rows))},
    {Metric("unique_products", "", Cardinality({r.product : r \in rows}))},
    {Metric("avg_price", "", IF Priced(rows) = {} THEN 0 ELSE Average(rows))},
    {Metric("availability_in_stock", "", Cardinality({r \in rows : r.inStock})),
     Metric("availability_out_of_stock", "", Cardinality({r \in rows : ~r.inStock}))},
    {Metric("source_observation_count", s, Cardinality({r \in rows : r.source = s})) :
       s \in Sources(rows)}>>

\* An exception in a calculator leaves the metrics of those before it.
MetricsUpTo(rows, n) ==
  IF rows = {} THEN {} ELSE UNION {Metrics(rows)[i] : i \in 1 .. n}

\* The default checks; a NULL price is a missing field, and a negative one cannot be stored.
RequiredFields(rows) == \A r \in rows : r.price # Missing
PriceValidity(rows) == \A r \in Priced(rows) : r.price >= 0
Freshness(rows) == \E r \in rows : r.day >= today - 1
Duplicates(rows) == \A q, r \in rows : q.source = r.source /\ q.product = r.product => q = r
Check(name, passed) == [key |-> <<name, "">>, value |-> IF passed THEN "passed" ELSE "failed"]
QualityResults(rows) ==
  {Check("required_fields", RequiredFields(rows)), Check("price_validity", PriceValidity(rows)),
   Check("freshness", Freshness(rows)), Check("duplicates", Duplicates(rows))}
HasErrors(rows) == ~RequiredFields(rows) \/ ~PriceValidity(rows)

\* The evaluator has no fetch outcomes, only the age of the newest observation.
Age(rows, s) ==
  IF s \notin Sources(rows) THEN Health!Never ELSE today - Max({r.day : r \in {q \in rows : q.source = s}})
Evaluation(rows, s) ==
  [key |-> <<s, "">>,
   value |-> [state |-> Health!Assess(<<>>, 0, Age(rows, s)),
              freshness |-> Health!Freshness(Age(rows, s))]]
Evaluations(rows) ==
  {Evaluation(rows, s) : s \in IF Sources(rows) = {} THEN Configured ELSE Sources(rows)}

-----------------------------------------------------------------------------
(* The warehouse and the scheduler. *)

Init ==
  /\ dag \in Dags
  /\ today = 0 /\ loaded = {} /\ task = NoTask /\ table = {}
  /\ outcome = [d \in Day |-> "none"]
  /\ reruns = 0 /\ reader = NoReader

\* The loader commits an observation, perhaps days after it was collected.
Load ==
  \E r \in Row \ loaded :
    /\ r.day <= today
    /\ loaded' = loaded \cup {r}
    /\ UNCHANGED <<dag, today, task, table, outcome, reruns, reader>>

NextDay ==
  /\ today < Days0
  /\ today' = today + 1
  /\ UNCHANGED <<dag, loaded, task, table, outcome, reruns, reader>>

\* catchup=False and max_active_runs=1: the last whole interval, when nothing is running.
Schedule ==
  /\ dag # "api" /\ task = NoTask /\ today > 0
  /\ outcome[today - 1] = "none"
  /\ task' = [NoTask EXCEPT !.step = "query", !.date = today - 1, !.attempt = 1]
  /\ UNCHANGED <<dag, today, loaded, table, outcome, reruns, reader>>

\* An operator clears a run that has ended.
Rerun ==
  \E d \in Day :
    /\ task = NoTask /\ outcome[d] # "none" /\ reruns < MaxReruns
    /\ task' = [NoTask EXCEPT !.step = "query", !.date = d, !.attempt = 1]
    /\ outcome' = [outcome EXCEPT ![d] = "none"]
    /\ reruns' = reruns + 1
    /\ UNCHANGED <<dag, today, loaded, table, reader>>

-----------------------------------------------------------------------------
(* The three callables. *)

Computed(results, red) ==
  /\ task' = [task EXCEPT !.step = "write", !.results = results, !.red = red]
  /\ UNCHANGED <<dag, today, loaded, table, outcome, reruns, reader>>

\* _build_daily_metrics: the day of the logical date.
ComputeMetrics ==
  LET rows == OnDay(loaded, task.date) IN
  /\ dag = "metrics" /\ task.step = "query"
  /\ \/ Computed(MetricsUpTo(rows, 5), FALSE)
     \/ rows # {} /\ \E n \in 0 .. 4 : Computed(MetricsUpTo(rows, n), TRUE)

\* _run_quality_checks: the last 24 hours, whatever the logical date is.
RunChecks ==
  /\ dag = "quality" /\ task.step = "query"
  /\ Computed(QualityResults(Recent(loaded)), HasErrors(Recent(loaded)))

\* _evaluate_and_persist: when the query fails, the configured sources without observations.
EvaluateHealth ==
  /\ dag = "health" /\ task.step = "query"
  /\ \E rows \in {loaded, {}} : Computed(Evaluations(rows), FALSE)

\* A failed attempt is retried until there are no more; with it goes all it computed.
Failed_Slip ==
  IF task.attempt <= Attempts
  THEN /\ task' = [NoTask EXCEPT !.step = "query", !.date = task.date, !.attempt = task.attempt + 1]
       /\ UNCHANGED outcome
  ELSE /\ task' = NoTask
       /\ outcome' = [outcome EXCEPT ![task.date] = "failed"]
Failed ==
  IF task.attempt < Attempts
  THEN /\ task' = [NoTask EXCEPT !.step = "query", !.date = task.date, !.attempt = task.attempt + 1]
       /\ UNCHANGED outcome
  ELSE /\ task' = NoTask
       /\ outcome' = [outcome EXCEPT ![task.date] = "failed"]

\* INSERT ... ON CONFLICT (replay_key) DO NOTHING, in one transaction.
Insert(results) ==
  LET fresh == {r \in results : ~ \E old \in table : old.date = task.date /\ old.key = r.key}
  IN table' = table \cup {[date |-> task.date, key |-> r.key, value |-> r.value,
                            at |-> 1 + Cardinality({old \in table : old.key = r.key})] :
                           r \in fresh}

Written ==
  /\ Insert(task.results)
  /\ task' = [task EXCEPT !.step = "finish"]
  /\ UNCHANGED <<dag, today, loaded, outcome, reruns, reader>>

WriteMetrics == dag = "metrics" /\ task.step = "write" /\ Written
WriteQuality == dag = "quality" /\ task.step = "write" /\ Written
WriteHealth == dag = "health" /\ task.step = "write" /\ Written

\* The query or the transaction raises, or the worker dies: before the commit, or after it
\* and before the scheduler hears of it.
AttemptFails ==
  /\ task # NoTask
  /\ Failed
  /\ UNCHANGED <<dag, today, loaded, table, reruns, reader>>

\* The callable raises after its commit when the metrics had errors or a check of
\* severity ERROR failed.
Finish_Slip ==
  /\ task.step = "finish"
  /\ task' = NoTask
  /\ outcome' = [outcome EXCEPT ![task.date] = "success"]
  /\ UNCHANGED <<dag, today, loaded, table, reruns, reader>>
Finish ==
  /\ task.step = "finish"
  /\ IF task.red THEN Failed
     ELSE task' = NoTask /\ outcome' = [outcome EXCEPT ![task.date] = "success"]
  /\ UNCHANGED <<dag, today, loaded, table, reruns, reader>>

-----------------------------------------------------------------------------
(* GET /products/{id}/history: a client asks for page after page until one is not full. *)

\* A request first counts the rows for the total it reports, ...
AskPage ==
  /\ dag = "api" /\ reader.step \in {"idle", "next"}
  /\ \E p \in {r.product : r \in loaded} :
       /\ reader.step = "next" => p = reader.product
       /\ reader' = [reader EXCEPT !.step = "counted", !.product = p,
                      !.total = Cardinality(OfProduct(loaded, p)),
                      !.there = IF reader.step = "idle" THEN OfProduct(loaded, p) ELSE @]
  /\ UNCHANGED <<dag, today, loaded, task, table, outcome, reruns>>

\* ... and reads the page in a statement of its own.
ReadPage ==
  /\ reader.step = "counted"
  /\ \E page \in ObservationPages(OfProduct(loaded, reader.product), reader.page, PageSize) :
       reader' = [reader EXCEPT !.step = IF Len(page) < PageSize THEN "done" ELSE "next",
                                !.page = @ + 1, !.seen = @ \cup Range(page)]
  /\ UNCHANGED <<dag, today, loaded, task, table, outcome, reruns>>

Next ==
  \/ Load \/ NextDay \/ Schedule \/ Rerun \/ AskPage \/ ReadPage
  \/ ComputeMetrics \/ RunChecks \/ EvaluateHealth
  \/ WriteMetrics \/ WriteQuality \/ WriteHealth \/ AttemptFails \/ Finish

Spec == Init /\ [][Next]_vars

-----------------------------------------------------------------------------
(* Properties. *)

Stored(date) == {r \in table : r.date = date}
Names(date) == {r.key[1] : r \in Stored(date)}
Value(date, name, dim) == (CHOOSE r \in Stored(date) : r.key = <<name, dim>>).value

MetricNames == {"observation_count", "unique_products", "avg_price", "availability_in_stock",
                "availability_out_of_stock", "source_observation_count"}
CheckNames == {"required_fields", "price_validity", "freshness", "duplicates"}
Key == (MetricNames \cup CheckNames \cup Source) \X (Source \cup {""})
Result == CASE dag = "metrics" -> Nat
            [] dag = "quality" -> {"passed", "failed"}
            [] dag = "health"  -> [state : Health!State, freshness : Health!Fresh]
            [] OTHER           -> {}

TypeOK ==
  /\ dag \in Dags
  /\ today \in Day
  /\ loaded \subseteq {r \in Row : r.day <= today}
  /\ task.step \in Steps /\ task.date \in Day /\ task.attempt \in 0 .. Attempts
  /\ task.results \subseteq [key : Key, value : Result] /\ task.red \in BOOLEAN
  /\ table \subseteq [date : Day, key : Key, value : Result, at : Nat]
  /\ outcome \in [Day -> {"none", "success", "failed"}]
  /\ reruns \in 0 .. MaxReruns
  /\ reader.step \in {"idle", "counted", "next", "done"} /\ reader.page \in Nat \ {0}
  /\ reader.total \in Nat /\ reader.there \cup reader.seen \subseteq loaded

\* A run that ended green has left a complete set of rows for its date, whatever its earlier
\* attempts and runs left half done: all the metrics or, for a day without observations, none;
\* every check; a row for some source.  (daily_data_quality_dag.py:201, build_daily_metrics_dag.py:121)
GreenIsComplete ==
  \A d \in Day : outcome[d] = "success" =>
    \/ dag = "metrics" /\ Names(d) \in {{}, MetricNames}
    \/ dag = "quality" /\ Names(d) = CheckNames
    \/ dag = "health" /\ Names(d) # {}

\* However the rows of a date were pieced together from runs that saw different warehouses,
\* no stored count claims more than the warehouse holds for the date, and the counts of the
\* sources together cover the stored total.  (calculator.py:161, persistence.py:122)
CountsCover ==
  dag = "metrics" =>
    \A d \in Day :
      LET rows == {r \in loaded : r.day = d}
          total == Value(d, "observation_count", "")
          counted == {s \in Source : \E r \in Stored(d) : r.key = <<"source_observation_count", s>>}
          count(s) == Value(d, "source_observation_count", s)
      IN /\ "observation_count" \in Names(d) => total <= Cardinality(rows)
         /\ \A s \in counted : count(s) <= Cardinality({r \in rows : r.source = s})
         /\ counted # {} => /\ "observation_count" \in Names(d)
                            /\ total <= SumFunction([s \in counted |-> count(s)])

\* No attempt, retry or rerun changes or takes back a stored row: it answers a key for the date
\* only when nothing has, and what it adds is newer than all the table has of the key.
\* (metrics persistence.py:122, quality persistence.py:223, health_persistence.py:150)
RowsAreAppended ==
  [][/\ table \subseteq table'
     /\ \A r \in table' \ table, q \in table' :
          q.key = r.key /\ q # r => q \in table /\ q.date # r.date /\ q.at < r.at]_vars

Listings == {<<r.source, r.product>> : r \in loaded}

\* There is one latest record, it is one of the latest observations, and one of those the API
\* shows for the product as long as no other source has a later one.
LatestAgree(listing, p) ==
  /\ Cardinality(LatestRecord(listing)) = 1 /\ LatestRecord(listing) \subseteq Latest(listing)
  /\ {e.latest : e \in {e \in ListedProducts(loaded) : e.product = p}} = ProductDetails(loaded, p)
  /\ \/ LatestRecord(listing) \subseteq ProductDetails(loaded, p)
     \/ \E r \in ProductDetails(loaded, p) : \A q \in listing : q.day < r.day

\* Of a listing that always had a positive price the changes lead from the first price to the
\* last, and what changed without a change of currency the API reports too, in any window.
ChangesAgree(listing) ==
  /\ (\A r \in listing : r.price > 0) =>
       \A last \in LatestRecord(listing) :
         last.price - First(listing).price = SumFunction([c \in PriceChanges(listing, 0) |-> c.by])
  /\ \A d \in Day : \A c \in PriceChanges(listing, d) :
       \/ c \in ApiChanges(listing, d)
       \/ \E q \in Previous(listing, c.row) : q.currency # c.row.currency

\* Extremes enclose what is averaged or compared, and counts count the same history.
ExtremesAgree(l, listing) ==
  \A k \in {k \in ProductStats(loaded, 0) : k.listing = l} :
    /\ k.count = Cardinality(Priced(PriceHistory(listing, 0, today)))
    /\ \A d \in Days(listing) : /\ k.low <= RollingSpread(listing, d, 2).low
                                /\ RollingSpread(listing, d, 2).high <= k.high
    /\ \A m \in {m \in PriceMovers(loaded, 0, 2) : m.listing = l} :
         {m.first.price, m.last.price} \subseteq k.low .. k.high /\ m.count = k.count

\* The statistics of a source count its listings' observations, the API's by currency.
StatisticsAgree(s) ==
  LET statistics == SourceStatistics(loaded, s, 0)
      groups == {g \in PriceStatistics(loaded, 0) : g.source = s}
  IN /\ statistics.total = SumFunction([l \in {l \in Listings : l[1] = s} |->
                                         Cardinality(RowsOf(loaded, l[1], l[2]))])
     /\ statistics.total = SumFunction([g \in groups |-> g.total])
     /\ statistics.missing = SumFunction([g \in groups |-> g.total - g.priced])

\* What the analytical queries of the warehouse and those of the API say of the same
\* observations fits together.  Both read nothing else, so the client's behaviours, which
\* load what the DAGs' behaviours load, are enough.
\* (queries.py:26, :96, :149, :335, :403, :480, :576; analytics.py:85, :191, :332; product.py:90)
QueriesAgree ==
  dag = "api" =>
    /\ \A l \in Listings : LET listing == RowsOf(loaded, l[1], l[2])
                          IN LatestAgree(listing, l[2]) /\ ChangesAgree(listing)
                               /\ ExtremesAgree(l, listing)
    /\ \A s \in Source : StatisticsAgree(s)

\* A client that reads page after page, while late and new observations move what it reads
\* for, has in the end seen every observation that was there when it began.
\* (product.py:282, :286)
PagesComplete == reader.step = "done" => reader.there \subseteq reader.seen

\* IngestionHealthResultReader: the newest evaluation of each source, those not healthy.
LatestPerSource == {r \in table : \A q \in table : q.key = r.key => q.at <= r.at}
DegradedSources == {r \in LatestPerSource : r.value.state # "healthy"}

ApiHealth == ListSourceHealth(table, NameRank, ListLimit, Overfetch)

\* As long as the history of the sources is no longer than what the API fetches, it lists
\* the newest evaluation of every source; the agent calls the sources healthy only if every
\* one was observed in time, tells as many as there are, and raises an alert for each that is
\* stale or degraded.
\* (pipeline_status.py:149, tools.py:334, :347, :573, graph.py:291)
SourcesTold ==
  Cardinality(table) <= ListLimit * Overfetch /\ Cardinality({r.key : r \in table}) <= ListLimit =>
    LET about == {r.key[1] : r \in {r \in LatestPerSource :
                    r \in DegradedSources \/ r.value.freshness = "stale"}}
    IN /\ ApiHealth = LatestPerSource
       /\ SourceVerdict(ApiHealth) = "healthy" => \A r \in LatestPerSource : r.value.freshness = "fresh"
       /\ {a[2] : a \in Alerts({}, ApiHealth)} = about
       /\ about # {} => PipelineVerdict({}, ApiHealth) = "degraded"
       /\ \A figures \in {Reply([i \in 1 .. 5 |-> IF i = 4 THEN 1 ELSE 0], TRUE, ApiHealth).figures} :
            figures[1] = Cardinality({r.key : r \in table}) /\ figures[3] + figures[4] = Cardinality(about)

\* However many newer results have passed since, the agent does not call the quality healthy
\* when a check has failed; the worst severity it tells is that of a failure it has seen.
\* (tools.py:442, :504, :517, quality.py:116)
FailuresTold ==
  LET failed == {r \in table : r.value = "failed"}
      severity == [name \in CheckNames |->
                     IF name \in {"required_fields", "price_validity"} THEN "error" ELSE "warning"]
  IN \A recent \in Newest(table, ListLimit) :
       /\ QualityVerdict(QualitySummary(table), recent)
            = IF table = {} THEN "unknown" ELSE IF failed # {} THEN "degraded" ELSE "healthy"
       /\ WorstSeverity(recent, severity) \in {"none"} \cup {severity[r.key[1]] : r \in failed}

\* What the API and the agent tell of the derived tables is what the tables hold.
AnswersAgree == (dag = "health" => SourcesTold) /\ (dag = "quality" => FailuresTold)

=============================================================================
