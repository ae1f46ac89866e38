----------------------------- MODULE ApiQueries -----------------------------
(***************************************************************************)
(* The read side: the queries of services/api/repositories, over the       *)
(* observations and the tables that the DAGs derive, and what the agent's  *)
(* tools and graph make of their answers.  Observations are those of       *)
(* WarehouseQueries, with a currency; derived rows are those of            *)
(* DerivedTables, [date, key, value, at], where at orders those of a key.  *)
(*                                                                         *)
(* Joins with names, columns only carried along and filters of a request   *)
(* that the tools never use are left out.                                  *)
(***************************************************************************)
EXTENDS WarehouseQueries, SequencesExt

-----------------------------------------------------------------------------
(* Products. *)

\* ORDER BY: rows of which neither precedes the other come in any order.
Orders(rows, Precedes(_, _)) ==
  {s \in SetToSeqs(rows) : \A i, j \in DOMAIN s : i < j => ~Precedes(s[j], s[i])}

\* OFFSET and LIMIT.
PageOf(s, page, size) == SubSeq(s, (page - 1) * size + 1, Min({page * size, Len(s)}))

NewestFirst_Slip(q, r) == r.day < q.day
NewestFirst(q, r) == Before(r, q)

\* list_observations: what the page may hold.
ObservationPages(rows, page, size) == {PageOf(s, page, size) : s \in Orders(rows, NewestFirst)}

OfProduct(rows, p) == {r \in rows : r.product = p}

\* list_products: an entry for every newest observation of a product.
ListedProducts(rows) ==
  UNION {{[product |-> p, latest |-> r] : r \in Latest(OfProduct(rows, p))} :
         p \in {r.product : r \in rows}}

\* get_product: one of them.
ProductDetails(rows, p) == Latest(OfProduct(rows, p))

-----------------------------------------------------------------------------
(* Prices. *)

\* LAG by the time alone: of rows of the same time, any may come before.
Preceding(listing, r) ==
  {q \in listing \ {r} : q.day <= r.day /\ ~ \E s \in listing : q.day < s.day /\ s.day < r.day}

\* list_price_changes: the window is cut out after LAG has seen the whole history.
ApiChanges(listing, from) ==
  {Change(c[1], c[2]) : c \in {p \in Priced(listing) \X Priced(Since(listing, from)) :
     p[1] \in Preceding(listing, p[2]) /\ p[1].currency = p[2].currency}}

Earliest(rows) == {r \in rows : \A q \in rows : r.day <= q.day}

\* list_price_movers: the first and the last price of the listings with enough of them.
PriceMovers(rows, from, least) ==
  LET recent == Priced(Since(rows, from))
      of(l) == RowsOf(recent, l[1], l[2])
      listings == {l \in {<<r.source, r.product>> : r \in recent} : Cardinality(of(l)) >= least}
      ends(l) == {e \in Earliest(of(l)) \X Latest(of(l)) : e[1].currency = e[2].currency}
  IN UNION {{[listing |-> l, first |-> e[1], last |-> e[2], by |-> e[2].price - e[1].price,
              count |-> Cardinality(of(l))] : e \in ends(l)} : l \in listings}

\* list_price_statistics: a group for each source and currency, and one without currency for
\* a source with a listing that was not observed.
PriceStatistics(rows, from) ==
  LET recent == Since(rows, from)
      quiet(s) == \E r \in rows : r.source = s /\ RowsOf(recent, s, r.product) = {}
      groups == {<<r.source, r.currency>> : r \in recent}
                  \cup {<<s, "none">> : s \in {r.source : r \in rows}}
      of(g) == {r \in recent : r.source = g[1] /\ r.currency = g[2]}
  IN {[source |-> g[1], currency |-> g[2], total |-> Cardinality(of(g)),
       priced |-> Cardinality(Priced(of(g))), prices |-> Prices(of(g))] :
       g \in {g \in groups : g[2] # "none" \/ quiet(g[1])}}

-----------------------------------------------------------------------------
(* The derived tables. *)

\* ORDER BY a time, newest first, with LIMIT n.
Newest(rows, n) ==
  LET sure == {r \in rows : Cardinality({q \in rows : q.at >= r.at}) <= n}
      tied == {r \in rows \ sure : Cardinality({q \in rows : q.at > r.at}) < n}
  IN {sure \cup some : some \in kSubset(Min({n - Cardinality(sure), Cardinality(tied)}), tied)}

\* list_source_health: limit * 10 rows are fetched by name and time, and the first of each
\* source is kept.  rank is the order of the names.
HealthPrecedes_Slip(q, r, rank) ==
  rank[q.key[1]] < rank[r.key[1]] \/ (q.key = r.key /\ q.at < r.at)
HealthPrecedes(q, r, rank) ==
  rank[q.key[1]] < rank[r.key[1]] \/ (q.key = r.key /\ q.at > r.at)
ListSourceHealth(rows, rank, limit, overfetch) ==
  LET First_n(of, n) == {r \in of : Cardinality({q \in of : HealthPrecedes(q, r, rank)}) < n}
      fetched == First_n(rows, limit * overfetch)
  IN First_n({r \in fetched : ~ \E q \in fetched : q.key = r.key /\ HealthPrecedes(q, r, rank)}, limit)

\* _derive_overall_status.
OverallStatus(value) ==
  CASE value.freshness = "stale" -> "stale"
    [] value.freshness # "stale" /\ value.state = "healthy" ->
         IF value.freshness = "fresh" THEN "healthy" ELSE "unknown"
    [] OTHER -> IF value.state = "stale" THEN "stale" ELSE "degraded"

\* list_quality_summary: all the runs of a check.
QualitySummary(rows) ==
  {[check |-> name,
    runs |-> Cardinality({r \in rows : r.key[1] = name}),
    failed |-> Cardinality({r \in rows : r.key[1] = name /\ r.value = "failed"})] :
     name \in {r.key[1] : r \in rows}}

-----------------------------------------------------------------------------
(* The agent's tools. *)

Having(list, status) == {r \in list : OverallStatus(r.value) = status}

\* get_source_health.
SourceVerdict(list) ==
  IF list = {} THEN "unknown"
  ELSE IF Having(list, "degraded") # {} THEN "degraded"
  ELSE IF Having(list, "stale") # {} THEN "stale"
  ELSE IF Having(list, "healthy") = list THEN "healthy" ELSE "unknown"

\* get_pipeline_status; a run is [type, status], the status derived from that of the row.
PipelineVerdict(runs, list) ==
  IF (\E r \in runs : r.status = "failed") \/ Having(list, "degraded") \cup Having(list, "stale") # {}
  THEN "degraded"
  ELSE IF runs = {} THEN "unknown" ELSE "healthy"
Alerts(runs, list) ==
  {<<"pipeline_failure", r.type>> : r \in {r \in runs : r.status = "failed"}}
    \cup {<<"source_degraded", r.key[1]>> : r \in Having(list, "degraded")}
    \cup {<<"source_stale", r.key[1]>> : r \in Having(list, "stale")}

\* get_data_quality.
QualityVerdict(summary, recent) ==
  IF summary = {} THEN "unknown"
  ELSE IF (\E s \in summary : s.failed > 0) \/ (\E r \in recent : r.value = "failed")
  THEN "degraded" ELSE "healthy"
WorstSeverity(recent, severity) ==
  LET failed == {severity[r.key[1]] : r \in {r \in recent : r.value = "failed"}}
  IN IF "error" \in failed THEN "error" ELSE IF "warning" \in failed THEN "warning" ELSE "none"

-----------------------------------------------------------------------------
(* The agent's graph: classify, one tool, compose. *)

Intents == <<"price_analytics", "pipeline_status", "data_quality", "source_health",
             "product_history">>

\* classify_intent: the first of the intents with the most keywords in the question.
Classify(keywords) ==
  LET best == {i \in DOMAIN Intents : \A j \in DOMAIN Intents : keywords[j] <= keywords[i]}
  IN IF \A i \in DOMAIN Intents : keywords[i] = 0 THEN "general" ELSE Intents[Min(best)]

\* _route_intent, and the tool that each node calls.
Tool(intent) ==
  CASE intent \in {"price_analytics", "product_history"} -> "get_dataset_metadata"
    [] intent = "pipeline_status" -> "get_pipeline_status"
    [] intent = "data_quality"    -> "get_data_quality"
    [] intent = "source_health"   -> "get_source_health"
    [] OTHER                      -> "none"

\* _summarize_dict: of the tools' results only that of get_source_health has figures it tells.
Figures(tool, list) ==
  IF tool # "get_source_health" THEN <<>>
  ELSE <<Cardinality(list), Cardinality(Having(list, "healthy")),
         Cardinality(Having(list, "degraded")), Cardinality(Having(list, "stale"))>>

\* _compose_response_node: an error of the tool is told and not cited as a source.
Reply(keywords, succeeds, list) ==
  LET tool == Tool(Classify(keywords)) IN
  IF tool = "none" THEN [kind |-> "rephrase", sources |-> {}, figures |-> <<>>]
  ELSE IF ~succeeds THEN [kind |-> "errors", sources |-> {}, figures |-> <<>>]
  ELSE [kind |-> "summary", sources |-> {tool}, figures |-> Figures(tool, list)]
=============================================================================
