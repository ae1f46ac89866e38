-------------------------- MODULE WarehouseQueries --------------------------
(***************************************************************************)
(* warehouse/analytics/queries.py: what the analytical queries return, as  *)
(* functions of the observations in the warehouse.  A row is an            *)
(* observation of one listing (source and product) with the day it was     *)
(* collected on; Missing is a NULL price.  Joins with names, columns only  *)
(* carried along, orders of presentation and LIMIT are left out.           *)
(***************************************************************************)
EXTENDS Integers, FiniteSets, FiniteSetsExt

Missing == -1

RowsOf(rows, source, product) == {r \in rows : r.source = source /\ r.product = product}
Since(rows, day) == {r \in rows : r.day >= day}
Priced(rows) == {r \in rows : r.price # Missing}

\* ORDER BY collected_at, id.
Before(q, r) == q.day < r.day \/ (q.day = r.day /\ q.id < r.id)
First(rows) == CHOOSE r \in rows : \A q \in rows \ {r} : Before(r, q)

Prices(rows) == {r.price : r \in Priced(rows)}
TotalPrice(rows) == SumFunction([r \in Priced(rows) |-> r.price])
Average(rows) == TotalPrice(rows) \div Cardinality(Priced(rows))

\* ROW_NUMBER() OVER (ORDER BY collected_at DESC) = 1: of rows of the same time, any.
Latest(listing) == {r \in listing : \A q \in listing : q.day <= r.day}

\* The same with the id to break ties.
LatestRecord(listing) == {r \in listing : \A q \in listing \ {r} : Before(q, r)}

PriceHistory(listing, from, to) == {r \in listing : from <= r.day /\ r.day <= to}

\* LAG(price) over the rows of the window: the change from the row just before, when both
\* prices are there and the earlier one is positive.
Previous(listing, r) == {q \in listing : Before(q, r) /\ ~ \E s \in listing : Before(q, s) /\ Before(s, r)}
Change(q, r) == [row |-> r, by |-> r.price - q.price]
PriceChanges_Slip(listing, from) ==
  LET window == Since(listing, from)
  IN {Change(c[1], c[2]) : c \in {p \in window \X window :
        p[1] \in Latest({s \in window : Before(s, p[2])}) /\ p[1].price > 0 /\ p[2].price # Missing}}
PriceChanges(listing, from) ==
  LET window == Since(listing, from)
  IN {Change(c[1], c[2]) : c \in {p \in window \X window :
        p[1] \in Previous(window, p[2]) /\ p[1].price > 0 /\ p[2].price # Missing}}

\* daily_prices: one average a day and listing.
Days(listing) == {r.day : r \in Priced(listing)}
DailyPrice(listing, day) == Average({r \in listing : r.day = day})

\* ROWS BETWEEN n - 1 PRECEDING AND CURRENT ROW counts days that have a price, not days.
RollingDays(listing, day, n) ==
  {d \in Days(listing) : d <= day /\ Cardinality({e \in Days(listing) : d < e /\ e <= day}) < n}
RollingSpread(listing, day, n) ==
  LET averages == {DailyPrice(listing, d) : d \in RollingDays(listing, day, n)}
  IN [low |-> Min(averages), high |-> Max(averages)]

\* The observations of a source, and what is wrong with them.
SourceStatistics(rows, source, from) ==
  LET recent == {r \in Since(rows, from) : r.source = source}
  IN [listings |-> Cardinality({r.product : r \in {q \in rows : q.source = source}}),
      total |-> Cardinality(recent),
      missing |-> Cardinality(recent \ Priced(recent)),
      unavailable |-> Cardinality({r \in recent : ~r.inStock})]

\* product_stats and its ranks, for the products with two prices or more.
ProductStats(rows, from) ==
  LET recent == Priced(Since(rows, from))
      listings == {l \in {<<r.source, r.product>> : r \in recent} :
                     Cardinality(RowsOf(recent, l[1], l[2])) >= 2}
      avg(l) == Average(RowsOf(recent, l[1], l[2]))
  IN {[listing |-> l,
       count |-> Cardinality(RowsOf(recent, l[1], l[2])),
       low |-> Min(Prices(RowsOf(recent, l[1], l[2]))),
       high |-> Max(Prices(RowsOf(recent, l[1], l[2]))),
       rank |-> 1 + Cardinality({k \in listings : avg(k) > avg(l)})] : l \in listings}
=============================================================================
