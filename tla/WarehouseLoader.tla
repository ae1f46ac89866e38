--------------------------- MODULE WarehouseLoader ---------------------------
(***************************************************************************)
(* warehouse/loader/batch_loader.py under services/warehouse-loader: each  *)
(* cycle scans the whole Silver layer, in key order, and loads it batch by *)
(* batch, one transaction each.  Nothing remembers what was loaded before: *)
(* the unique keys of the tables are to make a repeated load harmless.  A  *)
(* batch that raises ends the cycle, and the next cycle starts again.      *)
(*                                                                         *)
(* A price stands for all that is compared between an observation and a    *)
(* row.  It is counted in mills: the column has two decimals, so what is   *)
(* stored is rounded to ten mills.  Several loaders may run, in one        *)
(* transaction each, which see what the others have committed.             *)
(***************************************************************************)
EXTENDS Naturals, FiniteSets

CONSTANTS Row,        \* what a Silver object holds
          Event,      \* event ids
          Listing,    \* (source, external_id)
          Product,    \* (canonical_name, category)
          NameOf,     \* product -> its canonical name
          NoProduct,  \* the product of a listing without a source_products row
          Loader,     \* loader processes
          LakeSize,   \* bound: objects in the layer
          BatchSize,  \* rows in a transaction
          MaxMills,   \* NUMERIC(12, 2): prices from here on overflow
          MayFail     \* whether the store and the database fail

Lake == 1 .. LakeSize

ASSUME RowAssumption ==
  Row \subseteq [event : Event, listing : Listing, product : Product, mills : Nat]
ASSUME BoundsAssumption ==
  /\ LakeSize \in Nat /\ BatchSize \in Nat \ {0}
  /\ MaxMills \in Nat
ASSUME NoProductAssumption == NoProduct \notin Product
ASSUME FaultAssumption == MayFail \in BOOLEAN

VARIABLES silver,        \* position in key order -> the row written there
          present,       \* the positions written so far
          products,      \* the products with a row in the table
          links,         \* source_products: listing -> product
          observations,  \* product_observations: event -> its row, {} if none
          pc,            \* loader -> where the cycle stands
          left,          \* loader -> the scanned rows it has not loaded
          failure,       \* loader -> how its last cycle ended
          loaded         \* the rows counted in rows_loaded

lakeVars == <<silver, present>>
tableVars == <<products, links, observations>>
loaderVars == <<pc, left, failure>>
vars == <<lakeVars, tableVars, loaderVars, loaded>>

Observation == [listing : Listing, mills : Nat]

TypeOK ==
  /\ silver \in [Lake -> Row]
  /\ present \subseteq Lake
  /\ products \subseteq Product
  /\ links \in [Listing -> Product \cup {NoProduct}]
  /\ observations \in [Event -> SUBSET Observation]
  /\ \A e \in Event : \A o, q \in observations[e] : o = q
  /\ pc \in [Loader -> {"idle", "check", "insert"}]
  /\ left \in [Loader -> SUBSET Lake]
  /\ failure \in [Loader -> {"none", "error", "conflict"}]
  /\ loaded \subseteq Lake

-----------------------------------------------------------------------------
(* What a batch holds, and what the tables make of it. *)

\* The next rows in key order.
Batch(l) == {i \in left[l] : Cardinality({j \in left[l] : j < i}) < BatchSize}

\* NUMERIC(12, 2) rounds half away from zero.
Rounded(mills) == ((mills + 5) \div 10) * 10

Fitting == {r \in Row : Rounded(r.mills) < MaxMills}
Exact == {r \in Row : Rounded(r.mills) = r.mills}
Fits(i) == silver[i] \in Fitting
Stored(i) == [listing |-> silver[i].listing, mills |-> Rounded(silver[i].mills)]
ObservedAs(i, mills) == \E o \in observations[silver[i].event] : o.mills = mills

\* A row that differs from what the table holds for its event; the listing is
\* not compared.  The slip leaves the answer to the unique key.
Conflicting_Slip(i) == FALSE
Conflicting(i) ==
  observations[silver[i].event] # {} /\ ~ObservedAs(i, silver[i].mills)

\* _upsert_products has no key to meet: every batch inserts another row for
\* each of its pairs.  The rows of a pair are not told apart here.
ProductsWith(b) == products \cup {silver[i].product : i \in b}

\* The product row that each name of the batch resolves to: any row of that
\* name (the category is not compared).  The slip takes any row.
Resolutions_Slip(b) ==
  [{NameOf[silver[i].product] : i \in b} -> ProductsWith(b)]
Resolutions(b) ==
  {r \in [{NameOf[silver[i].product] : i \in b} -> ProductsWith(b)] :
     \A n \in DOMAIN r : NameOf[r[n]] = n}

\* The products the batch proposes for a listing.
Proposed(b, r, x) == {r[NameOf[silver[i].product]] : i \in {k \in b : silver[k].listing = x}}

\* ON CONFLICT (source_id, external_id) DO NOTHING: a listing keeps its
\* product.
LinksWith(b) ==
  UNION {{new \in [Listing -> Product \cup {NoProduct}] : \A x \in Listing :
            IF links[x] = NoProduct /\ Proposed(b, r, x) # {}
            THEN new[x] \in Proposed(b, r, x) ELSE new[x] = links[x]}
         : r \in Resolutions(b)}

\* ON CONFLICT (event_id) DO NOTHING: the first row of an event stays.  The
\* slip has no key on the event.
ObservationsWith_Slip(b) ==
  [e \in Event |-> observations[e] \cup {Stored(i) : i \in {k \in b : silver[k].event = e}}]
ObservationsWith(b) ==
  [e \in Event |->
     IF observations[e] # {} THEN observations[e]
     ELSE {Stored(i) : i \in {k \in b : silver[k].event = e /\
                                \A j \in b : silver[j].event = e => k <= j}}]

-----------------------------------------------------------------------------

Init ==
  /\ silver \in [Lake -> Row]
  /\ present = {}
  /\ products = {}
  /\ links = [x \in Listing |-> NoProduct]
  /\ observations = [e \in Event |-> {}]
  /\ pc = [l \in Loader |-> "idle"]
  /\ left = [l \in Loader |-> {}]
  /\ failure = [l \in Loader |-> "none"]
  /\ loaded = {}

\* The lake writer stores a Silver object, anywhere in the key order.
Appear(i) ==
  /\ i \notin present
  /\ present' = present \cup {i}
  /\ UNCHANGED <<silver, tableVars, loaderVars, loaded>>

\* load_from_lake: scan and collect, which raise without an object to read.
Scan(l) ==
  /\ pc[l] = "idle" /\ present # {}
  /\ pc' = [pc EXCEPT ![l] = "check"]
  /\ left' = [left EXCEPT ![l] = present]
  /\ failure' = [failure EXCEPT ![l] = "none"]
  /\ UNCHANGED <<lakeVars, tableVars, loaded>>

\* The existing observations are read and compared.
Check(l) ==
  /\ pc[l] = "check"
  /\ \A i \in Batch(l) : ~Conflicting(i)
  /\ pc' = [pc EXCEPT ![l] = "insert"]
  /\ UNCHANGED <<lakeVars, tableVars, left, failure, loaded>>

\* What the transaction inserts becomes visible at once.
Inserts(b) ==
  /\ \A i \in b : Fits(i)
  /\ products' = ProductsWith(b)
  /\ links' \in LinksWith(b)
  /\ observations' = ObservationsWith(b)

\* The slip goes back to the first batch.
Commit_Slip(l) ==
  /\ pc[l] = "insert"
  /\ Inserts(Batch(l))
  /\ left' = left
  /\ pc' = [pc EXCEPT ![l] = "check"]
  /\ loaded' = loaded \cup Batch(l)
  /\ UNCHANGED <<lakeVars, failure>>
Commit(l) ==
  /\ pc[l] = "insert"
  /\ Inserts(Batch(l))
  /\ left' = [left EXCEPT ![l] = @ \ Batch(l)]
  /\ pc' = [pc EXCEPT ![l] = IF left[l] \subseteq Batch(l) THEN "idle" ELSE "check"]
  /\ loaded' = loaded \cup Batch(l)
  /\ UNCHANGED <<lakeVars, failure>>

\* The cycle ends with a row that raises; the batches after it are not tried.
\* The slip skips the batch.
Reject_Slip(l) ==
  /\ \/ pc[l] = "check" /\ \E i \in Batch(l) : Conflicting(i)
     \/ pc[l] = "insert" /\ \E i \in Batch(l) : ~Fits(i)
  /\ pc' = [pc EXCEPT ![l] = IF left[l] \subseteq Batch(l) THEN "idle" ELSE "check"]
  /\ left' = [left EXCEPT ![l] = @ \ Batch(l)]
  /\ failure' = [failure EXCEPT ![l] = IF pc[l] = "check" THEN "conflict" ELSE "error"]
  /\ loaded' = loaded \cup Batch(l)
  /\ UNCHANGED <<lakeVars, tableVars>>
Reject(l) ==
  /\ \/ pc[l] = "check" /\ \E i \in Batch(l) : Conflicting(i)
     \/ pc[l] = "insert" /\ \E i \in Batch(l) : ~Fits(i)
  /\ pc' = [pc EXCEPT ![l] = "idle"]
  /\ left' = [left EXCEPT ![l] = {}]
  /\ failure' = [failure EXCEPT ![l] = IF pc[l] = "check" THEN "conflict" ELSE "error"]
  /\ UNCHANGED <<lakeVars, tableVars, loaded>>

\* The database or the process fails: the transaction is rolled back, or, if
\* the answer to the commit was lost, it is in the tables all the same.
Fail(l) ==
  /\ MayFail /\ pc[l] # "idle"
  /\ \/ UNCHANGED tableVars
     \/ pc[l] = "insert" /\ Inserts(Batch(l))
  /\ pc' = [pc EXCEPT ![l] = "idle"]
  /\ left' = [left EXCEPT ![l] = {}]
  /\ failure' = [failure EXCEPT ![l] = "error"]
  /\ UNCHANGED <<lakeVars, loaded>>

LoaderStep(l) == Scan(l) \/ Check(l) \/ Commit(l) \/ Reject(l)

Next ==
  \/ \E i \in Lake : Appear(i)
  \/ \E l \in Loader : LoaderStep(l) \/ Fail(l)

Spec == Init /\ [][Next]_vars

-----------------------------------------------------------------------------
(* Safety. *)

\* A row counted as loaded has an observation of its event in the table, and
\* it is one of the lake, up to the precision of the column.  (Which one, if
\* the lake has two, is what ConflictSurfaces is about.)
LoadedIsStored ==
  \A i \in loaded : \E j \in present :
    silver[j].event = silver[i].event /\ Stored(j) \in observations[silver[i].event]

\* An observation belongs to a listing that is linked to a product in the
\* table, with the name some row of that listing carries.
ObservationsLinked ==
  \A e \in Event : \A o \in observations[e] :
    /\ links[o.listing] \in products
    /\ \E i \in present : /\ silver[i].listing = o.listing
                          /\ NameOf[silver[i].product] = NameOf[links[o.listing]]

\* Replays and later batches leave what is in the tables alone.
TablesOnlyGrow ==
  [][/\ \A e \in Event : observations[e] \subseteq observations'[e]
     /\ \A x \in Listing : links[x] # NoProduct => links'[x] = links[x]]_vars

\* A load is refused for a conflict only if the lake holds two payloads for
\* one event: "If the same event_id exists with different payload data"
\* (batch_loader.py, _insert_observations).
ConflictsAreReal ==
  \A l \in Loader : failure[l] = "conflict" =>
    \E i \in present, j \in present :
      silver[i].event = silver[j].event /\ silver[i].mills # silver[j].mills

-----------------------------------------------------------------------------
(* Liveness. *)

\* The loop comes round: a cycle ends, and the next one starts.
FairSpec == Spec /\ \A l \in Loader : WF_vars(LoaderStep(l))

\* From some point on neither the database nor the process fails.
Calm == <>[][\A l \in Loader : failure'[l] = "error" => failure[l] = "error"]_vars

\* No row raises: prices fit and are exact, and an event has one payload.
Harmless ==
  /\ \A i \in Lake : silver[i] \in Fitting \cap Exact
  /\ \A i \in Lake, j \in Lake : silver[i].event = silver[j].event => silver[i].mills = silver[j].mills

\* A harmless lake is loaded in the end, whatever failed on the way.
EverythingLoaded == Calm => (Harmless => <>[](present \subseteq loaded))

\* Two payloads under one event are reported in the end, although the insert
\* drops the second of them silently when both are in one batch or two loaders
\* race: "raises an error to escalate the conflict rather than silently
\* overwriting" (batch_loader.py, _insert_observations).
ConflictSurfaces ==
  Calm => ((\A i \in Lake : Fits(i)) =>
    ((\E i \in present, j \in present :
        silver[i].event = silver[j].event /\ silver[i].mills # silver[j].mills)
      ~> (\E l \in Loader : failure[l] = "conflict")))
=============================================================================
