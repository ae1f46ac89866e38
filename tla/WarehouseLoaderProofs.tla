------------------------ MODULE WarehouseLoaderProofs ------------------------
(***************************************************************************)
(* Proofs about WarehouseLoader for every lake, batch size and number of   *)
(* loaders that race.  The tables only ever change by Inserts, so each     *)
(* fact about them is proved once, for a batch of rows of the lake         *)
(* (InsertsKeep), and carried through the actions.                         *)
(***************************************************************************)
EXTENDS WarehouseLoader, WellFoundedInduction, TLAPS

\* A link goes to a product in the table, of a name the lake has for it.
LinksResolve ==
  \A x \in Listing : links[x] # NoProduct =>
    /\ links[x] \in products
    /\ \E i \in present : /\ silver[i].listing = x
                          /\ NameOf[silver[i].product] = NameOf[links[x]]

\* An observation is a row of the lake, and its listing is linked.
ObservationsAreRows ==
  \A e \in Event : \A o \in observations[e] :
    /\ links[o.listing] # NoProduct
    /\ \E j \in present : silver[j].event = e /\ Stored(j) = o

\* A loader has scanned rows that are there.
ScannedArePresent == \A l \in Loader : left[l] \subseteq present

LoadedAreObserved == \A i \in loaded : observations[silver[i].event] # {}

IInv == /\ TypeOK
        /\ LinksResolve
        /\ ObservationsAreRows
        /\ ScannedArePresent
        /\ LoadedAreObserved

-----------------------------------------------------------------------------
(* The operators. *)

LEMMA RowTypes ==
  ASSUME TypeOK, NEW i \in Lake
  PROVE  /\ i \in Nat /\ silver[i].event \in Event /\ silver[i].listing \in Listing
         /\ silver[i].product \in Product /\ silver[i].mills \in Nat
         /\ Stored(i) \in Observation
<1>1. silver[i] \in Row
  BY DEF TypeOK
<1>2. silver[i] \in [event : Event, listing : Listing, product : Product, mills : Nat]
  BY <1>1, RowAssumption
<1>3. Rounded(silver[i].mills) \in Nat
  <2>1. silver[i].mills \in Nat
    BY <1>2
  <2>2. \A n \in Nat : ((n + 5) \div 10) * 10 \in Nat
    OBVIOUS
  <2>3. QED BY <2>1, <2>2 DEF Rounded
<1>4. i \in Nat
  BY BoundsAssumption DEF Lake
<1>5. QED BY <1>2, <1>3, <1>4 DEF Stored, Observation

\* Among the positions of an event in a batch one comes first.
LEMMA FirstExists ==
  ASSUME NEW T, T \subseteq Nat, T # {}
  PROVE  \E k \in T : \A j \in T : k <= j
<1>1. PICK k \in T : \A j \in T : ~(<<j, k>> \in OpToRel(<, Nat))
  BY NatLessThanWellFounded, WFMin
<1>2. ASSUME NEW j \in T PROVE k <= j
  <2>1. ~(<<j, k>> \in {ss \in Nat \X Nat : ss[1] < ss[2]})
    BY <1>1 DEF OpToRel
  <2>2. ~(j < k)
    BY <2>1
  <2>3. QED BY <2>2
<1>3. QED BY <1>2

\* What a batch leaves in product_observations.
LEMMA ObservationsStep ==
  ASSUME TypeOK, NEW b \in SUBSET Lake
  PROVE  /\ ObservationsWith(b) \in [Event -> SUBSET Observation]
         /\ \A e \in Event : \A o, q \in ObservationsWith(b)[e] : o = q
         /\ \A e \in Event : observations[e] \subseteq ObservationsWith(b)[e]
         /\ \A e \in Event : \A o \in ObservationsWith(b)[e] :
              o \in observations[e] \/ \E i \in b : silver[i].event = e /\ Stored(i) = o
         /\ \A i \in b : ObservationsWith(b)[silver[i].event] # {}
<1> DEFINE First(e) == {k \in b : silver[k].event = e /\
                                  \A j \in b : silver[j].event = e => k <= j}
<1>1. ASSUME NEW e \in Event
      PROVE  ObservationsWith(b)[e] =
               IF observations[e] # {} THEN observations[e] ELSE {Stored(i) : i \in First(e)}
  BY DEF ObservationsWith
<1>2. ASSUME NEW e \in Event, NEW k \in First(e), NEW j \in First(e) PROVE k = j
  <2>1. k <= j /\ j <= k
    OBVIOUS
  <2>2. QED BY <2>1, RowTypes
<1>3. ASSUME NEW e \in Event PROVE {Stored(i) : i \in First(e)} \in SUBSET Observation
  BY RowTypes
<1>4. ASSUME NEW i \in b PROVE ObservationsWith(b)[silver[i].event] # {}
  <2> DEFINE e == silver[i].event
             T == {k \in b : silver[k].event = e}
  <2>1. e \in Event
    BY RowTypes
  <2>2. T \subseteq Nat /\ T # {}
    BY RowTypes
  <2>3. \E k \in T : \A j \in T : k <= j
    <3> HIDE DEF T
    <3>1. QED BY <2>2, FirstExists
  <2>4. PICK k \in First(e) : TRUE
    BY <2>3
  <2>5. Stored(k) \in {Stored(j) : j \in First(e)}
    OBVIOUS
  <2>6. CASE observations[e] = {}
    <3>1. ObservationsWith(b)[e] = {Stored(j) : j \in First(e)}
      BY <1>1, <2>1, <2>6
    <3>2. QED BY <3>1, <2>5
  <2>7. CASE observations[e] # {}
    <3>1. ObservationsWith(b)[e] = observations[e]
      BY <1>1, <2>1, <2>7
    <3>2. QED BY <3>1, <2>7
  <2>8. QED BY <2>6, <2>7
<1>5. ObservationsWith(b) \in [Event -> SUBSET Observation]
  <2>1. \A e \in Event : ObservationsWith(b)[e] \in SUBSET Observation
    BY <1>1, <1>3 DEF TypeOK
  <2>2. ObservationsWith(b) = [e \in Event |-> ObservationsWith(b)[e]]
    BY DEF ObservationsWith
  <2>3. QED BY <2>1, <2>2
<1>6. ASSUME NEW e \in Event, NEW o \in ObservationsWith(b)[e], NEW q \in ObservationsWith(b)[e]
      PROVE  o = q
  <2>1. CASE observations[e] # {}
    BY <1>1, <2>1 DEF TypeOK
  <2>2. CASE observations[e] = {}
    <3>1. ObservationsWith(b)[e] = {Stored(i) : i \in First(e)}
      BY <1>1, <2>2
    <3>2. PICK i \in First(e), j \in First(e) : o = Stored(i) /\ q = Stored(j)
      BY <3>1
    <3>3. QED BY <3>2, <1>2
  <2>3. QED BY <2>1, <2>2
<1>7. \A e \in Event : observations[e] \subseteq ObservationsWith(b)[e]
  BY <1>1
<1>8. ASSUME NEW e \in Event, NEW o \in ObservationsWith(b)[e]
      PROVE  o \in observations[e] \/ \E i \in b : silver[i].event = e /\ Stored(i) = o
  <2>1. CASE observations[e] # {}
    BY <1>1, <2>1
  <2>2. CASE observations[e] = {}
    <3>1. ObservationsWith(b)[e] = {Stored(i) : i \in First(e)}
      BY <1>1, <2>2
    <3>2. PICK i \in First(e) : o = Stored(i)
      BY <3>1
    <3>3. QED BY <3>2
  <2>3. QED BY <2>1, <2>2
<1>9. QED BY <1>4, <1>5, <1>6, <1>7, <1>8

\* What a batch leaves in source_products.
LEMMA LinksStep ==
  ASSUME TypeOK, NEW b \in SUBSET Lake, NEW new \in LinksWith(b)
  PROVE  /\ new \in [Listing -> Product \cup {NoProduct}]
         /\ \A x \in Listing : links[x] # NoProduct => new[x] = links[x]
         /\ \A x \in Listing : new[x] # NoProduct /\ links[x] = NoProduct =>
              /\ new[x] \in ProductsWith(b)
              /\ \E i \in b : /\ silver[i].listing = x
                              /\ NameOf[silver[i].product] = NameOf[new[x]]
         /\ \A i \in b : new[silver[i].listing] # NoProduct
<1>1. PICK r \in Resolutions(b) :
        new \in {f \in [Listing -> Product \cup {NoProduct}] : \A x \in Listing :
                   IF links[x] = NoProduct /\ Proposed(b, r, x) # {}
                   THEN f[x] \in Proposed(b, r, x) ELSE f[x] = links[x]}
  BY DEF LinksWith
<1>2. /\ new \in [Listing -> Product \cup {NoProduct}]
      /\ \A x \in Listing : IF links[x] = NoProduct /\ Proposed(b, r, x) # {}
                            THEN new[x] \in Proposed(b, r, x) ELSE new[x] = links[x]
  BY <1>1
<1>3. ASSUME NEW i \in b
      PROVE  /\ r[NameOf[silver[i].product]] \in ProductsWith(b)
             /\ NameOf[r[NameOf[silver[i].product]]] = NameOf[silver[i].product]
             /\ r[NameOf[silver[i].product]] \in Product
  <2>1. ProductsWith(b) \subseteq Product
    BY RowTypes DEF ProductsWith, TypeOK
  <2>2. r \in [{NameOf[silver[k].product] : k \in b} -> ProductsWith(b)]
    BY DEF Resolutions
  <2>3. \A n \in {NameOf[silver[k].product] : k \in b} : NameOf[r[n]] = n
    BY <2>2 DEF Resolutions
  <2>4. QED BY <2>1, <2>2, <2>3
<1>4. ASSUME NEW x \in Listing, new[x] # NoProduct, links[x] = NoProduct
      PROVE  /\ new[x] \in ProductsWith(b)
             /\ \E i \in b : /\ silver[i].listing = x
                             /\ NameOf[silver[i].product] = NameOf[new[x]]
  <2>1. new[x] \in Proposed(b, r, x)
    BY <1>2, <1>4
  <2>2. PICK i \in b : silver[i].listing = x /\ new[x] = r[NameOf[silver[i].product]]
    BY <2>1 DEF Proposed
  <2>3. QED BY <2>2, <1>3
<1>5. ASSUME NEW i \in b PROVE new[silver[i].listing] # NoProduct
  <2> DEFINE x == silver[i].listing
  <2>1. x \in Listing
    BY RowTypes
  <2>2. Proposed(b, r, x) # {}
    BY DEF Proposed
  <2>3. \A p \in Proposed(b, r, x) : p \in Product
    BY <1>3 DEF Proposed
  <2>4. QED BY <1>2, <2>1, <2>2, <2>3, NoProductAssumption
<1>6. QED BY <1>2, <1>4, <1>5

-----------------------------------------------------------------------------
(* The invariant. *)

\* A batch that is inserted keeps what is said of the tables, and leaves an
\* observation for each of its rows.
LEMMA InsertsKeep ==
  ASSUME IInv, NEW b \in SUBSET present, Inserts(b), UNCHANGED lakeVars
  PROVE  /\ products' \subseteq Product
         /\ links' \in [Listing -> Product \cup {NoProduct}]
         /\ observations' \in [Event -> SUBSET Observation]
         /\ \A e \in Event : \A o, q \in observations'[e] : o = q
         /\ LinksResolve' /\ ObservationsAreRows'
         /\ \A i \in loaded \cup b : observations'[silver[i].event] # {}
<1> USE DEF IInv, Inserts
<1>1. b \in SUBSET Lake /\ present \subseteq Lake
  BY DEF TypeOK
<1>2. silver' = silver /\ present' = present
  BY DEF lakeVars
<1>3. products' = ProductsWith(b) /\ products \subseteq ProductsWith(b)
  BY DEF ProductsWith
<1>4. ProductsWith(b) \subseteq Product
  BY <1>1, RowTypes DEF ProductsWith, TypeOK
<1>5. LinksResolve'
  <2> SUFFICES ASSUME NEW x \in Listing, links'[x] # NoProduct
               PROVE  /\ links'[x] \in products'
                      /\ \E i \in present : /\ silver[i].listing = x
                                            /\ NameOf[silver[i].product] = NameOf[links'[x]]
    BY <1>2 DEF LinksResolve
  <2>1. CASE links[x] = NoProduct
    BY <2>1, <1>1, <1>3, LinksStep
  <2>2. CASE links[x] # NoProduct
    <3>1. links'[x] = links[x]
      BY <2>2, <1>1, LinksStep
    <3>2. QED BY <2>2, <3>1, <1>3 DEF LinksResolve
  <2>3. QED BY <2>1, <2>2
<1>6. ObservationsAreRows'
  <2> SUFFICES ASSUME NEW e \in Event, NEW o \in observations'[e]
               PROVE  /\ links'[o.listing] # NoProduct
                      /\ \E j \in present : silver[j].event = e /\ Stored(j) = o
    BY <1>2 DEF ObservationsAreRows, Stored
  <2>1. o \in observations[e] \/ \E i \in b : silver[i].event = e /\ Stored(i) = o
    BY <1>1, ObservationsStep
  <2>2. CASE o \in observations[e]
    <3>1. o.listing \in Listing
      BY <2>2 DEF TypeOK, Observation
    <3>2. links[o.listing] # NoProduct
      BY <2>2 DEF ObservationsAreRows
    <3>3. links'[o.listing] = links[o.listing]
      BY <3>1, <3>2, <1>1, LinksStep
    <3>4. QED BY <2>2, <3>2, <3>3 DEF ObservationsAreRows
  <2>3. ASSUME NEW i \in b, silver[i].event = e, Stored(i) = o
        PROVE  /\ links'[o.listing] # NoProduct
               /\ \E j \in present : silver[j].event = e /\ Stored(j) = o
    <3>1. o.listing = silver[i].listing
      BY <2>3 DEF Stored
    <3>2. QED BY <2>3, <3>1, <1>1, LinksStep
  <2>4. QED BY <2>1, <2>2, <2>3
<1>7. ASSUME NEW i \in loaded \cup b PROVE observations'[silver[i].event] # {}
  <2>1. i \in Lake
    BY <1>1 DEF TypeOK
  <2>2. silver[i].event \in Event
    BY <2>1, RowTypes
  <2>3. CASE i \in b
    BY <2>3, <1>1, ObservationsStep
  <2>4. CASE i \in loaded
    BY <2>4, <2>2, <1>1, ObservationsStep DEF LoadedAreObserved
  <2>5. QED BY <2>3, <2>4
<1>8. QED BY <1>1, <1>3, <1>4, <1>5, <1>6, <1>7, LinksStep, ObservationsStep

\* A step that leaves the tables and the lake alone.
LEMMA TablesKept ==
  ASSUME IInv, UNCHANGED tableVars, silver' = silver, present \subseteq present'
  PROVE  LinksResolve' /\ ObservationsAreRows'
BY DEF IInv, tableVars, LinksResolve, ObservationsAreRows, Stored

LEMMA Invariance == IInv /\ [Next]_vars => IInv'
<1> SUFFICES ASSUME IInv, [Next]_vars PROVE IInv'
  OBVIOUS
<1> USE DEF IInv, lakeVars, tableVars, loaderVars
<1>b. \A l \in Loader : Batch(l) \in SUBSET present /\ left[l] \subseteq present
  BY DEF Batch, ScannedArePresent
<1>1. ASSUME NEW i \in Lake, Appear(i) PROVE IInv'
  <2>1. LinksResolve' /\ ObservationsAreRows'
    BY <1>1, TablesKept DEF Appear
  <2>2. TypeOK'
    BY <1>1 DEF Appear, TypeOK
  <2>3. ScannedArePresent' /\ LoadedAreObserved'
    BY <1>1 DEF Appear, ScannedArePresent, LoadedAreObserved
  <2>4. QED BY <2>1, <2>2, <2>3
<1>2. ASSUME NEW l \in Loader, Scan(l) PROVE IInv'
  <2>1. LinksResolve' /\ ObservationsAreRows'
    BY <1>2, TablesKept DEF Scan
  <2>2. TypeOK'
    BY <1>2 DEF Scan, TypeOK
  <2>3. ScannedArePresent' /\ LoadedAreObserved'
    BY <1>2 DEF Scan, ScannedArePresent, LoadedAreObserved, TypeOK
  <2>4. QED BY <2>1, <2>2, <2>3
<1>3. ASSUME NEW l \in Loader, Check(l) PROVE IInv'
  <2>1. LinksResolve' /\ ObservationsAreRows'
    BY <1>3, TablesKept DEF Check
  <2>2. TypeOK'
    BY <1>3 DEF Check, TypeOK
  <2>3. ScannedArePresent' /\ LoadedAreObserved'
    BY <1>3 DEF Check, ScannedArePresent, LoadedAreObserved
  <2>4. QED BY <2>1, <2>2, <2>3
<1>4. ASSUME NEW l \in Loader, Commit(l) PROVE IInv'
  <2>1. /\ products' \subseteq Product
        /\ links' \in [Listing -> Product \cup {NoProduct}]
        /\ observations' \in [Event -> SUBSET Observation]
        /\ \A e \in Event : \A o, q \in observations'[e] : o = q
        /\ LinksResolve' /\ ObservationsAreRows'
        /\ \A i \in loaded \cup Batch(l) : observations'[silver[i].event] # {}
    BY <1>4, <1>b, InsertsKeep DEF Commit
  <2>2. TypeOK'
    BY <1>4, <1>b, <2>1 DEF Commit, TypeOK
  <2>3. ScannedArePresent' /\ LoadedAreObserved'
    BY <1>4, <2>1 DEF Commit, ScannedArePresent, LoadedAreObserved, TypeOK
  <2>4. QED BY <2>1, <2>2, <2>3
<1>5. ASSUME NEW l \in Loader, Reject(l) PROVE IInv'
  <2>1. LinksResolve' /\ ObservationsAreRows'
    BY <1>5, TablesKept DEF Reject
  <2>2. TypeOK'
    BY <1>5 DEF Reject, TypeOK
  <2>3. ScannedArePresent' /\ LoadedAreObserved'
    BY <1>5 DEF Reject, ScannedArePresent, LoadedAreObserved, TypeOK
  <2>4. QED BY <2>1, <2>2, <2>3
<1>6. ASSUME NEW l \in Loader, Fail(l) PROVE IInv'
  <2>0. /\ pc' = [pc EXCEPT ![l] = "idle"]
        /\ left' = [left EXCEPT ![l] = {}]
        /\ failure' = [failure EXCEPT ![l] = "error"]
        /\ UNCHANGED <<lakeVars, loaded>>
    BY <1>6 DEF Fail
  <2>1. CASE UNCHANGED tableVars
    <3>1. LinksResolve' /\ ObservationsAreRows'
      BY <2>0, <2>1, TablesKept
    <3>2. TypeOK'
      BY <2>0, <2>1 DEF TypeOK
    <3>3. ScannedArePresent' /\ LoadedAreObserved'
      BY <2>0, <2>1 DEF ScannedArePresent, LoadedAreObserved, TypeOK
    <3>4. QED BY <3>1, <3>2, <3>3
  <2>2. CASE Inserts(Batch(l))
    <3>1. /\ products' \subseteq Product
          /\ links' \in [Listing -> Product \cup {NoProduct}]
          /\ observations' \in [Event -> SUBSET Observation]
          /\ \A e \in Event : \A o, q \in observations'[e] : o = q
          /\ LinksResolve' /\ ObservationsAreRows'
          /\ \A i \in loaded \cup Batch(l) : observations'[silver[i].event] # {}
      BY <2>0, <2>2, <1>b, InsertsKeep
    <3>2. TypeOK'
      BY <2>0, <3>1 DEF TypeOK
    <3>3. ScannedArePresent' /\ LoadedAreObserved'
      BY <2>0, <3>1 DEF ScannedArePresent, LoadedAreObserved, TypeOK
    <3>4. QED BY <3>1, <3>2, <3>3
  <2>3. QED BY <1>6, <2>1, <2>2 DEF Fail
<1>7. CASE UNCHANGED vars
  <2>1. LinksResolve' /\ ObservationsAreRows'
    BY <1>7, TablesKept DEF vars
  <2>2. QED BY <1>7, <2>1 DEF vars, TypeOK, ScannedArePresent, LoadedAreObserved
<1>8. QED BY <1>1, <1>2, <1>3, <1>4, <1>5, <1>6, <1>7 DEF Next, LoaderStep

LEMMA InitiallyIInv == Init => IInv
BY DEF Init, IInv, TypeOK, LinksResolve, ObservationsAreRows, ScannedArePresent, LoadedAreObserved

\* The invariant holds in every reachable state.
THEOREM LoaderInvariant == Spec => []IInv
BY InitiallyIInv, Invariance, PTL DEF Spec

-----------------------------------------------------------------------------
(* The properties. *)

\* The tables and the loaders stay well typed, and an event has at most one
\* observation (the unique key of _insert_observations).
THEOREM TypeCorrect == Spec => []TypeOK
<1>1. IInv => TypeOK
  BY DEF IInv
<1>2. QED BY <1>1, LoaderInvariant, PTL

\* An observation's listing is linked to a product in the table, of a name
\* that the lake has for the listing.
THEOREM ObservationsStayLinked == Spec => []ObservationsLinked
<1>1. IInv => ObservationsLinked
  <2> SUFFICES ASSUME IInv, NEW e \in Event, NEW o \in observations[e]
               PROVE  /\ links[o.listing] \in products
                      /\ \E i \in present : /\ silver[i].listing = o.listing
                                            /\ NameOf[silver[i].product] = NameOf[links[o.listing]]
    BY DEF ObservationsLinked
  <2>1. o.listing \in Listing
    BY DEF IInv, TypeOK, Observation
  <2>2. links[o.listing] # NoProduct
    BY DEF IInv, ObservationsAreRows
  <2>3. QED BY <2>1, <2>2 DEF IInv, LinksResolve
<1>2. QED BY <1>1, LoaderInvariant, PTL

\* A row counted in rows_loaded has an observation, and it is one of the lake.
THEOREM LoadedRowsAreStored == Spec => []LoadedIsStored
<1>1. IInv => LoadedIsStored
  <2> SUFFICES ASSUME IInv, NEW i \in loaded
               PROVE  \E j \in present : silver[j].event = silver[i].event /\
                                         Stored(j) \in observations[silver[i].event]
    BY DEF LoadedIsStored
  <2>1. i \in Lake
    BY DEF IInv, TypeOK
  <2>2. silver[i].event \in Event
    BY <2>1, RowTypes DEF IInv
  <2>3. PICK o \in observations[silver[i].event] : TRUE
    BY DEF IInv, LoadedAreObserved
  <2>4. QED BY <2>2, <2>3 DEF IInv, ObservationsAreRows
<1>2. QED BY <1>1, LoaderInvariant, PTL

\* No step changes an observation or a link that is in the tables.
THEOREM TablesNeverShrink == Spec => TablesOnlyGrow
<1> DEFINE Kept == /\ \A e \in Event : observations[e] \subseteq observations'[e]
                   /\ \A x \in Listing : links[x] # NoProduct => links'[x] = links[x]
<1>1. ASSUME IInv, NEW b \in SUBSET Lake, Inserts(b) PROVE Kept
  BY <1>1, LinksStep, ObservationsStep DEF Inserts, IInv
<1>2. IInv /\ [Next]_vars => [Kept]_vars
  <2> SUFFICES ASSUME IInv, Next PROVE Kept
    OBVIOUS
  <2>1. \A l \in Loader : Batch(l) \in SUBSET Lake
    BY DEF IInv, TypeOK, Batch
  <2>2. CASE UNCHANGED tableVars
    BY <2>2 DEF tableVars
  <2>3. CASE \E l \in Loader : Inserts(Batch(l))
    BY <2>3, <2>1, <1>1
  <2>4. QED
    BY <2>2, <2>3 DEF Next, LoaderStep, Appear, Scan, Check, Commit, Reject, Fail
<1>3. QED
  BY <1>2, LoaderInvariant, PTL DEF Spec, TablesOnlyGrow
=============================================================================
