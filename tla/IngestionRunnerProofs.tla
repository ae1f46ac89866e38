------------------------ MODULE IngestionRunnerProofs ------------------------
(***************************************************************************)
(* Proofs about IngestionRunner for every list of distinct sources and any *)
(* number of cycles, events and retries.  NothingTwice is not inductive:   *)
(* an event is sent once because those that are still to come were never   *)
(* sent (AheadUnsent), and a client that holds an event has not stored it  *)
(* yet (SentOnce).  TotalIsHonest needs to know that the receipts of the   *)
(* result being published count too (CountInv), and that the one publish() *)
(* is about to return is new.                                              *)
(***************************************************************************)
EXTENDS IngestionRunner, FiniteSetTheorems, TLAPS

\* The events a later step may still send.
Ahead(e) ==
  \/ e.cycle > cycle
  \/ /\ e.cycle = cycle /\ pc \in {"fetch", "publish", "flush"}
     /\ \E n \in 1 .. Len(Adapters) : n > turn /\ e.source = Adapters[n]
  \/ /\ e.cycle = cycle /\ e.source = Asked
     /\ \/ pc = "fetch"
        \/ pc = "publish" /\ e.item >= next
        \/ pc = "flush" /\ e.item > next

AheadUnsent == \A e \in Event : Ahead(e) => topic[e] = 0 /\ e \notin sent

SentOnce == \A e \in sent : topic[e] = 0

\* The report publish() waits for is about its own event.
ReceiptIsOwn == pc = "flush" /\ receipt => topic[Current] > 0

IInv == /\ TypeOK
        /\ AheadUnsent
        /\ SentOnce
        /\ ReceiptIsOwn
        /\ NothingTwice
        /\ ReceiptsAreReal

-----------------------------------------------------------------------------

LEMMA AskedIsSource == TypeOK => Asked \in Source
BY AdaptersAssumption DEF TypeOK, Asked, Source

LEMMA CurrentIsEvent ==
  ASSUME TypeOK, (pc = "publish" /\ next <= size) \/ pc = "flush"
  PROVE  Current \in Event
BY AskedIsSource, BoundsAssumption DEF TypeOK, Current, Event

\* Adapters later in the list are other sources than the one asked.
LEMMA LaterIsOther ==
  ASSUME TypeOK, NEW n \in 1 .. Len(Adapters), n > turn
  PROVE  Adapters[n] # Asked
BY AdaptersAssumption DEF TypeOK, Asked

\* A turn that ends leaves fewer events ahead.
LEMMA NextAdapterAhead ==
  ASSUME TypeOK, NextAdapter, pc \in {"fetch", "publish"}, cycle' = cycle, NEW e \in Event, Ahead(e)'
  PROVE  Ahead(e)
<1>1. CASE e.cycle > cycle
  BY <1>1 DEF Ahead
<1>2. CASE ~(e.cycle > cycle)
  <2>0. e.cycle \in Nat /\ cycle \in Nat /\ turn \in Nat /\ Len(Adapters) \in Nat
    BY BoundsAssumption, AdaptersAssumption DEF Event, TypeOK
  <2>1. turn < Len(Adapters) /\ pc' = "fetch" /\ turn' = turn + 1 /\ e.cycle = cycle
    BY <1>2, <2>0 DEF NextAdapter, Ahead
  <2>2. PICK n \in 1 .. Len(Adapters) : n >= turn + 1 /\ e.source = Adapters[n]
    BY <2>0, <2>1, <1>2 DEF Ahead, Asked
  <2>3. QED BY <2>0, <2>1, <2>2 DEF Ahead
<1>3. QED BY <1>1, <1>2

LEMMA NextAdapterType ==
  ASSUME TypeOK, NextAdapter
  PROVE  /\ pc' \in {"sleep", "fetch"} /\ turn' \in 1 .. Len(Adapters) /\ attempt' = 0
         /\ pc' = "fetch" => pc' # "flush"
BY AdaptersAssumption DEF NextAdapter, TypeOK

-----------------------------------------------------------------------------

\* The actions that leave the client and the topic alone and send nothing.
LEMMA Quiet ==
  ASSUME IInv, TypeOK', UNCHANGED <<sent, topic, confirmed>>, pc' # "flush",
         \A e \in Event : Ahead(e)' => Ahead(e)
  PROVE  IInv'
BY DEF IInv, AheadUnsent, SentOnce, ReceiptIsOwn, NothingTwice, ReceiptsAreReal

\* The actions of the client move what was sent, once.
LEMMA ClientMoves ==
  ASSUME IInv, NEW e \in sent, sent' = sent \ {e},
         topic' = [topic EXCEPT ![e] = @ + 1] \/ topic' = topic,
         UNCHANGED <<loopVars, fetchVars, statVars, confirmed>>,
         receipt' \in BOOLEAN,
         receipt' => receipt \/ (pc = "flush" /\ e = Current /\ topic'[e] > 0)
  PROVE  IInv'
<1> USE DEF IInv, loopVars, fetchVars, statVars
<1>0. e \in Event /\ topic \in [Event -> Nat] /\ topic[e] = 0
  BY DEF TypeOK, SentOnce
<1>1. /\ topic' \in [Event -> Nat] /\ topic'[e] \in {0, 1}
      /\ \A x \in Event : x # e => topic'[x] = topic[x]
  BY <1>0
<1>2. TypeOK'
  BY <1>1 DEF TypeOK
<1>3. \A x \in Event : Ahead(x)' <=> Ahead(x)
  BY DEF Ahead, Asked
<1>4. ~Ahead(e)
  BY <1>0 DEF AheadUnsent
<1>5. AheadUnsent'
  BY <1>1, <1>3, <1>4 DEF AheadUnsent
<1>6. SentOnce'
  BY <1>1 DEF SentOnce, TypeOK
<1>7. ReceiptIsOwn'
  <2> SUFFICES ASSUME pc = "flush", receipt' PROVE topic'[Current] > 0
    BY DEF ReceiptIsOwn, Current, Asked
  <2>1. Current \in Event
    BY CurrentIsEvent
  <2>2. CASE receipt
    BY <2>1, <2>2, <1>0, <1>1 DEF ReceiptIsOwn
  <2>3. CASE e = Current /\ topic'[e] > 0
    BY <2>3
  <2>4. QED BY <2>2, <2>3
<1>8. NothingTwice'
  BY <1>1 DEF NothingTwice
<1>9. ReceiptsAreReal'
  BY <1>0, <1>1 DEF ReceiptsAreReal, TypeOK
<1>10. QED BY <1>2, <1>5, <1>6, <1>7, <1>8, <1>9

LEMMA Invariance == IInv /\ [Next]_vars => IInv'
<1> SUFFICES ASSUME IInv, [Next]_vars PROVE IInv'
  OBVIOUS
<1>t. TypeOK /\ BoundsAssumption!1 /\ Len(Adapters) \in Nat
  BY BoundsAssumption, AdaptersAssumption DEF IInv
<1>n. \A e \in Event : e.cycle \in Nat /\ e.item \in Nat /\ e.source \in Source
  BY BoundsAssumption DEF Event
<1> USE DEF loopVars, fetchVars, statVars, clientVars
<1>1. ASSUME StartCycle PROVE IInv'
  <2>1. TypeOK'
    BY <1>1, <1>t DEF StartCycle, TypeOK
  <2>2. \A e \in Event : Ahead(e)' => Ahead(e)
    BY <1>1, <1>t, <1>n DEF StartCycle, TypeOK, Ahead
  <2>3. QED BY <1>1, <2>1, <2>2, Quiet DEF StartCycle
<1>2. ASSUME Fetch PROVE IInv'
  <2>1. TypeOK'
    BY <1>2, <1>t, AskedIsSource DEF Fetch, TypeOK
  <2>2. \A e \in Event : Ahead(e)' => Ahead(e)
    BY <1>2, <1>t, <1>n DEF Fetch, TypeOK, Ahead, Asked
  <2>3. QED BY <1>2, <2>1, <2>2, Quiet DEF Fetch
<1>3. ASSUME FetchFails PROVE IInv'
  <2>1. CASE NextAdapter
    <3>1. TypeOK'
      BY <1>3, <2>1, <1>t, AskedIsSource, NextAdapterType DEF FetchFails, TypeOK
    <3>2. \A e \in Event : Ahead(e)' => Ahead(e)
      BY <1>3, <2>1, <1>t, NextAdapterAhead DEF FetchFails
    <3>3. pc' # "flush"
      BY <2>1, <1>t, NextAdapterType
    <3>4. QED BY <1>3, <3>1, <3>2, <3>3, Quiet DEF FetchFails
  <2>2. CASE attempt < MaxRetries /\ attempt' = attempt + 1 /\ UNCHANGED <<pc, turn>>
    <3>1. TypeOK'
      BY <1>3, <2>2, <1>t, AskedIsSource DEF FetchFails, TypeOK
    <3>2. \A e \in Event : Ahead(e)' => Ahead(e)
      BY <1>3, <2>2 DEF FetchFails, Ahead, Asked
    <3>3. QED BY <1>3, <2>2, <3>1, <3>2, Quiet DEF FetchFails
  <2>3. QED BY <1>3, <2>1, <2>2 DEF FetchFails
<1>4. ASSUME FetchDone PROVE IInv'
  <2>1. NextAdapter /\ pc = "publish"
    BY <1>4 DEF FetchDone
  <2>2. TypeOK'
    BY <1>4, <2>1, <1>t, NextAdapterType DEF FetchDone, TypeOK
  <2>3. \A e \in Event : Ahead(e)' => Ahead(e)
    BY <1>4, <2>1, <1>t, NextAdapterAhead DEF FetchDone
  <2>4. pc' # "flush"
    BY <2>1, <1>t, NextAdapterType
  <2>5. QED BY <1>4, <2>2, <2>3, <2>4, Quiet DEF FetchDone
<1>5. ASSUME PublishBreaks PROVE IInv'
  <2>1. NextAdapter /\ pc = "publish"
    BY <1>5 DEF PublishBreaks
  <2>2. TypeOK'
    BY <1>5, <2>1, <1>t, NextAdapterType DEF PublishBreaks, TypeOK
  <2>3. \A e \in Event : Ahead(e)' => Ahead(e)
    BY <1>5, <2>1, <1>t, NextAdapterAhead DEF PublishBreaks
  <2>4. pc' # "flush"
    BY <2>1, <1>t, NextAdapterType
  <2>5. QED BY <1>5, <2>2, <2>3, <2>4, Quiet DEF PublishBreaks
<1>6. ASSUME NotEnqueued PROVE IInv'
  <2>1. TypeOK'
    BY <1>6, <1>t DEF NotEnqueued, TypeOK
  <2>2. \A e \in Event : Ahead(e)' => Ahead(e)
    BY <1>6, <1>t, <1>n DEF NotEnqueued, TypeOK, Ahead, Asked
  <2>3. QED BY <1>6, <2>1, <2>2, Quiet DEF NotEnqueued
<1>7. ASSUME Enqueue PROVE IInv'
  <2>1. Current \in Event /\ Ahead(Current) /\ topic[Current] = 0
    <3>1. Current \in Event
      BY <1>7, <1>t, CurrentIsEvent DEF Enqueue
    <3>2. Ahead(Current)
      BY <1>7, <1>t DEF Enqueue, Ahead, Current, TypeOK
    <3>3. QED BY <3>1, <3>2 DEF IInv, AheadUnsent
  <2>2. TypeOK'
    BY <1>7, <2>1, <1>t DEF Enqueue, TypeOK
  <2>3. ASSUME NEW e \in Event, Ahead(e)' PROVE Ahead(e) /\ e # Current
    <3>1. Ahead(e)
      BY <1>7, <2>3, <1>t, <1>n DEF Enqueue, Ahead, Asked, TypeOK
    <3>2. e # Current
      BY <1>7, <2>3, <1>t, <1>n, LaterIsOther DEF Enqueue, Ahead, Asked, Current, TypeOK
    <3>3. QED BY <3>1, <3>2
  <2>4. QED
    BY <1>7, <2>1, <2>2, <2>3
    DEF Enqueue, IInv, AheadUnsent, SentOnce, ReceiptIsOwn, NothingTwice, ReceiptsAreReal
<1>8. ASSUME Confirm PROVE IInv'
  <2>1. Current \in Event /\ topic[Current] > 0
    BY <1>8, <1>t, CurrentIsEvent DEF Confirm, HasReceipt, IInv, ReceiptIsOwn
  <2>2. TypeOK'
    <3>1. published < next /\ next <= size /\ size \in 0 .. MaxItems
      BY <1>8, <1>t DEF Confirm, TypeOK
    <3>2. QED BY <1>8, <2>1, <1>t, <3>1 DEF Confirm, TypeOK
  <2>3. \A e \in Event : Ahead(e)' => Ahead(e)
    BY <1>8, <1>t, <1>n DEF Confirm, TypeOK, Ahead, Asked
  <2>4. QED
    BY <1>8, <2>1, <2>2, <2>3
    DEF Confirm, IInv, AheadUnsent, SentOnce, ReceiptIsOwn, NothingTwice, ReceiptsAreReal
<1>9. ASSUME Unconfirmed PROVE IInv'
  <2>1. TypeOK'
    BY <1>9, <1>t DEF Unconfirmed, TypeOK
  <2>2. \A e \in Event : Ahead(e)' => Ahead(e)
    BY <1>9, <1>t, <1>n DEF Unconfirmed, TypeOK, Ahead, Asked
  <2>3. QED BY <1>9, <2>1, <2>2, Quiet DEF Unconfirmed
<1>10. ASSUME NEW e \in sent, Deliver(e) PROVE IInv'
  <2>1. receipt' \in BOOLEAN /\ topic'[e] > 0
    BY <1>10, <1>t DEF Deliver, TypeOK
  <2>2. receipt' => receipt \/ (pc = "flush" /\ e = Current)
    BY <1>10 DEF Deliver
  <2>3. QED BY <1>10, <2>1, <2>2, ClientMoves DEF Deliver
<1>11. ASSUME NEW e \in sent, Expire(e) PROVE IInv'
  <2>1. receipt' = receipt /\ receipt \in BOOLEAN
    BY <1>11, <1>t DEF Expire, TypeOK
  <2>2. QED BY <1>11, <2>1, ClientMoves DEF Expire
<1>12. ASSUME Stop \/ EndLoop \/ Cancel PROVE IInv'
  <2>1. TypeOK'
    BY <1>12, <1>t DEF Stop, EndLoop, Cancel, TypeOK
  <2>2. \A e \in Event : Ahead(e)' => Ahead(e)
    BY <1>12 DEF Stop, EndLoop, Cancel, Ahead, Asked
  <2>3. CASE pc' # "flush"
    BY <1>12, <2>1, <2>2, <2>3, Quiet DEF Stop, EndLoop, Cancel
  <2>4. CASE pc' = "flush"
    BY <1>12, <2>1, <2>2, <2>4
    DEF Stop, EndLoop, Cancel, IInv, AheadUnsent, SentOnce, ReceiptIsOwn, NothingTwice, ReceiptsAreReal, Current, Asked
  <2>5. QED BY <2>3, <2>4
<1>13. ASSUME Close \/ Kill PROVE IInv'
  <2>1. TypeOK'
    BY <1>13, <1>t DEF Close, Kill, TypeOK
  <2>2. \A e \in Event : Ahead(e)' => Ahead(e)
    BY <1>13 DEF Close, Kill, Ahead, Asked
  <2>3. QED
    BY <1>13, <2>1, <2>2
    DEF Close, Kill, IInv, AheadUnsent, SentOnce, ReceiptIsOwn, NothingTwice, ReceiptsAreReal
<1>14. CASE UNCHANGED vars
  BY <1>14 DEF vars, IInv, TypeOK, AheadUnsent, Ahead, Asked, SentOnce, ReceiptIsOwn, Current,
               NothingTwice, ReceiptsAreReal
<1>15. QED
  BY <1>1, <1>2, <1>3, <1>4, <1>5, <1>6, <1>7, <1>8, <1>9, <1>10, <1>11, <1>12, <1>13, <1>14
  DEF Next, RunnerStep, ClientStep

LEMMA InitiallyIInv == Init => IInv
<1> SUFFICES ASSUME Init PROVE IInv
  OBVIOUS
<1>1. Len(Adapters) \in Nat /\ 1 \in 1 .. Len(Adapters)
  BY AdaptersAssumption
<1>2. TypeOK
  <2>1. /\ pc \in {"sleep", "fetch", "publish", "flush", "closing", "stopped"}
        /\ running \in BOOLEAN /\ receipt \in BOOLEAN
        /\ sent \subseteq Event /\ confirmed \subseteq Event
        /\ pc \notin {"sleep", "closing", "stopped"} => cycle > 0
        /\ pc = "flush" => next <= size
    BY DEF Init
  <2>2. /\ cycle \in 0 .. MaxCycles /\ turn \in 1 .. Len(Adapters) /\ attempt \in 0 .. MaxRetries
        /\ size \in 0 .. MaxItems /\ next \in 1 .. MaxItems + 1 /\ published \in 0 .. MaxItems
        /\ published < next /\ total \in Nat
    BY <1>1, BoundsAssumption DEF Init
  <2>3. tried \in [Source -> 0 .. MaxCycles]
    BY BoundsAssumption DEF Init
  <2>4. topic \in [Event -> Nat]
    BY DEF Init
  <2>5. QED BY <2>1, <2>2, <2>3, <2>4 DEF TypeOK
<1>3. \A e \in Event : topic[e] = 0 /\ e \notin sent
  BY DEF Init
<1>4. AheadUnsent /\ NothingTwice
  BY <1>3 DEF AheadUnsent, NothingTwice
<1>5. SentOnce /\ ReceiptIsOwn /\ ReceiptsAreReal
  BY DEF Init, SentOnce, ReceiptIsOwn, ReceiptsAreReal
<1>6. QED BY <1>2, <1>4, <1>5 DEF IInv

\* The invariant holds in every reachable state.
THEOREM RunnerInvariant == Spec => []IInv
BY InitiallyIInv, Invariance, PTL DEF Spec

\* The state of the loop and of the client stays well typed.
THEOREM TypeCorrect == Spec => []TypeOK
<1>1. IInv => TypeOK
  BY DEF IInv
<1>2. QED BY <1>1, RunnerInvariant, PTL

\* No event is in the topic twice, however fetches are retried and whatever
\* the client reports too late.
THEOREM EventsAreSentOnce == Spec => []NothingTwice
<1>1. IInv => NothingTwice
  BY DEF IInv
<1>2. QED BY <1>1, RunnerInvariant, PTL

\* An event with a receipt is in the topic.
THEOREM ReceiptsHold == Spec => []ReceiptsAreReal
<1>1. IInv => ReceiptsAreReal
  BY DEF IInv
<1>2. QED BY <1>1, RunnerInvariant, PTL
-----------------------------------------------------------------------------
(* The total of the runner. *)

\* The receipts of the result whose events are being published.
Uncounted == IF pc \in {"publish", "flush"} THEN published ELSE 0

CountInv == /\ IsFiniteSet(confirmed)
            /\ total + Uncounted <= Cardinality(confirmed)
            /\ pc = "flush" => Current \notin confirmed

LEMMA CountNext == IInv /\ CountInv /\ [Next]_vars => CountInv'
<1> SUFFICES ASSUME IInv, CountInv, [Next]_vars PROVE CountInv'
  OBVIOUS
<1>t. /\ TypeOK /\ total \in Nat /\ published \in Nat /\ Cardinality(confirmed) \in Nat
      /\ next \in Nat /\ size \in Nat
  BY BoundsAssumption, FS_CardinalityType DEF IInv, TypeOK, CountInv
<1>0. total <= Cardinality(confirmed) /\ IsFiniteSet(confirmed)
  BY <1>t DEF CountInv, Uncounted
<1>c. CASE UNCHANGED <<pc, cycle, turn, next, published, total, confirmed>>
  BY <1>c DEF CountInv, Uncounted, Current, Asked
<1> USE DEF loopVars, fetchVars, statVars, clientVars
<1>1. CASE /\ UNCHANGED <<total, confirmed>>
           /\ pc' \notin {"publish", "flush"}
  BY <1>1, <1>0, <1>t DEF CountInv, Uncounted
<1>2. CASE Fetch
  BY <1>2, <1>0, <1>t DEF Fetch, CountInv, Uncounted
<1>3. CASE FetchFails
  <2>1. CASE NextAdapter
    BY <1>3, <2>1, <1>1, <1>t, NextAdapterType DEF FetchFails
  <2>2. CASE UNCHANGED <<pc, turn>>
    BY <1>3, <2>2, <1>c DEF FetchFails
  <2>3. QED BY <1>3, <2>1, <2>2 DEF FetchFails
<1>4. CASE FetchDone
  <2>1. pc' \in {"sleep", "fetch"} /\ total' = total + published /\ confirmed' = confirmed
    BY <1>4, <1>t, NextAdapterType DEF FetchDone
  <2>2. total' <= Cardinality(confirmed)
    BY <1>4, <2>1, <1>t DEF FetchDone, CountInv, Uncounted
  <2>3. QED BY <2>1, <2>2, <1>0, <1>t DEF CountInv, Uncounted
<1>5. CASE PublishBreaks
  BY <1>5, <1>1, <1>t, NextAdapterType DEF PublishBreaks
<1>6. CASE NotEnqueued
  BY <1>6, <1>0, <1>t DEF NotEnqueued, CountInv, Uncounted
<1>7. CASE Enqueue
  <2>1. Current \in Event
    BY <1>7, <1>t, CurrentIsEvent DEF Enqueue
  <2>2. Ahead(Current)
    BY <1>7, <1>t DEF Enqueue, Ahead, Current
  <2>3. Current \notin confirmed
    BY <2>1, <2>2 DEF IInv, AheadUnsent, ReceiptsAreReal
  <2>4. Current' = Current
    BY <1>7 DEF Enqueue, Current, Asked
  <2>5. QED BY <1>7, <2>3, <2>4 DEF Enqueue, CountInv, Uncounted
<1>8. CASE Confirm
  <2>1. Current \notin confirmed /\ confirmed' = confirmed \cup {Current} /\ published' = published + 1
    BY <1>8 DEF Confirm, CountInv
  <2>2. IsFiniteSet(confirmed') /\ Cardinality(confirmed') = Cardinality(confirmed) + 1
    BY <2>1, <1>0, FS_AddElement
  <2>3. QED BY <1>8, <2>1, <2>2, <1>t DEF Confirm, CountInv, Uncounted
<1>9. CASE Unconfirmed
  BY <1>9, <1>0, <1>t DEF Unconfirmed, CountInv, Uncounted
<1>10. CASE ClientStep
  BY <1>10, <1>c DEF ClientStep, Deliver, Expire
<1>11. CASE StartCycle \/ EndLoop \/ Cancel \/ Close \/ Kill
  BY <1>11, <1>1 DEF StartCycle, EndLoop, Cancel, Close, Kill
<1>12. CASE Stop
  BY <1>12, <1>c DEF Stop
<1>13. CASE UNCHANGED vars
  BY <1>13, <1>c DEF vars
<1>14. QED
  BY <1>2, <1>3, <1>4, <1>5, <1>6, <1>7, <1>8, <1>9, <1>10, <1>11, <1>12, <1>13 DEF Next, RunnerStep

\* The runner never claims to have published more events than it holds
\* receipts for.
THEOREM TotalHolds == Spec => []TotalIsHonest
<1>1. Init => CountInv
  BY FS_EmptySet DEF Init, CountInv, Uncounted
<1>2. IInv /\ CountInv => TotalIsHonest
  <2> SUFFICES ASSUME IInv, CountInv PROVE TotalIsHonest
    OBVIOUS
  <2>1. total \in Nat /\ published \in Nat /\ Cardinality(confirmed) \in Nat
    BY BoundsAssumption, FS_CardinalityType DEF IInv, TypeOK, CountInv
  <2>2. QED BY <2>1 DEF CountInv, Uncounted, TotalIsHonest
<1>3. QED BY <1>1, <1>2, CountNext, RunnerInvariant, PTL DEF Spec
=============================================================================
