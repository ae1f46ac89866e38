--------------------------- MODULE IngestionRunner ---------------------------
(***************************************************************************)
(* services/ingestion/runner.py and libs/common/kafka_producer.py: a cycle *)
(* asks each source adapter in turn, with retries, and publishes what it   *)
(* returned event by event.  publish() hands the event to the Kafka client *)
(* and waits for its delivery report with a bound; what the client still   *)
(* holds after that may be delivered later, in a later call or in close(). *)
(*                                                                         *)
(* An event is a source, the cycle that fetched it (event ids hold the     *)
(* time of the fetch) and its place in the result.  Malformed records and  *)
(* the status of a source, which are only reported, are left out.          *)
(***************************************************************************)
EXTENDS Naturals, Sequences, FiniteSets

CONSTANTS Adapters,    \* the adapters in order, by source name
          MaxItems,    \* bound: events in a fetch result
          MaxRetries,  \* retries of a fetch
          MaxCycles,   \* bound: cycles of the loop
          MayFail      \* whether sources, broker and process fail

ASSUME AdaptersAssumption ==
  /\ Adapters \in Seq(STRING) /\ Adapters # <<>>
  /\ \A m, n \in 1 .. Len(Adapters) : Adapters[m] = Adapters[n] => m = n
ASSUME BoundsAssumption ==
  /\ MaxItems \in Nat /\ MaxRetries \in Nat /\ MaxCycles \in Nat
  /\ MayFail \in BOOLEAN

Source == {Adapters[n] : n \in 1 .. Len(Adapters)}
Event == [source : Source, cycle : 1 .. MaxCycles, item : 1 .. MaxItems]

VARIABLES pc,         \* where the loop stands
          running,    \* _running
          cycle,      \* cycles begun
          turn,       \* the adapter whose turn it is
          attempt,    \* failed attempts of its fetch
          size, next, \* events in the fetch result, and the one to publish
          published,  \* receipts for them so far
          total,      \* stats.total_events_published
          tried,      \* source -> the last cycle in which it was asked
          sent,       \* events the client has not heard about
          receipt,    \* whether the report on the event being sent is good
          topic,      \* event -> how often it is in products.raw.v1
          confirmed   \* the events publish() returned a receipt for

loopVars == <<pc, running, cycle, turn, attempt>>
fetchVars == <<size, next, published>>
statVars == <<total, tried>>
clientVars == <<sent, receipt>>
vars == <<loopVars, fetchVars, statVars, clientVars, topic, confirmed>>

TypeOK ==
  /\ pc \in {"sleep", "fetch", "publish", "flush", "closing", "stopped"}
  /\ running \in BOOLEAN
  /\ cycle \in 0 .. MaxCycles /\ (pc \notin {"sleep", "closing", "stopped"} => cycle > 0)
  /\ turn \in 1 .. Len(Adapters) /\ attempt \in 0 .. MaxRetries
  /\ size \in 0 .. MaxItems /\ next \in 1 .. MaxItems + 1 /\ published \in 0 .. MaxItems
  /\ published < next
  /\ pc = "flush" => next <= size
  /\ total \in Nat
  /\ tried \in [Source -> 0 .. MaxCycles]
  /\ sent \subseteq Event /\ receipt \in BOOLEAN
  /\ topic \in [Event -> Nat]
  /\ confirmed \subseteq Event

-----------------------------------------------------------------------------

Asked == Adapters[turn]
Current == [source |-> Asked, cycle |-> cycle, item |-> next]

Init ==
  /\ pc = "sleep" /\ running = TRUE /\ cycle = 0 /\ turn = 1 /\ attempt = 0
  /\ size = 0 /\ next = 1 /\ published = 0 /\ total = 0
  /\ tried = [s \in Source |-> 0]
  /\ sent = {} /\ receipt = FALSE
  /\ topic = [e \in Event |-> 0]
  /\ confirmed = {}

-----------------------------------------------------------------------------
(* The cycle. *)

StartCycle ==
  /\ pc = "sleep" /\ running /\ cycle < MaxCycles
  /\ pc' = "fetch" /\ cycle' = cycle + 1 /\ turn' = 1 /\ attempt' = 0
  /\ UNCHANGED <<running, fetchVars, statVars, clientVars, topic, confirmed>>

\* run_once goes on with the next adapter, or the cycle is over.
\* The slip ends the cycle.
NextAdapter_Slip ==
  /\ attempt' = 0
  /\ pc' = "sleep" /\ turn' = 1
NextAdapter ==
  /\ attempt' = 0
  /\ IF turn < Len(Adapters) THEN pc' = "fetch" /\ turn' = turn + 1
                             ELSE pc' = "sleep" /\ turn' = 1

Fetch ==
  /\ pc = "fetch"
  /\ size' \in 0 .. MaxItems /\ next' = 1 /\ published' = 0
  /\ tried' = [tried EXCEPT ![Asked] = cycle]
  /\ pc' = "publish"
  /\ UNCHANGED <<running, cycle, turn, attempt, total, clientVars, topic, confirmed>>

\* The fetch raises: a SourceFetchError is retried, anything else is not.
\* The slip retries once more.
FetchFails_Slip ==
  /\ MayFail /\ pc = "fetch"
  /\ tried' = [tried EXCEPT ![Asked] = cycle]
  /\ \/ attempt <= MaxRetries /\ attempt' = attempt + 1 /\ UNCHANGED <<pc, turn>>
     \/ NextAdapter
  /\ UNCHANGED <<running, cycle, fetchVars, total, clientVars, topic, confirmed>>
FetchFails ==
  /\ MayFail /\ pc = "fetch"
  /\ tried' = [tried EXCEPT ![Asked] = cycle]
  /\ \/ attempt < MaxRetries /\ attempt' = attempt + 1 /\ UNCHANGED <<pc, turn>>
     \/ NextAdapter
  /\ UNCHANGED <<running, cycle, fetchVars, total, clientVars, topic, confirmed>>

\* The result is published: only now do its receipts count.  The slip counts
\* its events.
FetchDone_Slip ==
  /\ pc = "publish" /\ next > size
  /\ total' = total + size
  /\ NextAdapter
  /\ UNCHANGED <<running, cycle, fetchVars, tried, clientVars, topic, confirmed>>
FetchDone ==
  /\ pc = "publish" /\ next > size
  /\ total' = total + published
  /\ NextAdapter
  /\ UNCHANGED <<running, cycle, fetchVars, tried, clientVars, topic, confirmed>>

\* Anything but the two errors of publish() ends the turn; the receipts so
\* far are never counted.
PublishBreaks ==
  /\ MayFail /\ pc = "publish" /\ next <= size
  /\ NextAdapter
  /\ UNCHANGED <<running, cycle, fetchVars, statVars, clientVars, topic, confirmed>>

-----------------------------------------------------------------------------
(* publish(). *)

\* EventSerializationError, or the client's queue is full: _publish_event
\* logs it and the event is left.
NotEnqueued ==
  /\ pc = "publish" /\ next <= size
  /\ next' = next + 1
  /\ UNCHANGED <<loopVars, size, published, statVars, clientVars, topic, confirmed>>

Enqueue ==
  /\ pc = "publish" /\ next <= size
  /\ sent' = sent \cup {Current} /\ receipt' = FALSE
  /\ pc' = "flush"
  /\ UNCHANGED <<running, cycle, turn, attempt, fetchVars, statVars, topic, confirmed>>

\* flush has served the reports that have come.  publish() returns a receipt
\* if the event's own report is good and the client holds nothing more: an
\* older event that it still holds makes a delivered one unconfirmed.
HasReceipt == receipt /\ sent = {}

Confirm ==
  /\ pc = "flush" /\ HasReceipt
  /\ confirmed' = confirmed \cup {Current}
  /\ published' = published + 1
  /\ next' = next + 1 /\ pc' = "publish"
  /\ UNCHANGED <<running, cycle, turn, attempt, size, statVars, clientVars, topic>>

\* PublishError: delivery failed, was not reported in time, or the report
\* lacks its offset.  _publish_event logs it and the runner goes on with the
\* next event.  The slip publishes the event again, as PublishError asks for.
Unconfirmed_Slip ==
  /\ MayFail /\ pc = "flush"
  /\ pc' = "publish"
  /\ UNCHANGED <<running, cycle, turn, attempt, size, next, published, statVars, clientVars, topic, confirmed>>
Unconfirmed ==
  /\ MayFail /\ pc = "flush"
  /\ next' = next + 1 /\ pc' = "publish"
  /\ UNCHANGED <<running, cycle, turn, attempt, size, published, statVars, clientVars, topic, confirmed>>

-----------------------------------------------------------------------------
(* The Kafka client's background thread and the broker. *)

Deliver(e) ==
  /\ e \in sent
  /\ topic' = [topic EXCEPT ![e] = @ + 1]
  /\ sent' = sent \ {e}
  /\ receipt' = (receipt \/ (pc = "flush" /\ e = Current))
  /\ UNCHANGED <<loopVars, fetchVars, statVars, confirmed>>

\* The delivery times out or fails for good; the broker may have stored the
\* event, once: the client's own retries are idempotent.
Expire(e) ==
  /\ MayFail /\ e \in sent
  /\ topic' \in {topic, [topic EXCEPT ![e] = @ + 1]}
  /\ sent' = sent \ {e}
  /\ UNCHANGED <<loopVars, fetchVars, statVars, receipt, confirmed>>

-----------------------------------------------------------------------------
(* The end. *)

\* stop(): the loop ends after the current cycle.
Stop ==
  /\ running /\ running' = FALSE
  /\ UNCHANGED <<pc, cycle, turn, attempt, fetchVars, statVars, clientVars, topic, confirmed>>

\* The slip looks at the flag in the loop's first cycle only.
EndLoop_Slip ==
  /\ pc = "sleep" /\ ~running /\ cycle = 0
  /\ pc' = "closing"
  /\ UNCHANGED <<running, cycle, turn, attempt, fetchVars, statVars, clientVars, topic, confirmed>>
EndLoop ==
  /\ pc = "sleep" /\ ~running
  /\ pc' = "closing"
  /\ UNCHANGED <<running, cycle, turn, attempt, fetchVars, statVars, clientVars, topic, confirmed>>

\* An interrupt cancels the task where it awaits: a source or a sleep.
Cancel ==
  /\ pc \in {"sleep", "fetch"}
  /\ pc' = "closing" /\ running' = FALSE
  /\ UNCHANGED <<cycle, turn, attempt, fetchVars, statVars, clientVars, topic, confirmed>>

\* close() flushes with a bound and raises if something is left; either way
\* the process is over.
Close ==
  /\ pc = "closing"
  /\ sent = {} \/ MayFail
  /\ pc' = "stopped"
  /\ sent' = {} /\ receipt' = FALSE
  /\ UNCHANGED <<running, cycle, turn, attempt, fetchVars, statVars, topic, confirmed>>

\* SIGTERM has no handler: it kills the process at any point.
Kill ==
  /\ MayFail /\ pc # "stopped"
  /\ pc' = "stopped" /\ running' = FALSE
  /\ sent' = {} /\ receipt' = FALSE
  /\ UNCHANGED <<cycle, turn, attempt, fetchVars, statVars, topic, confirmed>>

-----------------------------------------------------------------------------

RunnerStep ==
  \/ StartCycle \/ Fetch \/ FetchFails \/ FetchDone \/ PublishBreaks
  \/ NotEnqueued \/ Enqueue \/ Confirm \/ Unconfirmed \/ EndLoop \/ Close

ClientStep == \E e \in sent : Deliver(e) \/ Expire(e)

Next == RunnerStep \/ ClientStep \/ Stop \/ Cancel \/ Kill

Spec == Init /\ [][Next]_vars

-----------------------------------------------------------------------------
(* Safety. *)

\* No event is in the topic twice: a fetch is retried only before its events
\* are published, and publication is never retried.
NothingTwice == \A e \in Event : topic[e] <= 1

\* A receipt is the broker's word: "Its return value alone does NOT prove
\* success: a failed delivery also removes a message from the queue"
\* (kafka_producer.py).
ReceiptsAreReal == \A e \in confirmed : topic[e] > 0

\* The total never claims more than was confirmed, whatever raises between a
\* receipt and its count.
TotalIsHonest == total <= Cardinality(confirmed)

-----------------------------------------------------------------------------
(* Liveness. *)

\* Sources, sleeps and flush have timeouts, so the loop comes round, and the
\* client reports on every event within the delivery timeout.
FairSpec == Spec /\ WF_vars(RunnerStep) /\ WF_vars(ClientStep)

\* "one failing adapter does not block others" (runner.py): a cycle that
\* begins asks every source, unless the loop is cancelled or killed.
EverySourceTried ==
  pc = "fetch" ~> (\A s \in Source : tried[s] = cycle) \/ pc \in {"closing", "stopped"}

\* A runner that is told to stop closes the producer and ends.
StopObeyed == ~running ~> pc = "stopped"
=============================================================================
