------------------------- MODULE ProcessorPipeline -------------------------
(***************************************************************************)
(* services/processor/pipeline.py with its validation and deduplication: a *)
(* batch of raw events is split into rejected, conflicting, duplicate and  *)
(* unique records, and each kind is published by its own sink, one record  *)
(* at a time.  A sink that raises ends the call; the caller does not       *)
(* commit, and the same batch comes back, to the same process or to a new  *)
(* one that has lost the deduplication state.                              *)
(*                                                                         *)
(* A body stands for all the columns of a row but event_id.  The hash of a *)
(* row is null, hence the same, for every body without a price; HashOf is  *)
(* the set of bodies that hash alike.  What an event carries outside the   *)
(* columns (listing and seller ids) is left out.                           *)
(***************************************************************************)
EXTENDS Naturals, FiniteSets, Sequences

CONSTANTS Id,          \* event ids
          Body,        \* payloads
          Unpriced,    \* the payloads whose price is null
          Rejected,    \* the payloads that fail validate()
          KeepState,   \* whether a DeduplicationState is passed
          MaxBatch,    \* bound: messages in a batch
          MaxBatches   \* bound: batches the source delivers

ASSUME BodyAssumption == Unpriced \subseteq Body /\ Rejected \subseteq Body
ASSUME StateAssumption == KeepState \in BOOLEAN
ASSUME BoundsAssumption == MaxBatch \in Nat \ {0} /\ MaxBatches \in Nat

Event == [id : Id, body : Body]
Batch == UNION {[1 .. n -> Event] : n \in 1 .. MaxBatch}

VARIABLES stage,      \* where the call stands, "idle" between calls
          batch,      \* its messages; what is to be redelivered when idle
          todo,       \* the rows this stage has not published yet
          unique,     \* the rows found to be neither duplicate nor conflict
          tally,      \* the PipelineResult
          seen,       \* DeduplicationState: event id -> hash, {} if unseen
          validated,  \* products.validated.v1
          invalid,    \* products.invalid.v1
          settled,    \* the events of the calls that returned
          skipped,    \* the events such calls counted as duplicates
          emitted,    \* the events this process handed to the valid sink
          delivered   \* how many batches were delivered

callVars == <<stage, batch, todo, unique, tally>>
topicVars == <<validated, invalid>>
vars == <<callVars, seen, topicVars, settled, skipped, emitted, delivered>>

NoResult == [valid |-> 0, invalid |-> 0, duplicates |-> 0, conflicts |-> 0]
Unseen == [i \in Id |-> {}]

TypeOK ==
  /\ stage \in {"idle", "invalid", "conflicts", "valid"}
  /\ batch \in Batch \cup {<<>>}
  /\ todo \subseteq DOMAIN batch
  /\ unique \subseteq DOMAIN batch
  /\ tally \in [valid : Nat, invalid : Nat, duplicates : Nat, conflicts : Nat]
  /\ seen \in [Id -> SUBSET Body]
  /\ validated \subseteq Event
  /\ invalid \subseteq [event : Event, reason : {"validation", "conflict"}]
  /\ settled \subseteq Event
  /\ skipped \subseteq Event
  /\ emitted \subseteq Event
  /\ delivered \in 0 .. MaxBatches

-----------------------------------------------------------------------------
(* How a batch is split. *)

Passes(e) == e.body \notin Rejected

Rows(b) == {i \in DOMAIN b : Passes(b[i])}
RejectedRows_Slip(b) == {}  \* only logged
RejectedRows(b) == DOMAIN b \ Rows(b)

HashOf(body) == IF body \in Unpriced THEN Unpriced ELSE {body}
Hash(b, i) == HashOf(b[i].body)

SameId(b, i) == {j \in DOMAIN b : b[j].id = b[i].id}

\* The hash of the event id is not unique among the valid rows.  The slip
\* compares with the previous rows only.
InConflict_Slip(b, i) == \E j \in Rows(b) \cap SameId(b, i) : j < i /\ Hash(b, j) # Hash(b, i)
InConflict(b, i) == \E j \in Rows(b) \cap SameId(b, i) : Hash(b, j) # Hash(b, i)

\* A later row of a group whose hashes are all the same; the slip keeps none.
RepeatedInBatch_Slip(b, i) ==
  ~InConflict(b, i) /\ \E j \in Rows(b) \cap SameId(b, i) : j # i
RepeatedInBatch(b, i) ==
  /\ ~InConflict(b, i)
  /\ \E j \in Rows(b) \cap SameId(b, i) : j < i

\* check_and_update goes through the rows in order: it compares with what is
\* recorded for the id, which an earlier row of this batch may have recorded.
FirstRow(b, i) == CHOOSE j \in Rows(b) \cap SameId(b, i) :
                     \A k \in Rows(b) \cap SameId(b, i) : j <= k
SeenBefore(b, i) ==
  /\ KeepState
  /\ IF seen[b[i].id] # {} THEN seen[b[i].id] = Hash(b, i)
     ELSE FirstRow(b, i) < i /\ Hash(b, FirstRow(b, i)) = Hash(b, i)

SeenAfter(b) ==
  [e \in Id |->
     LET rows == {i \in Rows(b) : b[i].id = e} IN
       IF ~KeepState \/ seen[e] # {} \/ rows = {} THEN seen[e]
       ELSE Hash(b, FirstRow(b, CHOOSE i \in rows : TRUE))]

Conflicts(b) == {i \in Rows(b) : InConflict(b, i)}
Duplicates(b) == {i \in Rows(b) : SeenBefore(b, i) \/ RepeatedInBatch(b, i)}
Uniques_Slip(b) == {i - 1 : i \in Rows(b)}  \* row numbers from zero
Uniques(b) == Rows(b) \ (Conflicts(b) \cup Duplicates(b))

\* event_index: the last message of the batch with the row's event id.
Indexed(b, i) == b[CHOOSE j \in SameId(b, i) : \A k \in SameId(b, i) : k <= j]

NextRow == CHOOSE i \in todo : \A j \in todo : i <= j

-----------------------------------------------------------------------------

Init ==
  /\ stage = "idle" /\ batch = <<>> /\ todo = {} /\ unique = {} /\ tally = NoResult
  /\ seen = Unseen
  /\ validated = {} /\ invalid = {}
  /\ settled = {} /\ skipped = {} /\ emitted = {}
  /\ delivered = 0

\* A batch not seen before, or one again whose call returned but whose offset
\* was not committed.
Deliver(b) ==
  /\ stage = "idle" /\ batch = <<>> /\ delivered < MaxBatches
  /\ batch' = b
  /\ delivered' = delivered + 1
  /\ UNCHANGED <<stage, todo, unique, tally, seen, topicVars, settled, skipped, emitted>>

\* process_batch: index, transform, normalize and validate.
Begin ==
  /\ stage = "idle" /\ batch # <<>>
  /\ stage' = "invalid"
  /\ todo' = RejectedRows(batch)
  /\ unique' = {}
  /\ tally' = NoResult
  /\ UNCHANGED <<batch, seen, topicVars, settled, skipped, emitted, delivered>>

\* The result counters of one published record.
Counted(reason) ==
  [tally EXCEPT !.invalid = @ + 1,
                !.conflicts = IF reason = "conflict" THEN @ + 1 ELSE @]

\* The invalid sink takes the event the index finds for the next row.
PublishInvalid(reason) ==
  /\ stage = IF reason = "conflict" THEN "conflicts" ELSE "invalid"
  /\ todo # {}
  /\ invalid' = invalid \cup {[event |-> Indexed(batch, NextRow), reason |-> reason]}
  /\ tally' = Counted(reason)
  /\ todo' = todo \ {NextRow}
  /\ UNCHANGED <<stage, batch, unique, seen, validated, settled, skipped, emitted, delivered>>

\* deduplicate: the state records every new event id here, before anything
\* is published.
Deduplicate ==
  /\ stage = "invalid" /\ todo = {}
  /\ stage' = "conflicts"
  /\ todo' = Conflicts(batch)
  /\ unique' = Uniques(batch)
  /\ tally' = [tally EXCEPT !.duplicates = Cardinality(Duplicates(batch))]
  /\ seen' = SeenAfter(batch)
  /\ UNCHANGED <<batch, topicVars, settled, skipped, emitted, delivered>>

ConflictsDone ==
  /\ stage = "conflicts" /\ todo = {}
  /\ stage' = "valid"
  /\ todo' = unique
  /\ UNCHANGED <<batch, unique, tally, seen, topicVars, settled, skipped, emitted, delivered>>

PublishValid ==
  /\ stage = "valid" /\ todo # {}
  /\ validated' = validated \cup {Indexed(batch, NextRow)}
  /\ emitted' = emitted \cup {Indexed(batch, NextRow)}
  /\ todo' = todo \ {NextRow}
  /\ UNCHANGED <<stage, batch, unique, tally, seen, invalid, settled, skipped, delivered>>

\* The call returns and the caller commits.
Return ==
  /\ stage = "valid" /\ todo = {}
  /\ stage' = "idle"
  /\ batch' = <<>>
  /\ unique' = {}
  /\ tally' = [tally EXCEPT !.valid = Cardinality(unique)]
  /\ settled' = settled \cup {batch[i] : i \in DOMAIN batch}
  /\ skipped' = skipped \cup {batch[i] : i \in Rows(batch) \ (unique \cup Conflicts(batch))}
  /\ UNCHANGED <<todo, seen, topicVars, emitted, delivered>>

\* A sink raises, with its record stored or not.  The caller keeps the batch.
SinkFails ==
  /\ todo # {}
  /\ \/ UNCHANGED topicVars
     \/ /\ stage = "valid"
        /\ validated' = validated \cup {Indexed(batch, NextRow)}
        /\ UNCHANGED invalid
     \/ /\ stage # "valid"
        /\ invalid' = invalid \cup {[event |-> Indexed(batch, NextRow),
                                     reason |-> IF stage = "conflicts" THEN "conflict"
                                                                       ELSE "validation"]}
        /\ UNCHANGED validated
  /\ stage' = "idle" /\ todo' = {} /\ unique' = {} /\ tally' = NoResult
  /\ emitted' = IF stage = "valid" THEN emitted \cup {Indexed(batch, NextRow)} ELSE emitted
  /\ UNCHANGED <<batch, seen, settled, skipped, delivered>>

\* The process dies; its successor starts with an empty state and gets the
\* batch again if its call had not returned.
Restart ==
  /\ stage' = "idle" /\ todo' = {} /\ unique' = {} /\ tally' = NoResult
  /\ seen' = Unseen
  /\ emitted' = {}
  /\ UNCHANGED <<batch, topicVars, settled, skipped, delivered>>

PublishStep == PublishInvalid("validation") \/ PublishInvalid("conflict") \/ PublishValid
CallStep == Begin \/ PublishStep \/ Deduplicate \/ ConflictsDone \/ Return

Next == (\E b \in Batch : Deliver(b)) \/ CallStep \/ SinkFails \/ Restart

Spec == Init /\ [][Next]_vars

-----------------------------------------------------------------------------

\* A call that returned left no record behind: its event id was published as
\* valid or as invalid (pipeline.py: "Invalid records are never silently
\* dropped").
EveryRecordRouted ==
  \A e \in settled : \/ \E v \in validated : v.id = e.id
                     \/ \E d \in invalid : d.event.id = e.id

\* Different payloads under one event id in a batch are never resolved by
\* publishing one of them: "surfaced explicitly ... rather than silently
\* dropped" (deduplication.py).
ConflictsSurfaced ==
  stage = "valid" =>
    \A i \in Rows(batch), j \in Rows(batch) :
      batch[i].id = batch[j].id /\ batch[i].body # batch[j].body => i \notin unique

\* A record skipped as an exact duplicate stands for one that is in the
\* validated topic: "skipped (already published in a prior batch)"
\* (pipeline.py).
SkippedWasPublished == \A e \in skipped : \E v \in validated : v.id = e.id

\* With a state, a process does not publish again a payload it has recorded
\* and published under an event id.
NoReplayOfRecorded ==
  KeepState /\ stage = "valid" =>
    \A i \in todo : Indexed(batch, i) \in emitted => seen[batch[i].id] # Hash(batch, i)
=============================================================================
