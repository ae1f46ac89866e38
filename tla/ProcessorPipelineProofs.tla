----------------------- MODULE ProcessorPipelineProofs -----------------------
(***************************************************************************)
(* Proofs about ProcessorPipeline for batches of every length.  A batch is *)
(* split once, by Deduplicate, and then published row by row: the          *)
(* invariant says which rows of each kind are out by now (Progress), what  *)
(* the unique rows are (Split), what the deduplication state has recorded  *)
(* of the rows still to come (Recorded), and that a batch that is over     *)
(* left no row behind (Settled).                                           *)
(***************************************************************************)
EXTENDS ProcessorPipeline, FiniteSetTheorems, WellFoundedInduction, TLAPS

Published(x) == \E v \in validated : v.id = x
Dropped(x) == \E d \in invalid : d.event.id = x

\* The valid rows that neither conflict with nor repeat another one.
Fresh(b) == {i \in Rows(b) : ~InConflict(b, i) /\ ~RepeatedInBatch(b, i)}

Split ==
  /\ stage # "idle" => batch \in Batch
  /\ stage \in {"conflicts", "valid"} =>
       /\ unique \subseteq Fresh(batch)
       /\ ~KeepState => unique = Fresh(batch)

Progress ==
  /\ stage = "invalid" =>
       /\ todo \subseteq RejectedRows(batch)
       /\ \A i \in RejectedRows(batch) \ todo : Dropped(batch[i].id)
  /\ stage \in {"conflicts", "valid"} => \A i \in RejectedRows(batch) : Dropped(batch[i].id)
  /\ stage = "conflicts" =>
       /\ todo \subseteq Conflicts(batch)
       /\ \A i \in Conflicts(batch) \ todo : Dropped(batch[i].id)
  /\ stage = "valid" =>
       /\ todo \subseteq unique
       /\ \A i \in Conflicts(batch) : Dropped(batch[i].id)
       /\ \A i \in unique \ todo : Published(batch[i].id)

\* No event of the row's id was emitted, or another payload is recorded.
New(i) ==
  seen[batch[i].id] = Hash(batch, i) => \A e \in emitted : e.id # batch[i].id

Recorded ==
  KeepState =>
    /\ \A e \in emitted : seen[e.id] # {}
    /\ stage \in {"conflicts", "valid"} => \A i \in unique : seen[batch[i].id] # {}
    /\ stage = "conflicts" => \A i \in unique : New(i)
    /\ stage = "valid" => \A i \in todo : New(i)

Settled == ~KeepState => EveryRecordRouted /\ SkippedWasPublished

IInv == TypeOK /\ Split /\ Progress /\ Recorded /\ Settled

-----------------------------------------------------------------------------
(* Positions in a batch. *)

\* A set of positions has a first and a last one.
LEMMA Least ==
  ASSUME NEW S, S \subseteq Nat, S # {}
  PROVE  \E i \in S : \A j \in S : i <= j
<1>1. PICK i \in S : \A j \in S : ~(<<j, i>> \in OpToRel(<, Nat))
  BY NatLessThanWellFounded, WFMin
<1>2. ASSUME NEW j \in S PROVE i <= j
  <2>1. ~(<<j, i>> \in {ss \in Nat \X Nat : ss[1] < ss[2]})
    BY <1>1 DEF OpToRel
  <2>2. ~(j < i)
    BY <2>1
  <2>3. QED BY <2>2
<1>3. QED BY <1>2

LEMMA Greatest ==
  ASSUME NEW n \in Nat, NEW S, S \subseteq 1 .. n, S # {}
  PROVE  \E i \in S : \A j \in S : j <= i
<1> DEFINE T == {n - j : j \in S}
<1>1. T \subseteq Nat /\ T # {}
  <2>1. \A j \in S : n - j \in Nat
    OBVIOUS
  <2>2. QED BY <2>1
<1>2. PICK t \in T : \A u \in T : t <= u
  <2> HIDE DEF T
  <2>1. QED BY <1>1, Least
<1>3. PICK i \in S : t = n - i
  OBVIOUS
<1>4. ASSUME NEW j \in S PROVE j <= i
  <2>1. n - j \in T
    OBVIOUS
  <2>2. n - i <= n - j
    BY <2>1, <1>2, <1>3
  <2>3. i \in Nat /\ j \in Nat
    OBVIOUS
  <2>4. QED BY <2>2, <2>3
<1>5. QED BY <1>4

LEMMA BatchShape ==
  ASSUME NEW b \in Batch
  PROVE  \E n \in Nat : DOMAIN b = 1 .. n /\ b \in [1 .. n -> Event]
BY BoundsAssumption DEF Batch

LEMMA RowsAreFinite ==
  ASSUME NEW b \in Batch, NEW S, S \subseteq DOMAIN b
  PROVE  Cardinality(S) \in Nat
<1>1. PICK n \in Nat : DOMAIN b = 1 .. n
  BY BatchShape
<1>2. IsFiniteSet(1 .. n)
  BY <1>1, FS_Interval
<1>3. QED BY <1>1, <1>2, FS_Subset, FS_CardinalityType

LEMMA Types ==
  ASSUME NEW b \in Batch, NEW i \in DOMAIN b
  PROVE  /\ i \in Nat /\ b[i] \in Event /\ b[i].id \in Id /\ b[i].body \in Body
         /\ Hash(b, i) \subseteq Body /\ b[i].body \in Hash(b, i)
<1>1. i \in Nat /\ b[i] \in Event
  BY BatchShape
<1>2. b[i].id \in Id /\ b[i].body \in Body
  BY <1>1 DEF Event
<1>3. QED BY <1>1, <1>2, BodyAssumption DEF Hash, HashOf

\* The index finds an event of the same id.
LEMMA IndexFinds ==
  ASSUME NEW b \in Batch, NEW i \in DOMAIN b
  PROVE  Indexed(b, i) \in Event /\ Indexed(b, i).id = b[i].id
<1>1. PICK n \in Nat : DOMAIN b = 1 .. n /\ b \in [1 .. n -> Event]
  BY BatchShape
<1>2. SameId(b, i) \subseteq 1 .. n /\ i \in SameId(b, i)
  BY <1>1 DEF SameId
<1>3. \E j \in SameId(b, i) : \A k \in SameId(b, i) : k <= j
  BY <1>1, <1>2, Greatest
<1>4. PICK j \in SameId(b, i) : Indexed(b, i) = b[j]
  BY <1>3 DEF Indexed
<1>5. QED BY <1>1, <1>4 DEF SameId

LEMMA FirstRowExists ==
  ASSUME NEW b \in Batch, NEW i \in Rows(b)
  PROVE  /\ FirstRow(b, i) \in Rows(b) \cap SameId(b, i)
         /\ \A k \in Rows(b) \cap SameId(b, i) : FirstRow(b, i) <= k
<1>1. Rows(b) \cap SameId(b, i) \subseteq Nat /\ i \in Rows(b) \cap SameId(b, i)
  BY BatchShape DEF Rows, SameId
<1>2. \E j \in Rows(b) \cap SameId(b, i) : \A k \in Rows(b) \cap SameId(b, i) : j <= k
  BY <1>1, Least
<1>3. QED BY <1>2 DEF FirstRow

\* A publishing stage with rows left has a batch and a row to publish.
LEMMA NextRowExists ==
  ASSUME TypeOK, todo # {}
  PROVE  batch \in Batch /\ NextRow \in todo /\ NextRow \in DOMAIN batch
<1>1. batch \in Batch
  BY DEF TypeOK
<1>2. todo \subseteq Nat
  BY <1>1, BatchShape DEF TypeOK
<1>3. \E i \in todo : \A j \in todo : i <= j
  BY <1>2, Least
<1>4. QED BY <1>1, <1>3 DEF NextRow, TypeOK

\* What a stage publishes bears the id of the row it stands for.
LEMMA IndexedNext ==
  ASSUME TypeOK, todo # {}
  PROVE  /\ Indexed(batch, NextRow) \in Event
         /\ Indexed(batch, NextRow).id = batch[NextRow].id
BY NextRowExists, IndexFinds

-----------------------------------------------------------------------------
(* How a batch is split. *)

\* A valid row without conflict shares its id with a fresh row: the first.
LEMMA FirstIsFresh ==
  ASSUME NEW b \in Batch, NEW i \in Rows(b), ~InConflict(b, i)
  PROVE  FirstRow(b, i) \in Fresh(b) /\ b[FirstRow(b, i)].id = b[i].id
<1> DEFINE f == FirstRow(b, i)
<1>1. /\ f \in Rows(b) \cap SameId(b, i)
      /\ \A k \in Rows(b) \cap SameId(b, i) : f <= k
  BY FirstRowExists
<1>2. SameId(b, f) = SameId(b, i)
  BY <1>1 DEF SameId
<1>3. ~InConflict(b, f)
  BY <1>1, <1>2 DEF InConflict
<1>4. ASSUME NEW j \in Rows(b) \cap SameId(b, f) PROVE ~(j < f)
  <2>1. f <= j /\ j \in Nat /\ f \in Nat
    BY <1>1, <1>2, BatchShape DEF Rows
  <2>2. QED BY <2>1
<1>5. ~RepeatedInBatch(b, f)
  BY <1>4 DEF RepeatedInBatch
<1>6. QED BY <1>1, <1>3, <1>5 DEF Fresh, SameId

\* Fresh rows of one id are one row.
LEMMA FreshIsAlone ==
  ASSUME NEW b \in Batch, NEW i \in Fresh(b), NEW j \in Fresh(b), b[i].id = b[j].id
  PROVE  i = j
<1>1. i \in Rows(b) \cap SameId(b, j) /\ j \in Rows(b) \cap SameId(b, i)
  BY DEF Fresh, Rows, SameId
<1>2. ~(i < j) /\ ~(j < i)
  BY <1>1 DEF Fresh, RepeatedInBatch
<1>3. i \in Nat /\ j \in Nat
  BY BatchShape DEF Fresh, Rows
<1>4. QED BY <1>2, <1>3

LEMMA UniquesAreFresh ==
  ASSUME NEW b
  PROVE  /\ Uniques(b) \subseteq Fresh(b)
         /\ ~KeepState => Uniques(b) = Fresh(b)
BY DEF Uniques, Fresh, Conflicts, Duplicates, SeenBefore

\* The state keeps what it has and records the first row of a new id.
LEMMA SeenTypes ==
  ASSUME TypeOK, batch \in Batch
  PROVE  SeenAfter(batch) \in [Id -> SUBSET Body]
<1> SUFFICES ASSUME NEW e \in Id, {i \in Rows(batch) : batch[i].id = e} # {}
             PROVE  Hash(batch, FirstRow(batch, CHOOSE i \in {k \in Rows(batch) : batch[k].id = e} : TRUE))
                       \in SUBSET Body
  BY DEF SeenAfter, TypeOK
<1>1. PICK i \in Rows(batch) : i = CHOOSE k \in {m \in Rows(batch) : batch[m].id = e} : TRUE
  OBVIOUS
<1>2. FirstRow(batch, i) \in DOMAIN batch
  BY FirstRowExists DEF Rows
<1>3. QED BY <1>1, <1>2, Types

LEMMA SeenKept ==
  ASSUME NEW e \in Id, seen[e] # {}
  PROVE  SeenAfter(batch)[e] = seen[e]
BY DEF SeenAfter

\* Of a fresh row's id the state has something afterwards.
LEMMA SeenRecords ==
  ASSUME TypeOK, KeepState, batch \in Batch, NEW i \in Rows(batch)
  PROVE  SeenAfter(batch)[batch[i].id] # {}
<1> DEFINE e == batch[i].id
           rows == {k \in Rows(batch) : batch[k].id = e}
<1>1. e \in Id /\ i \in rows
  BY Types DEF Rows
<1>2. CASE seen[e] # {}
  BY <1>1, <1>2, SeenKept
<1>3. CASE seen[e] = {}
  <2>1. PICK j \in Rows(batch) : j = CHOOSE k \in rows : TRUE
    BY <1>1
  <2>2. FirstRow(batch, j) \in DOMAIN batch
    BY FirstRowExists DEF Rows
  <2>3. Hash(batch, FirstRow(batch, j)) # {}
    BY <2>2, Types
  <2>4. SeenAfter(batch)[e] = Hash(batch, FirstRow(batch, CHOOSE k \in rows : TRUE))
    BY <1>1, <1>3 DEF SeenAfter
  <2>5. QED BY <2>1, <2>3, <2>4
<1>4. QED BY <1>2, <1>3
-----------------------------------------------------------------------------
(* Preservation. *)

LEMMA InitiallyIInv == Init => IInv
<1> SUFFICES ASSUME Init PROVE IInv
  OBVIOUS
<1>1. TypeOK
  BY BoundsAssumption DEF Init, TypeOK, NoResult, Unseen
<1>2. QED
  BY <1>1 DEF Init, IInv, Split, Progress, Recorded, Settled, EveryRecordRouted, SkippedWasPublished

\* What the topics hold stays there, so what is routed stays routed.
LEMMA StaysRouted ==
  ASSUME validated \subseteq validated', invalid \subseteq invalid'
  PROVE  /\ \A x : Published(x) => Published(x)'
         /\ \A x : Dropped(x) => Dropped(x)'
BY DEF Published, Dropped

LEMMA StaysSettled ==
  ASSUME Settled, settled' = settled, skipped' = skipped,
         validated \subseteq validated', invalid \subseteq invalid'
  PROVE  Settled'
BY DEF Settled, EveryRecordRouted, SkippedWasPublished

\* A call that ends without returning leaves the batch and the topics.
LEMMA IdleIInv ==
  ASSUME IInv, TypeOK', stage' = "idle", settled' = settled, skipped' = skipped,
         validated \subseteq validated', invalid \subseteq invalid',
         KeepState => \A e \in emitted' : seen'[e.id] # {}
  PROVE  IInv'
<1>1. Settled'
  BY StaysSettled DEF IInv
<1>2. QED BY <1>1 DEF IInv, Split, Progress, Recorded

LEMMA DeliverIInv == ASSUME IInv, NEW b \in Batch, Deliver(b) PROVE IInv'
<1>1. todo = {} /\ unique = {}
  <2>1. DOMAIN << >> = {}
    OBVIOUS
  <2>2. QED BY <2>1 DEF Deliver, IInv, TypeOK
<1>2. TypeOK'
  BY <1>1, BoundsAssumption DEF Deliver, IInv, TypeOK, topicVars
<1>3. QED BY <1>2, IdleIInv DEF Deliver, IInv, Recorded, topicVars

LEMMA BeginIInv == ASSUME IInv, Begin PROVE IInv'
<1>1. TypeOK'
  BY DEF Begin, IInv, TypeOK, topicVars, NoResult, RejectedRows
<1>2. Settled'
  BY StaysSettled DEF Begin, IInv, topicVars
<1>3. Split' /\ Progress' /\ Recorded'
  BY DEF Begin, IInv, TypeOK, Split, Progress, Recorded, topicVars
<1>4. QED BY <1>1, <1>2, <1>3 DEF IInv

\* One record is published, and its row leaves todo.
LEMMA PublishInvalidIInv ==
  ASSUME IInv, NEW reason \in {"validation", "conflict"}, PublishInvalid(reason)
  PROVE  IInv'
<1> DEFINE e == Indexed(batch, NextRow)
<1>1. TypeOK /\ todo # {}
  BY DEF IInv, PublishInvalid
<1>2. e \in Event /\ e.id = batch[NextRow].id /\ NextRow \in DOMAIN batch
  BY <1>1, IndexedNext, NextRowExists
<1>3. /\ invalid' = invalid \cup {[event |-> e, reason |-> reason]}
      /\ todo' = todo \ {NextRow}
      /\ UNCHANGED <<stage, batch, unique, seen, validated, settled, skipped, emitted, delivered>>
  BY DEF PublishInvalid
<1>4. TypeOK'
  <2>1. Counted(reason) \in [valid : Nat, invalid : Nat, duplicates : Nat, conflicts : Nat]
    <3>1. /\ tally.invalid + 1 \in Nat /\ tally.conflicts + 1 \in Nat /\ tally.conflicts \in Nat
          /\ tally \in [valid : Nat, invalid : Nat, duplicates : Nat, conflicts : Nat]
      BY <1>1 DEF TypeOK
    <3>2. QED BY <3>1 DEF Counted
  <2>2. tally' = Counted(reason)
    BY DEF PublishInvalid
  <2>3. QED BY <1>1, <1>2, <1>3, <2>1, <2>2 DEF TypeOK
<1>5. \A x : Dropped(x) \/ x = e.id => Dropped(x)'
  <2>1. [event |-> e, reason |-> reason] \in invalid' /\ invalid \subseteq invalid'
    BY <1>3
  <2>2. [event |-> e, reason |-> reason].event = e
    OBVIOUS
  <2>3. QED BY <2>1, <2>2 DEF Dropped
<1>6. Progress'
  <2>1. \A i \in DOMAIN batch : Dropped(batch[i].id) \/ i = NextRow => Dropped(batch[i].id)'
    <3> SUFFICES ASSUME NEW i \in DOMAIN batch, Dropped(batch[i].id) \/ i = NextRow
                 PROVE  Dropped(batch[i].id)'
      OBVIOUS
    <3> DEFINE x == batch[i].id
    <3>1. Dropped(x) \/ x = e.id
      BY <1>2
    <3>2. x' = x
      BY <1>3
    <3>3. QED BY <1>5, <3>1, <3>2 DEF Dropped
  <2>3. stage # "valid" /\ RejectedRows(batch) \subseteq DOMAIN batch /\ Conflicts(batch) \subseteq DOMAIN batch
    BY DEF PublishInvalid, RejectedRows, Conflicts, Rows
  <2>4. QED BY <1>3, <2>1, <2>3 DEF IInv, Progress
<1>7. Split' /\ Recorded'
  BY <1>3 DEF IInv, Split, Recorded, New, PublishInvalid
<1>8. Settled'
  BY <1>3, StaysSettled DEF IInv
<1>9. QED BY <1>4, <1>6, <1>7, <1>8 DEF IInv

LEMMA PublishValidIInv == ASSUME IInv, PublishValid PROVE IInv'
<1> DEFINE e == Indexed(batch, NextRow)
<1>1. TypeOK /\ todo # {} /\ stage = "valid"
  BY DEF IInv, PublishValid
<1>2. /\ e \in Event /\ e.id = batch[NextRow].id
      /\ NextRow \in DOMAIN batch /\ NextRow \in todo /\ batch \in Batch
  BY <1>1, IndexedNext, NextRowExists
<1>3. /\ validated' = validated \cup {e}
      /\ emitted' = emitted \cup {e}
      /\ todo' = todo \ {NextRow}
      /\ UNCHANGED <<stage, batch, unique, tally, seen, invalid, settled, skipped, delivered>>
  BY DEF PublishValid
<1>4. TypeOK'
  BY <1>1, <1>2, <1>3 DEF TypeOK
<1>5. \A x : Published(x) \/ x = e.id => Published(x)'
  <2>1. e \in validated' /\ validated \subseteq validated'
    BY <1>3
  <2>2. QED BY <2>1 DEF Published
<1>6. Progress'
  <2>1. \A x : Dropped(x)' = Dropped(x)
    BY <1>3 DEF Dropped
  <2>2. ASSUME NEW i \in unique \ todo' PROVE Published(batch[i].id)'
    <3> DEFINE x == batch[i].id
    <3>1. Published(x) \/ x = e.id
      BY <1>1, <1>2, <1>3 DEF IInv, Progress
    <3>2. x' = x
      BY <1>3
    <3>3. QED BY <1>5, <3>1, <3>2 DEF Published
  <2>3. QED BY <1>1, <1>3, <2>1, <2>2 DEF IInv, Progress
<1>7. Split'
  BY <1>3 DEF IInv, Split
<1>8. Recorded'
  <2> SUFFICES ASSUME KeepState PROVE Recorded'
    BY DEF Recorded
  <2>1. NextRow \in unique /\ todo \subseteq unique /\ unique \subseteq Fresh(batch)
    BY <1>1, <1>2 DEF IInv, Progress, Split
  <2>2. \A d \in emitted' : seen'[d.id] # {}
    BY <1>1, <1>2, <1>3, <2>1 DEF IInv, Recorded
  <2>3. ASSUME NEW i \in todo' PROVE batch[i].id # e.id
    BY <1>2, <1>3, <2>1, FreshIsAlone
  <2>4. ASSUME NEW i \in todo' PROVE New(i)'
    BY <1>1, <1>3, <2>3 DEF IInv, Recorded, New
  <2>5. QED BY <1>1, <1>3, <2>2, <2>4 DEF IInv, Recorded
<1>9. Settled'
  BY <1>3, StaysSettled DEF IInv
<1>10. QED BY <1>4, <1>6, <1>7, <1>8, <1>9 DEF IInv

LEMMA DeduplicateIInv == ASSUME IInv, batch \in Batch, Deduplicate PROVE IInv'
<1>1. /\ TypeOK /\ stage = "invalid" /\ todo = {}
      /\ stage' = "conflicts" /\ todo' = Conflicts(batch) /\ unique' = Uniques(batch)
      /\ seen' = SeenAfter(batch)
      /\ UNCHANGED <<batch, validated, invalid, settled, skipped, emitted, delivered>>
  BY DEF IInv, Deduplicate, topicVars
<1>2. Conflicts(batch) \subseteq DOMAIN batch /\ Uniques(batch) \subseteq Rows(batch)
      /\ Rows(batch) \subseteq DOMAIN batch /\ Duplicates(batch) \subseteq DOMAIN batch
  BY DEF Conflicts, Uniques, Duplicates, Rows
<1>3. TypeOK'
  <2>1. Cardinality(Duplicates(batch)) \in Nat
    BY <1>2, RowsAreFinite
  <2>2. tally' \in [valid : Nat, invalid : Nat, duplicates : Nat, conflicts : Nat]
    BY <1>1, <2>1 DEF Deduplicate, TypeOK
  <2>3. QED BY <1>1, <1>2, <2>2, SeenTypes DEF TypeOK
<1>4. Split'
  BY <1>1, UniquesAreFresh DEF Split, Fresh, Rows, Passes, InConflict, RepeatedInBatch, SameId, Hash
<1>5. Progress'
  <2>1. \A i \in RejectedRows(batch) : Dropped(batch[i].id)
    BY <1>1 DEF IInv, Progress
  <2>2. QED BY <1>1, <2>1 DEF Progress, Dropped
<1>6. Recorded'
  <2> SUFFICES ASSUME KeepState PROVE Recorded'
    BY DEF Recorded
  <2>1. \A d \in emitted : d.id \in Id /\ seen[d.id] # {}
    BY <1>1 DEF IInv, Recorded, TypeOK, Event
  <2>2. \A d \in emitted' : seen'[d.id] # {}
    BY <1>1, <2>1, SeenKept
  <2>3. \A i \in unique' : seen'[batch'[i].id] # {}
    BY <1>1, <1>2, SeenRecords
  <2>4. ASSUME NEW i \in Uniques(batch), SeenAfter(batch)[batch[i].id] = Hash(batch, i),
               NEW d \in emitted, d.id = batch[i].id
        PROVE  FALSE
    <3>1. seen[batch[i].id] # {} /\ SeenAfter(batch)[batch[i].id] = seen[batch[i].id]
      BY <2>1, <2>4, SeenKept
    <3>2. SeenBefore(batch, i)
      BY <2>4, <3>1 DEF SeenBefore
    <3>3. QED BY <3>2, <2>4 DEF Uniques, Duplicates
  <2>5. \A i \in unique' : New(i)'
    BY <1>1, <2>4 DEF New, Hash
  <2>6. QED BY <1>1, <2>2, <2>3, <2>5 DEF Recorded
<1>7. Settled'
  BY <1>1, StaysSettled DEF IInv
<1>8. QED BY <1>3, <1>4, <1>5, <1>6, <1>7 DEF IInv

LEMMA ConflictsDoneIInv == ASSUME IInv, ConflictsDone PROVE IInv'
<1>1. /\ TypeOK /\ stage = "conflicts" /\ todo = {} /\ stage' = "valid" /\ todo' = unique
      /\ UNCHANGED <<batch, unique, tally, seen, validated, invalid, settled, skipped, emitted, delivered>>
  BY DEF IInv, ConflictsDone, topicVars
<1>2. TypeOK'
  BY <1>1 DEF TypeOK
<1>3. Split' /\ Recorded'
  BY <1>1 DEF IInv, Split, Recorded, New
<1>4. Progress'
  <2>1. /\ \A i \in RejectedRows(batch) : Dropped(batch[i].id)
        /\ \A i \in Conflicts(batch) : Dropped(batch[i].id)
    BY <1>1 DEF IInv, Progress
  <2>2. QED BY <1>1, <2>1 DEF Progress, Dropped
<1>5. Settled'
  BY <1>1, StaysSettled DEF IInv
<1>6. QED BY <1>2, <1>3, <1>4, <1>5 DEF IInv

\* When every stage is done, each message of the batch has its id in a topic:
\* a repeated row has that of the fresh row it repeats.
LEMMA AllRouted ==
  ASSUME IInv, ~KeepState, batch \in Batch, stage = "valid", todo = {}
  PROVE  /\ \A i \in DOMAIN batch : Published(batch[i].id) \/ Dropped(batch[i].id)
         /\ \A i \in Rows(batch) \ Conflicts(batch) : Published(batch[i].id)
<1>1. /\ \A i \in RejectedRows(batch) : Dropped(batch[i].id)
      /\ \A i \in Conflicts(batch) : Dropped(batch[i].id)
      /\ \A i \in Fresh(batch) : Published(batch[i].id)
  BY DEF IInv, Progress, Split
<1>2. ASSUME NEW i \in Rows(batch) \ Conflicts(batch) PROVE Published(batch[i].id)
  <2>1. ~InConflict(batch, i)
    BY DEF Conflicts
  <2>2. QED BY <1>1, <2>1, FirstIsFresh
<1>3. QED BY <1>1, <1>2 DEF RejectedRows

LEMMA ReturnIInv == ASSUME IInv, batch \in Batch, Return PROVE IInv'
<1>1. /\ TypeOK /\ stage = "valid" /\ todo = {} /\ stage' = "idle" /\ batch' = << >> /\ unique' = {}
      /\ settled' = settled \cup {batch[i] : i \in DOMAIN batch}
      /\ skipped' = skipped \cup {batch[i] : i \in Rows(batch) \ (unique \cup Conflicts(batch))}
      /\ UNCHANGED <<todo, seen, validated, invalid, emitted, delivered>>
  BY DEF IInv, Return, topicVars
<1>2. \A i \in DOMAIN batch : batch[i] \in Event
  BY Types
<1>3. TypeOK'
  <2>1. unique \subseteq DOMAIN batch
    BY <1>1 DEF TypeOK
  <2>2. Cardinality(unique) \in Nat
    BY <2>1, RowsAreFinite
  <2>3. tally' \in [valid : Nat, invalid : Nat, duplicates : Nat, conflicts : Nat]
    BY <1>1, <2>2 DEF Return, TypeOK
  <2>4. QED BY <1>1, <1>2, <2>3 DEF TypeOK, Rows
<1>4. Settled'
  <2> SUFFICES ASSUME ~KeepState PROVE EveryRecordRouted' /\ SkippedWasPublished'
    BY DEF Settled
  <2>1. /\ \A i \in DOMAIN batch : Published(batch[i].id) \/ Dropped(batch[i].id)
        /\ \A i \in Rows(batch) \ Conflicts(batch) : Published(batch[i].id)
    BY <1>1, AllRouted
  <2>2. EveryRecordRouted'
    <3>1. \A i \in DOMAIN batch : \/ \E v \in validated : v.id = batch[i].id
                                 \/ \E d \in invalid : d.event.id = batch[i].id
      BY <2>1 DEF Published, Dropped
    <3>2. EveryRecordRouted
      BY DEF IInv, Settled
    <3>3. QED BY <1>1, <3>1, <3>2 DEF EveryRecordRouted
  <2>3. SkippedWasPublished'
    <3>1. \A i \in Rows(batch) \ Conflicts(batch) : \E v \in validated : v.id = batch[i].id
      BY <2>1 DEF Published
    <3>2. SkippedWasPublished
      BY DEF IInv, Settled
    <3>3. QED BY <1>1, <3>1, <3>2 DEF SkippedWasPublished
  <2>4. QED BY <2>2, <2>3
<1>5. Split' /\ Progress' /\ Recorded'
  BY <1>1 DEF IInv, Split, Progress, Recorded
<1>6. QED BY <1>3, <1>4, <1>5 DEF IInv

LEMMA SinkFailsIInv == ASSUME IInv, SinkFails PROVE IInv'
<1> DEFINE e == Indexed(batch, NextRow)
<1>1. TypeOK /\ todo # {}
  BY DEF IInv, SinkFails
<1>2. e \in Event /\ e.id = batch[NextRow].id /\ NextRow \in todo
  BY <1>1, IndexedNext, NextRowExists
<1>3. /\ validated' \in {validated, validated \cup {e}}
      /\ invalid' \in {invalid, invalid \cup {[event |-> e, reason |-> "conflict"]},
                       invalid \cup {[event |-> e, reason |-> "validation"]}}
      /\ stage' = "idle" /\ todo' = {} /\ unique' = {} /\ tally' = NoResult
      /\ emitted' = IF stage = "valid" THEN emitted \cup {e} ELSE emitted
      /\ UNCHANGED <<batch, seen, settled, skipped, delivered>>
  BY DEF SinkFails, topicVars
<1>4. TypeOK'
  BY <1>1, <1>2, <1>3 DEF TypeOK, NoResult
<1>5. KeepState => \A d \in emitted' : seen'[d.id] # {}
  BY <1>2, <1>3 DEF IInv, Recorded, Progress
<1>6. validated \subseteq validated' /\ invalid \subseteq invalid'
  BY <1>3
<1>7. QED BY <1>3, <1>4, <1>5, <1>6, IdleIInv

LEMMA RestartIInv == ASSUME IInv, Restart PROVE IInv'
<1>1. TypeOK'
  BY DEF Restart, IInv, TypeOK, NoResult, Unseen, topicVars
<1>2. QED BY <1>1, IdleIInv DEF Restart, topicVars

LEMMA Invariance == IInv /\ [Next]_vars => IInv'
<1> SUFFICES ASSUME IInv, [Next]_vars PROVE IInv'
  OBVIOUS
<1>1. CASE UNCHANGED vars
  BY <1>1 DEF vars, callVars, topicVars, IInv, TypeOK, Split, Progress, Recorded, New, Settled,
              Published, Dropped, EveryRecordRouted, SkippedWasPublished
<1>2. CASE \E b \in Batch : Deliver(b)
  BY <1>2, DeliverIInv
<1>3. CASE Begin
  BY <1>3, BeginIInv
<1>4. CASE PublishStep
  BY <1>4, PublishInvalidIInv, PublishValidIInv DEF PublishStep
<1>5. CASE Deduplicate \/ Return
  <2>1. batch \in Batch
    BY <1>5 DEF IInv, Split, Deduplicate, Return
  <2>2. QED BY <1>5, <2>1, DeduplicateIInv, ReturnIInv
<1>6. CASE ConflictsDone
  BY <1>6, ConflictsDoneIInv
<1>7. CASE SinkFails \/ Restart
  BY <1>7, SinkFailsIInv, RestartIInv
<1>8. QED
  BY <1>1, <1>2, <1>3, <1>4, <1>5, <1>6, <1>7 DEF Next, CallStep

\* The invariant holds in every reachable state.
THEOREM PipelineInvariant == Spec => []IInv
BY InitiallyIInv, Invariance, PTL DEF Spec

-----------------------------------------------------------------------------
(* The properties. *)

\* The call's locals, the state and the topics stay well typed.
THEOREM TypeCorrect == Spec => []TypeOK
<1>1. IInv => TypeOK
  BY DEF IInv
<1>2. QED BY <1>1, PipelineInvariant, PTL

\* Without a state, which is how services/processor/__main__.py calls it, no
\* message of a batch that returned is dropped: its event id is in one of the
\* topics (pipeline.py: "Invalid records are never silently dropped").
THEOREM NothingDropped == ASSUME ~KeepState PROVE Spec => []EveryRecordRouted
<1>1. IInv => EveryRecordRouted
  BY DEF IInv, Settled
<1>2. QED BY <1>1, PipelineInvariant, PTL

\* Without a state a record skipped as a duplicate stands for a published one.
THEOREM DuplicatesWerePublished == ASSUME ~KeepState PROVE Spec => []SkippedWasPublished
<1>1. IInv => SkippedWasPublished
  BY DEF IInv, Settled
<1>2. QED BY <1>1, PipelineInvariant, PTL

\* If no two payloads hash alike, two payloads under one event id in a batch
\* keep both rows from the valid topic (deduplication.py: conflicts are
\* "surfaced explicitly").
THEOREM ConflictsSurface ==
  ASSUME \A a, b \in Unpriced : a = b
  PROVE  Spec => []ConflictsSurfaced
<1>1. IInv => ConflictsSurfaced
  <2> SUFFICES ASSUME IInv, stage = "valid", NEW i \in Rows(batch), NEW j \in Rows(batch),
                      batch[i].id = batch[j].id, batch[i].body # batch[j].body
               PROVE  i \notin unique
    BY DEF ConflictsSurfaced
  <2>1. batch \in Batch /\ unique \subseteq Fresh(batch)
    BY DEF IInv, Split
  <2>2. Hash(batch, i) # Hash(batch, j)
    BY DEF Hash, HashOf
  <2>3. InConflict(batch, i)
    BY <2>2 DEF InConflict, SameId, Rows
  <2>4. QED BY <2>1, <2>3 DEF Fresh
<1>2. QED BY <1>1, PipelineInvariant, PTL

\* With a state, a process publishes no payload again that it has recorded and
\* published under its event id (deduplication.py, check_and_update).
THEOREM RecordedIsNotReplayed == Spec => []NoReplayOfRecorded
<1>1. IInv => NoReplayOfRecorded
  <2> SUFFICES ASSUME IInv, KeepState, stage = "valid", NEW i \in todo,
                      Indexed(batch, i) \in emitted, seen[batch[i].id] = Hash(batch, i)
               PROVE  FALSE
    BY DEF NoReplayOfRecorded
  <2>1. batch \in Batch /\ i \in DOMAIN batch
    BY DEF IInv, Split, TypeOK
  <2>2. Indexed(batch, i).id = batch[i].id
    BY <2>1, IndexFinds
  <2>3. New(i)
    BY DEF IInv, Recorded
  <2>4. QED BY <2>2, <2>3 DEF New
<1>2. QED BY <1>1, PipelineInvariant, PTL
=============================================================================
