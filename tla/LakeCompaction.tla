--------------------------- MODULE LakeCompaction ---------------------------
(***************************************************************************)
(* One partition of the lake (libs/raw_writer, libs/compaction and         *)
(* libs/parquet_reader): a writer puts one object per event under a key    *)
(* made from the event id, the compactor replaces those objects by one,    *)
(* and a reader lists the partition and then reads what it listed.  Every  *)
(* call of the object store is a step of its own, may fail, and may have   *)
(* taken effect all the same.                                              *)
(*                                                                         *)
(* A compaction that fails is not resumed: the Airflow task runs again,    *)
(* at once or on the next schedule, from the listing.  The rows of an      *)
(* object are the records in it.                                           *)
(***************************************************************************)
EXTENDS Naturals, FiniteSets

CONSTANTS Record,      \* the events of the partition
          Key,         \* the object keys their ids are made into
          KeyOf,       \* record -> its key
          Worker,      \* the compactions that may run at the same time
          MinFiles,    \* CompactionConfig.min_files_to_compact
          MaxRuns,     \* bound: compacted objects ever written
          MayFail,     \* whether calls of the store fail
          MayReplay    \* whether an event is delivered again

\* The compacted-<uuid> objects, in the order they are written.
Compacted == 1 .. MaxRuns
Object == Key \cup Compacted

ASSUME KeyAssumption == KeyOf \in [Record -> Key] /\ Key \cap Nat = {}
ASSUME FiniteAssumption == IsFiniteSet(Record)
ASSUME BoundsAssumption == MinFiles \in Nat \ {0} /\ MaxRuns \in Nat
ASSUME FaultAssumption == MayFail \in BOOLEAN /\ MayReplay \in BOOLEAN

VARIABLES store,     \* object -> its rows, {} where there is no object
          accepted,  \* the records whose write_event returned
          runs,      \* how many compacted objects were written
          pc,        \* worker -> where compact_partition stands
          listing,   \* worker -> the source keys it listed
          left,      \* worker -> those it has not read, or not deleted
          rows,      \* worker -> the rows of `combined`
          target,    \* worker -> the compacted object it wrote
          outcome,   \* worker -> how its last compaction ended
          query,     \* where the reader stands
          asked,     \* the stored records when it listed
          toRead,    \* the listed objects it has not read
          got        \* the rows it has read

lakeVars == <<store, accepted>>
workerVars == <<runs, pc, listing, left, rows, target, outcome>>
readerVars == <<query, asked, toRead, got>>
vars == <<lakeVars, workerVars, readerVars>>

Stored == UNION {store[o] : o \in Object}

TypeOK ==
  /\ store \in [Object -> SUBSET Record]
  /\ accepted \subseteq Record
  /\ runs \in 0 .. MaxRuns
  /\ pc \in [Worker -> {"idle", "read", "put", "validate", "discard", "delete"}]
  /\ listing \in [Worker -> SUBSET Key]
  /\ left \in [Worker -> SUBSET Key]
  /\ rows \in [Worker -> SUBSET Record]
  /\ target \in [Worker -> 0 .. MaxRuns]
  /\ outcome \in [Worker -> {"none", "compacted", "error"}]
  /\ query \in {"none", "running", "rows", "empty"}
  /\ asked \subseteq Record
  /\ toRead \subseteq Object
  /\ got \subseteq Record

Init ==
  /\ store = [o \in Object |-> {}]
  /\ accepted = {}
  /\ runs = 0
  /\ pc = [w \in Worker |-> "idle"]
  /\ listing = [w \in Worker |-> {}]
  /\ left = [w \in Worker |-> {}]
  /\ rows = [w \in Worker |-> {}]
  /\ target = [w \in Worker |-> 0]
  /\ outcome = [w \in Worker |-> "none"]
  /\ query = "none" /\ asked = {} /\ toRead = {} /\ got = {}

-----------------------------------------------------------------------------
(* The writer. *)

\* put_object under the deterministic key, replacing what is there.
Write(r) ==
  /\ r \in accepted => MayReplay
  /\ store' = [store EXCEPT ![KeyOf[r]] = {r}]
  /\ accepted' = accepted \cup {r}
  /\ UNCHANGED <<workerVars, readerVars>>

\* put_object raises StorageError although the object was stored: the offset
\* is not committed and the event will be delivered again.
WriteInDoubt(r) ==
  /\ MayFail /\ r \notin accepted
  /\ store' = [store EXCEPT ![KeyOf[r]] = {r}]
  /\ UNCHANGED <<accepted, workerVars, readerVars>>

-----------------------------------------------------------------------------
(* The compactor. *)

Sources == {k \in Key : store[k] # {}}

\* compact_partition returns; its locals are gone.
Returns(w, how) ==
  /\ pc' = [pc EXCEPT ![w] = "idle"]
  /\ outcome' = [outcome EXCEPT ![w] = how]
  /\ listing' = [listing EXCEPT ![w] = {}]
  /\ left' = [left EXCEPT ![w] = {}]
  /\ rows' = [rows EXCEPT ![w] = {}]
  /\ target' = [target EXCEPT ![w] = 0]

List(w) ==
  /\ pc[w] = "idle" /\ runs < MaxRuns
  /\ Cardinality(Sources) >= MinFiles
  /\ pc' = [pc EXCEPT ![w] = "read"]
  /\ listing' = [listing EXCEPT ![w] = Sources]
  /\ left' = [left EXCEPT ![w] = Sources]
  /\ rows' = [rows EXCEPT ![w] = {}]
  /\ UNCHANGED <<lakeVars, runs, target, outcome, readerVars>>

\* The slip collects the keys in place of the rows.
ReadSource_Slip(w, k) ==
  /\ pc[w] = "read" /\ k \in left[w] /\ store[k] # {}
  /\ rows' = [rows EXCEPT ![w] = @ \cup {k}]
  /\ left' = [left EXCEPT ![w] = @ \ {k}]
  /\ UNCHANGED <<lakeVars, runs, pc, listing, target, outcome, readerVars>>
ReadSource(w, k) ==
  /\ pc[w] = "read" /\ k \in left[w] /\ store[k] # {}
  /\ rows' = [rows EXCEPT ![w] = @ \cup store[k]]
  /\ left' = [left EXCEPT ![w] = @ \ {k}]
  /\ UNCHANGED <<lakeVars, runs, pc, listing, target, outcome, readerVars>>

Combine(w) ==
  /\ pc[w] = "read" /\ left[w] = {}
  /\ pc' = [pc EXCEPT ![w] = "put"]
  /\ UNCHANGED <<lakeVars, runs, listing, left, rows, target, outcome, readerVars>>

\* Rows may be missing from what was written: that is what the validation
\* is for.
Put(w) ==
  /\ pc[w] = "put" /\ runs < MaxRuns
  /\ runs' = runs + 1
  /\ \E written \in IF MayFail THEN SUBSET rows[w] \ {{}} ELSE {rows[w]} :
       store' = [store EXCEPT ![runs + 1] = written]
  /\ target' = [target EXCEPT ![w] = runs + 1]
  /\ pc' = [pc EXCEPT ![w] = "validate"]
  /\ UNCHANGED <<accepted, listing, left, rows, outcome, readerVars>>

\* The record counts agree and the sources may go, or the new object goes.
\* The slip only checks that the object is there.
Validate_Slip(w) ==
  /\ pc[w] = "validate"
  /\ pc' = [pc EXCEPT ![w] = "delete"]
  /\ left' = [left EXCEPT ![w] = listing[w]]
  /\ UNCHANGED <<lakeVars, runs, listing, rows, target, outcome, readerVars>>
Validate(w) ==
  /\ pc[w] = "validate"
  /\ IF Cardinality(store[target[w]]) = Cardinality(rows[w])
     THEN /\ pc' = [pc EXCEPT ![w] = "delete"]
          /\ left' = [left EXCEPT ![w] = listing[w]]
     ELSE /\ pc' = [pc EXCEPT ![w] = "discard"]
          /\ UNCHANGED left
  /\ UNCHANGED <<lakeVars, runs, listing, rows, target, outcome, readerVars>>

\* The slip takes the newest compacted object for its own.
Discard_Slip(w) ==
  /\ pc[w] = "discard"
  /\ store' = [store EXCEPT ![runs] = {}]
  /\ Returns(w, "error")
  /\ UNCHANGED <<accepted, runs, readerVars>>
Discard(w) ==
  /\ pc[w] = "discard"
  /\ store' = [store EXCEPT ![target[w]] = {}]
  /\ Returns(w, "error")
  /\ UNCHANGED <<accepted, runs, readerVars>>

DeleteSource(w, k) ==
  /\ pc[w] = "delete" /\ k \in left[w]
  /\ store' = [store EXCEPT ![k] = {}]
  /\ left' = [left EXCEPT ![w] = @ \ {k}]
  /\ UNCHANGED <<accepted, runs, pc, listing, rows, target, outcome, readerVars>>

Finish(w) ==
  /\ pc[w] = "delete" /\ left[w] = {}
  /\ Returns(w, "compacted")
  /\ UNCHANGED <<lakeVars, runs, readerVars>>

\* A call raises, or the worker dies, after whatever it has done so far: a
\* deletion or upload that took effect is a step of its own before this one.
\* A listed object that is gone raises KeyError even when the store is well.
Fail(w) ==
  /\ pc[w] # "idle"
  /\ MayFail \/ (pc[w] = "read" /\ \E k \in left[w] : store[k] = {})
  /\ Returns(w, "error")
  /\ UNCHANGED <<lakeVars, runs, readerVars>>

-----------------------------------------------------------------------------
(* The reader. *)

\* scan: discover the files of the partition, compacted ones included.  The
\* slip skips those, as the compactor does.
ScanFiles_Slip == Sources
ScanFiles == {o \in Object : store[o] # {}}

Scan ==
  /\ query # "running"
  /\ query' = "running"
  /\ asked' = Stored
  /\ toRead' = ScanFiles
  /\ got' = {}
  /\ UNCHANGED <<lakeVars, workerVars>>

\* Polars reads the listed objects, in no particular order.
ReadObject(o) ==
  /\ query = "running" /\ o \in toRead /\ store[o] # {}
  /\ got' = got \cup store[o]
  /\ toRead' = toRead \ {o}
  /\ UNCHANGED <<lakeVars, workerVars, query, asked>>

ReadEnds ==
  /\ query = "running" /\ toRead = {}
  /\ query' = IF got = {} THEN "empty" ELSE "rows"
  /\ UNCHANGED <<lakeVars, workerVars, asked, toRead, got>>

\* LakeReader.read turns a missing object, and any other OSError, into an
\* empty frame.
ReadFails ==
  /\ query = "running"
  /\ MayFail \/ \E o \in toRead : store[o] = {}
  /\ query' = "empty"
  /\ got' = {} /\ toRead' = {}
  /\ UNCHANGED <<lakeVars, workerVars, asked>>

-----------------------------------------------------------------------------

WriterStep == \E r \in Record : Write(r) \/ WriteInDoubt(r)
WorkerStep == \E w \in Worker :
  \/ List(w) \/ (\E k \in Key : ReadSource(w, k)) \/ Combine(w) \/ Put(w) \/ Validate(w)
  \/ Discard(w) \/ (\E k \in Key : DeleteSource(w, k)) \/ Finish(w) \/ Fail(w)
ReaderStep == Scan \/ (\E o \in Object : ReadObject(o)) \/ ReadEnds \/ ReadFails

Next == WriterStep \/ WorkerStep \/ ReaderStep

Spec == Init /\ [][Next]_vars

-----------------------------------------------------------------------------

\* No two event ids are sanitized to the same segment.
DistinctKeys == \A r \in Record, s \in Record : KeyOf[r] = KeyOf[s] => r = s

\* An event whose write was acknowledged is in some object of the partition
\* for good, whatever fails in a compaction ("no data loss",
\* services/raw-writer/__init__.py; "Validates replacement before source
\* removal", compactor.py).
NoRecordLost == accepted \subseteq Stored

\* A query that returns rows misses no record stored when it began, although
\* objects appear and go while it reads.
ReadsComplete == query = "rows" => asked \subseteq got

\* After a compaction that succeeded no record is in two objects: "partial
\* failures do not cause data duplication on retry" (compactor.py).
OneCopyWhenCompacted ==
  (\A w \in Worker : pc[w] = "idle" /\ outcome[w] = "compacted") =>
    \A o1 \in Object, o2 \in Object : o1 # o2 => store[o1] \cap store[o2] = {}

\* The objects implement the table: refinement mapping Stored.
Table == INSTANCE LakeTable WITH stored <- Stored
ImplementsLakeTable == Table!Spec
=============================================================================
