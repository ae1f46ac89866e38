------------------------ MODULE LakeCompactionProofs ------------------------
(***************************************************************************)
(* Proofs about LakeCompaction for every set of events, number of          *)
(* overlapping compactions and number of runs, provided that no two event  *)
(* ids share a key.  NoRecordLost says too little to be inductive: a       *)
(* source may be deleted only because its rows are in an object that       *)
(* nobody will discard, and that is known only from what the worker read   *)
(* (Progress) and from the objects the workers write being their own       *)
(* (OwnTargets).                                                           *)
(***************************************************************************)
EXTENDS LakeCompaction, FiniteSetTheorems, TLAPS

Has(w, s) == pc[w] \in s
Wrote(w) == Has(w, {"validate", "discard", "delete"})

\* A source object holds the record its key is made from.
OwnKeys == \A k \in Key : \A r \in store[k] : KeyOf[r] = k

\* Each worker's compacted object is its own, and later ones do not exist.
OwnTargets ==
  /\ \A w \in Worker : Wrote(w) => target[w] \in 1 .. runs
  /\ \A w \in Worker, v \in Worker :
       w # v /\ Wrote(w) /\ Wrote(v) => target[w] # target[v]
  /\ \A n \in Compacted : n > runs => store[n] = {}

\* What a worker has read of the objects it listed.
Progress ==
  \A w \in Worker :
    /\ Has(w, {"read", "delete"}) => left[w] \subseteq listing[w]
    /\ pc[w] = "validate" => store[target[w]] \subseteq rows[w]
    /\ \A r \in Record : KeyOf[r] \in listing[w] =>
         /\ pc[w] = "read" /\ KeyOf[r] \notin left[w] => r \in rows[w]
         /\ Has(w, {"put", "validate"}) => r \in rows[w]
         /\ pc[w] = "delete" => r \in store[target[w]]

\* A record is in its source object, or in a compacted one that nobody may
\* still discard.
Safe(r) ==
  \/ r \in store[KeyOf[r]]
  \/ \E n \in 1 .. runs : /\ r \in store[n]
                          /\ \A w \in Worker : Has(w, {"validate", "discard"}) => target[w] # n

AllSafe == \A r \in Record :
  r \in accepted \/ r \in Stored \/ (\E w \in Worker : r \in rows[w]) => Safe(r)

\* What the reader has not read yet is still to be read, or its object is
\* gone and the query will fail.
Pending ==
  query = "running" => \A r \in asked :
    \/ r \in got
    \/ KeyOf[r] \in toRead
    \/ \E n \in toRead \cap (1 .. runs) : store[n] = {} \/ r \in store[n]

IInv == /\ TypeOK
        /\ OwnKeys
        /\ OwnTargets
        /\ Progress
        /\ AllSafe
        /\ Pending
        /\ ReadsComplete

-----------------------------------------------------------------------------

\* An object is a source or a compacted one, never both.
LEMMA Objects ==
  /\ \A k \in Key : k \in Object /\ k \notin Compacted
  /\ \A n \in Compacted : n \in Object /\ n \notin Key /\ n \in Nat
  /\ \A r \in Record : KeyOf[r] \in Key
BY KeyAssumption, BoundsAssumption DEF Object, Compacted

\* Stored is what some object holds.
LEMMA StoredIn == \A r : r \in Stored <=> \E o \in Object : r \in store[o]
BY DEF Stored

\* The numbers of the objects written so far.
LEMMA Numbers == ASSUME TypeOK PROVE 1 .. runs \subseteq Compacted /\ runs \in Nat
BY BoundsAssumption DEF TypeOK, Compacted

\* A safe record is stored.
LEMMA SafeIsStored == ASSUME TypeOK, NEW r \in Record, Safe(r) PROVE r \in Stored
BY Objects, Numbers, StoredIn DEF Safe

-----------------------------------------------------------------------------
(* One lemma per step. *)

\* The initial states hold nothing.
LEMMA InitIInv == Init => IInv
<1> SUFFICES ASSUME Init PROVE IInv
  OBVIOUS
<1> USE DEF Init
<1>1. TypeOK
  BY BoundsAssumption DEF TypeOK
<1>2. Stored = {}
  BY DEF Stored
<1>3. OwnKeys /\ OwnTargets /\ Progress
  BY Objects DEF OwnKeys, OwnTargets, Progress, Has, Wrote
<1>4. AllSafe /\ Pending /\ ReadsComplete
  BY <1>2 DEF AllSafe, Pending, ReadsComplete
<1> QED
  BY <1>1, <1>3, <1>4 DEF IInv

\* A write puts its record under its own key, where only the same record was.
LEMMA WriteIInv ==
  ASSUME IInv, DistinctKeys, NEW r \in Record, Write(r) \/ WriteInDoubt(r)
  PROVE IInv'
<1> USE DEF IInv
<1>1. /\ store' = [store EXCEPT ![KeyOf[r]] = {r}]
      /\ accepted' \subseteq accepted \cup {r}
      /\ UNCHANGED <<workerVars, readerVars>>
  BY DEF Write, WriteInDoubt
<1> USE DEF workerVars, readerVars
<1>2. /\ store'[KeyOf[r]] = {r}
      /\ \A o \in Object : o # KeyOf[r] => store'[o] = store[o]
  BY <1>1, Objects DEF TypeOK
<1>3. TypeOK'
  BY <1>1, Objects DEF TypeOK
<1>4. OwnKeys'
  BY <1>2, Objects DEF OwnKeys
<1>5. \A n \in Compacted : store'[n] = store[n]
  BY <1>2, Objects
<1>6. OwnTargets'
  BY <1>1, <1>5 DEF OwnTargets, Wrote, Has
<1>7. Progress'
  <2>1. \A w \in Worker : Wrote(w) => store'[target[w]] = store[target[w]]
    BY <1>5, Numbers DEF OwnTargets
  <2> QED
    BY <1>1, <2>1 DEF Progress, Wrote, Has
<1>8. AllSafe'
  <2> SUFFICES ASSUME NEW s \in Record,
                      s \in accepted' \/ s \in Stored' \/ \E w \in Worker : s \in rows'[w]
               PROVE Safe(s)'
    BY DEF AllSafe
  <2>1. CASE s = r
    BY <1>2, <2>1 DEF Safe
  <2>2. CASE s # r
    <3>1. s \in Stored' => s \in Stored
      BY <1>2, <2>2, StoredIn DEF Stored
    <3>2. Safe(s)
      BY <1>1, <2>2, <3>1 DEF AllSafe
    <3>3. KeyOf[s] # KeyOf[r] /\ KeyOf[s] \in Object
      BY <2>2, Objects DEF DistinctKeys
    <3> QED
      BY <1>1, <1>2, <1>5, <3>2, <3>3, Numbers DEF Safe, Has
  <2> QED
    BY <2>1, <2>2
<1>9. Pending' /\ ReadsComplete'
  BY <1>1, <1>5, Numbers DEF Pending, ReadsComplete
<1> QED
  BY <1>3, <1>4, <1>6, <1>7, <1>8, <1>9

\* A worker's step that touches no object keeps every part but Progress.
LEMMA QuietIInv ==
  ASSUME IInv, TypeOK', UNCHANGED <<lakeVars, runs, readerVars>>, Progress',
         \A v \in Worker : /\ Wrote(v)' => Wrote(v) /\ target'[v] = target[v]
                           /\ Has(v, {"validate", "discard"})' => Has(v, {"validate", "discard"})
                           /\ rows'[v] \subseteq rows[v] \cup Stored
  PROVE IInv'
<1> USE DEF IInv, lakeVars, readerVars
<1>1. OwnKeys' /\ Pending' /\ ReadsComplete' /\ Stored' = Stored
  BY DEF OwnKeys, Pending, ReadsComplete, Stored
<1>2. OwnTargets'
  BY DEF OwnTargets
<1>3. AllSafe'
  <2> SUFFICES ASSUME NEW r \in Record,
                      r \in accepted' \/ r \in Stored' \/ \E w \in Worker : r \in rows'[w]
               PROVE Safe(r)'
    BY DEF AllSafe
  <2>1. Safe(r)
    BY <1>1 DEF AllSafe
  <2>2. \A v \in Worker : Has(v, {"validate", "discard"})' =>
          Has(v, {"validate", "discard"}) /\ target'[v] = target[v]
    BY DEF Wrote, Has
  <2> QED
    BY <2>1, <2>2 DEF Safe
<1> QED
  BY <1>1, <1>2, <1>3

LEMMA ListIInv == ASSUME IInv, NEW w \in Worker, List(w) PROVE IInv'
<1> USE DEF IInv, List
<1>1. Sources \subseteq Key
  BY DEF Sources
<1>2. TypeOK'
  BY <1>1 DEF TypeOK, lakeVars, readerVars
<1>3. Progress'
  BY <1>1 DEF Progress, Has, TypeOK, lakeVars
<1> QED
  BY <1>2, <1>3, QuietIInv DEF Wrote, Has, TypeOK

\* What is read of a source is stored, and it is all its key stands for.
LEMMA ReadSourceIInv ==
  ASSUME IInv, DistinctKeys, NEW w \in Worker, NEW k \in Key, ReadSource(w, k)
  PROVE IInv'
<1> USE DEF IInv, ReadSource
<1>1. k \in Object /\ store[k] \subseteq Record /\ store[k] \subseteq Stored
  BY Objects, StoredIn DEF TypeOK
<1>2. TypeOK'
  BY <1>1 DEF TypeOK, lakeVars, readerVars
<1>3. \A r \in Record : KeyOf[r] = k => r \in store[k]
  BY <1>1 DEF OwnKeys, DistinctKeys
<1>4. Progress'
  <2>1. rows' = [rows EXCEPT ![w] = @ \cup store[k]] /\ left' = [left EXCEPT ![w] = @ \ {k}]
    OBVIOUS
  <2> QED
    BY <1>3, <2>1 DEF Progress, Has, TypeOK, lakeVars
<1>5. \A v \in Worker : rows'[v] \subseteq rows[v] \cup Stored
  BY <1>1 DEF TypeOK
<1> QED
  BY <1>2, <1>4, <1>5, QuietIInv DEF Wrote, Has, TypeOK

LEMMA CombineIInv == ASSUME IInv, NEW w \in Worker, Combine(w) PROVE IInv'
<1> USE DEF IInv, Combine
<1>1. TypeOK'
  BY DEF TypeOK, lakeVars, readerVars
<1>2. Progress'
  BY DEF Progress, Has, TypeOK, lakeVars
<1> QED
  BY <1>1, <1>2, QuietIInv DEF Wrote, Has, TypeOK

\* An object with as many rows as were read, all of them read, has them all.
LEMMA ValidateIInv == ASSUME IInv, NEW w \in Worker, Validate(w) PROVE IInv'
<1> USE DEF IInv, Validate
<1>1. TypeOK'
  BY DEF TypeOK, lakeVars, readerVars
<1>2. ASSUME pc'[w] = "delete" PROVE store[target[w]] = rows[w]
  <2>1. Cardinality(store[target[w]]) = Cardinality(rows[w])
    BY <1>2 DEF TypeOK
  <2>2. rows[w] \subseteq Record /\ store[target[w]] \subseteq rows[w]
    BY DEF TypeOK, Progress
  <2>3. IsFiniteSet(rows[w])
    BY <2>2, FiniteAssumption, FS_Subset
  <2> QED
    BY <2>1, <2>2, <2>3, FS_Subset
<1>3. Progress'
  <2> SUFFICES ASSUME NEW v \in Worker PROVE Progress!(v)'
    BY DEF Progress
  <2>1. CASE v # w
    BY <2>1 DEF Progress, Has, TypeOK, lakeVars
  <2>2. CASE v = w
    BY <2>2, <1>2 DEF Progress, Has, TypeOK, lakeVars
  <2> QED
    BY <2>1, <2>2
<1> QED
  BY <1>1, <1>3, QuietIInv DEF Wrote, Has, TypeOK

\* A worker that returns forgets its locals.
LEMMA ReturnsIInv ==
  ASSUME IInv, NEW w \in Worker, NEW how \in {"compacted", "error"}, Returns(w, how),
         UNCHANGED <<lakeVars, runs, readerVars>>
  PROVE IInv'
<1> USE DEF IInv, Returns
<1>1. TypeOK'
  BY BoundsAssumption DEF TypeOK, lakeVars, readerVars
<1>2. Progress'
  BY DEF Progress, Has, TypeOK, lakeVars
<1> QED
  BY <1>1, <1>2, QuietIInv DEF Wrote, Has, TypeOK

\* The new object is nobody else's and what is in it was read, hence safe.
LEMMA PutIInv == ASSUME IInv, NEW w \in Worker, Put(w) PROVE IInv'
<1> USE DEF IInv
<1> DEFINE new == runs + 1
<1>1. PICK written \in SUBSET rows[w] : store' = [store EXCEPT ![new] = written]
  BY DEF Put, TypeOK
<1>2. /\ pc[w] = "put" /\ pc' = [pc EXCEPT ![w] = "validate"]
      /\ target' = [target EXCEPT ![w] = new] /\ runs' = new
      /\ UNCHANGED <<accepted, listing, left, rows, outcome, readerVars>>
  BY DEF Put
<1> USE DEF readerVars
<1>3. new \in Compacted /\ new \in Object /\ new \notin Key
  <2>1. new \in Compacted
    BY BoundsAssumption DEF Put, TypeOK, Compacted
  <2> QED
    BY <2>1, Objects
<1>4. store'[new] = written /\ \A o \in Object : o # new => store'[o] = store[o]
  BY <1>1, <1>3 DEF TypeOK
<1>5. runs \in Nat /\ \A n \in 1 .. runs : n \in Object /\ n # new /\ n \in 1 .. runs'
  BY <1>2, Numbers, Objects
<1>6. TypeOK'
  BY <1>1, <1>2, <1>3 DEF TypeOK, Compacted
<1>7. OwnKeys'
  BY <1>3, <1>4, Objects DEF OwnKeys
<1>8. OwnTargets'
  BY <1>2, <1>3, <1>4, <1>5, Objects DEF OwnTargets, Wrote, Has, TypeOK
<1>9. Progress'
  <2> SUFFICES ASSUME NEW v \in Worker PROVE Progress!(v)'
    BY DEF Progress
  <2>1. CASE v # w
    <3>1. Wrote(v) => store'[target[v]] = store[target[v]] /\ target'[v] = target[v]
      BY <2>1, <1>2, <1>4, <1>5 DEF OwnTargets, TypeOK
    <3> QED
      BY <2>1, <1>2, <3>1 DEF Progress, Wrote, Has, TypeOK
  <2>2. CASE v = w
    BY <2>2, <1>2, <1>4 DEF Progress, Has, TypeOK
  <2> QED
    BY <2>1, <2>2
<1>10. AllSafe'
  <2> SUFFICES ASSUME NEW r \in Record,
                      r \in accepted' \/ r \in Stored' \/ \E v \in Worker : r \in rows'[v]
               PROVE Safe(r)'
    BY DEF AllSafe
  <2>1. r \in Stored' => r \in Stored \/ r \in rows[w]
    BY <1>4, StoredIn DEF Stored
  <2>2. Safe(r)
    BY <1>2, <2>1 DEF AllSafe
  <2>3. KeyOf[r] \in Object /\ KeyOf[r] # new
    BY <1>3, Objects
  <2>4. \A v \in Worker, n \in 1 .. runs :
          Has(v, {"validate", "discard"})' /\ target'[v] = n
            => Has(v, {"validate", "discard"}) /\ target[v] = n
    BY <1>2, <1>5 DEF Has, TypeOK
  <2> QED
    BY <1>4, <1>5, <2>2, <2>3, <2>4 DEF Safe
<1>11. Pending' /\ ReadsComplete'
  BY <1>2, <1>4, <1>5 DEF Pending, ReadsComplete
<1> QED
  BY <1>6, <1>7, <1>8, <1>9, <1>10, <1>11

\* Nothing counts on an object that may still be discarded.
LEMMA DiscardIInv == ASSUME IInv, NEW w \in Worker, Discard(w) PROVE IInv'
<1> USE DEF IInv
<1> DEFINE old == target[w]
<1>1. /\ pc[w] = "discard" /\ Returns(w, "error")
      /\ store' = [store EXCEPT ![old] = {}]
      /\ UNCHANGED <<accepted, runs, readerVars>>
  BY DEF Discard
<1> USE DEF readerVars
<1>2. old \in 1 .. runs /\ old \in Compacted /\ old \in Object /\ old \notin Key
  BY <1>1, Numbers, Objects DEF OwnTargets, Wrote, Has
<1>3. store'[old] = {} /\ \A o \in Object : o # old => store'[o] = store[o]
  BY <1>1, <1>2 DEF TypeOK
<1>4. TypeOK'
  BY <1>1, <1>2, BoundsAssumption DEF TypeOK, Returns
<1>5. OwnKeys'
  BY <1>2, <1>3, Objects DEF OwnKeys
<1>6. OwnTargets'
  BY <1>1, <1>2, <1>3, Objects DEF OwnTargets, Wrote, Has, Returns, TypeOK
<1>7. Progress'
  <2> SUFFICES ASSUME NEW v \in Worker PROVE Progress!(v)'
    BY DEF Progress
  <2>1. CASE v # w
    <3>1. Wrote(v) => store'[target[v]] = store[target[v]]
      BY <2>1, <1>1, <1>3, Numbers, Objects DEF OwnTargets, Wrote, Has
    <3> QED
      BY <2>1, <1>1, <3>1 DEF Progress, Wrote, Has, Returns, TypeOK
  <2>2. CASE v = w
    BY <2>2, <1>1 DEF Progress, Has, Returns, TypeOK
  <2> QED
    BY <2>1, <2>2
<1>8. AllSafe'
  <2> SUFFICES ASSUME NEW r \in Record,
                      r \in accepted' \/ r \in Stored' \/ \E v \in Worker : r \in rows'[v]
               PROVE Safe(r)'
    BY DEF AllSafe
  <2>1. r \in Stored' => r \in Stored
    BY <1>3, StoredIn DEF Stored
  <2>2. Safe(r)
    BY <1>1, <2>1 DEF AllSafe, Returns, TypeOK
  <2>3. KeyOf[r] \in Object /\ KeyOf[r] # old
    BY <1>2, Objects
  <2>4. \A n \in 1 .. runs : n \in Object
    BY Numbers, Objects
  <2>5. \A v \in Worker : Has(v, {"validate", "discard"})' =>
          Has(v, {"validate", "discard"}) /\ target'[v] = target[v]
    BY <1>1 DEF Has, Returns, TypeOK
  <2>6. Has(w, {"validate", "discard"})
    BY <1>1 DEF Has
  <2> QED
    BY <1>1, <1>3, <2>2, <2>3, <2>4, <2>5, <2>6 DEF Safe
<1>9. Pending' /\ ReadsComplete'
  BY <1>1, <1>3, Numbers, Objects DEF Pending, ReadsComplete
<1> QED
  BY <1>4, <1>5, <1>6, <1>7, <1>8, <1>9

\* What a source holds when it is deleted is in the deleting worker's object.
LEMMA DeleteSourceIInv ==
  ASSUME IInv, NEW w \in Worker, NEW k \in Key, DeleteSource(w, k)
  PROVE IInv'
<1> USE DEF IInv
<1>1. /\ pc[w] = "delete" /\ k \in left[w]
      /\ store' = [store EXCEPT ![k] = {}]
      /\ left' = [left EXCEPT ![w] = @ \ {k}]
      /\ UNCHANGED <<accepted, runs, pc, listing, rows, target, outcome, readerVars>>
  BY DEF DeleteSource
<1> USE DEF readerVars
<1>2. store'[k] = {} /\ \A o \in Object : o # k => store'[o] = store[o]
  BY <1>1, Objects DEF TypeOK
<1>3. \A n \in Compacted : store'[n] = store[n]
  BY <1>2, Objects
<1>4. TypeOK'
  BY <1>1, Objects DEF TypeOK
<1>5. OwnKeys'
  BY <1>2, Objects DEF OwnKeys
<1>6. OwnTargets'
  BY <1>1, <1>3 DEF OwnTargets, Wrote, Has
<1>7. Progress'
  <2>1. \A v \in Worker : Wrote(v) => store'[target[v]] = store[target[v]]
    BY <1>3, Numbers DEF OwnTargets
  <2> QED
    BY <1>1, <2>1 DEF Progress, Wrote, Has, TypeOK
<1>8. AllSafe'
  <2> SUFFICES ASSUME NEW r \in Record,
                      r \in accepted' \/ r \in Stored' \/ \E v \in Worker : r \in rows'[v]
               PROVE Safe(r)'
    BY DEF AllSafe
  <2>1. r \in Stored' => r \in Stored
    BY <1>2, StoredIn DEF Stored
  <2>2. Safe(r)
    BY <1>1, <2>1 DEF AllSafe
  <2>3. CASE KeyOf[r] = k
    <3>1. r \in store[target[w]]
      BY <1>1, <2>3 DEF Progress, Has
    <3>2. target[w] \in 1 .. runs /\ \A v \in Worker :
            Has(v, {"validate", "discard"}) => target[v] # target[w]
      BY <1>1 DEF OwnTargets, Wrote, Has
    <3> QED
      BY <1>1, <1>3, <3>1, <3>2, Numbers DEF Safe, Has
  <2>4. CASE KeyOf[r] # k
    BY <1>1, <1>2, <1>3, <2>2, <2>4, Numbers, Objects DEF Safe, Has
  <2> QED
    BY <2>3, <2>4
<1>9. Pending' /\ ReadsComplete'
  BY <1>1, <1>3, Numbers DEF Pending, ReadsComplete
<1> QED
  BY <1>4, <1>5, <1>6, <1>7, <1>8, <1>9

\* A reader changes nothing but its own state, and what it reads of a listed
\* source is all its key stands for.
LEMMA ReaderIInv == ASSUME IInv, DistinctKeys, ReaderStep PROVE IInv'
<1> USE DEF IInv
<1>1. UNCHANGED <<lakeVars, workerVars>>
  BY DEF ReaderStep, Scan, ReadObject, ReadEnds, ReadFails
<1> USE DEF lakeVars, workerVars
<1>2. TypeOK'
  <2>1. Stored \subseteq Record /\ ScanFiles \subseteq Object
    BY StoredIn DEF TypeOK, ScanFiles
  <2> QED
    BY <1>1, <2>1 DEF TypeOK, ReaderStep, Scan, ReadObject, ReadEnds, ReadFails
<1>3. OwnKeys' /\ OwnTargets' /\ Progress'
  BY <1>1 DEF OwnKeys, OwnTargets, Progress, Wrote, Has
<1>4. AllSafe'
  <2>1. Stored' = Stored
    BY <1>1 DEF Stored
  <2> QED
    BY <1>1, <2>1 DEF AllSafe, Safe, Has
<1>5. Pending' /\ ReadsComplete'
  <2>1. CASE Scan
    <3> SUFFICES ASSUME NEW r \in Stored PROVE Pending!2!(r)'
      BY <2>1 DEF Scan, Pending, ReadsComplete
    <3>1. r \in Record /\ Safe(r)
      BY StoredIn DEF TypeOK, AllSafe
    <3>2. \A n \in 1 .. runs : n \in Object
      BY Numbers, Objects
    <3> QED
      BY <1>1, <2>1, <3>1, <3>2, Objects DEF Scan, ScanFiles, Safe
  <2>2. ASSUME NEW o \in Object, ReadObject(o) PROVE Pending' /\ ReadsComplete'
    <3>1. ASSUME NEW r \in Record, KeyOf[r] = o PROVE r \in store[o]
      BY <2>2, <3>1, Objects DEF ReadObject, OwnKeys, DistinctKeys, TypeOK
    <3> QED
      BY <1>1, <2>2, <3>1 DEF ReadObject, Pending, ReadsComplete, TypeOK
  <2>3. CASE ReadEnds
    BY <2>3 DEF ReadEnds, Pending, ReadsComplete
  <2>4. CASE ReadFails
    BY <2>4 DEF ReadFails, Pending, ReadsComplete
  <2> QED
    BY <2>1, <2>2, <2>3, <2>4 DEF ReaderStep
<1> QED
  BY <1>2, <1>3, <1>4, <1>5

\* Every step, from any state of the invariant.
LEMMA NextIInv == ASSUME DistinctKeys, IInv, [Next]_vars PROVE IInv'
<1>1. CASE UNCHANGED vars
  <2>1. UNCHANGED <<lakeVars, runs, readerVars>> /\ UNCHANGED workerVars
    BY <1>1 DEF vars, workerVars
  <2>2. TypeOK' /\ Progress'
    BY <2>1 DEF IInv, TypeOK, Progress, Has, lakeVars, workerVars, readerVars
  <2> QED
    BY <2>1, <2>2, QuietIInv DEF workerVars, Wrote, Has
<1>2. CASE WriterStep
  BY <1>2, WriteIInv DEF WriterStep
<1>3. ASSUME NEW w \in Worker,
             \/ List(w) \/ (\E k \in Key : ReadSource(w, k)) \/ Combine(w) \/ Put(w)
             \/ Validate(w) \/ Discard(w) \/ (\E k \in Key : DeleteSource(w, k))
             \/ Finish(w) \/ Fail(w)
      PROVE IInv'
  <2>1. CASE Finish(w) \/ Fail(w)
    BY <2>1, ReturnsIInv DEF Finish, Fail
  <2> QED
    BY <1>3, <2>1, ListIInv, ReadSourceIInv, CombineIInv, PutIInv, ValidateIInv,
       DiscardIInv, DeleteSourceIInv
<1>4. CASE ReaderStep
  BY <1>4, ReaderIInv
<1> QED
  BY <1>1, <1>2, <1>3, <1>4 DEF Next, WorkerStep

-----------------------------------------------------------------------------
(* The results. *)

\* The invariant holds in every reachable state.
THEOREM Invariance == ASSUME DistinctKeys PROVE Spec => []IInv
<1>1. IInv /\ [Next]_vars => IInv'
  BY NextIInv
<1> QED
  BY InitIInv, <1>1, PTL DEF Spec

\* The state stays well typed (all of libs/compaction/compactor.py).
THEOREM TypeCorrect == ASSUME DistinctKeys PROVE Spec => []TypeOK
<1>1. IInv => TypeOK
  BY DEF IInv
<1> QED
  BY <1>1, Invariance, PTL

\* compact_partition, however often it fails, overlaps itself or is run again,
\* loses no record whose write was acknowledged.
THEOREM NothingLost == ASSUME DistinctKeys PROVE Spec => []NoRecordLost
<1>1. IInv => NoRecordLost
  <2> SUFFICES ASSUME IInv, NEW r \in accepted PROVE r \in Stored
    BY DEF NoRecordLost
  <2>1. r \in Record /\ Safe(r)
    BY DEF IInv, TypeOK, AllSafe
  <2> QED
    BY <2>1, SafeIsStored DEF IInv
<1> QED
  BY <1>1, Invariance, PTL

\* LakeReader.read and scan return every record stored when they listed the
\* partition, or fail, while compactions replace the objects under them.
THEOREM ReadsAreComplete == ASSUME DistinctKeys PROVE Spec => []ReadsComplete
<1>1. IInv => ReadsComplete
  BY DEF IInv
<1> QED
  BY <1>1, Invariance, PTL

\* Every step of the objects is a step of the table or none of its business.
LEMMA StepRefines ==
  ASSUME DistinctKeys, IInv, IInv', [Next]_vars PROVE [Table!Next]_(Table!vars)
<1> USE DEF Table!vars
<1>1. CASE UNCHANGED vars
  BY <1>1 DEF vars, lakeVars, readerVars, Stored
<1>2. ASSUME NEW r \in Record, Write(r) \/ WriteInDoubt(r) PROVE Table!Store(r)
  <2>1. store' = [store EXCEPT ![KeyOf[r]] = {r}] /\ UNCHANGED readerVars
    BY <1>2 DEF Write, WriteInDoubt
  <2>2. KeyOf[r] \in Object /\ store[KeyOf[r]] \subseteq {r}
    BY Objects DEF IInv, TypeOK, OwnKeys, DistinctKeys
  <2>3. /\ store'[KeyOf[r]] = {r}
        /\ \A o \in Object : o # KeyOf[r] => store'[o] = store[o]
    BY <2>1, <2>2 DEF IInv, TypeOK
  <2>4. Stored' = Stored \cup {r}
    BY <2>2, <2>3 DEF Stored
  <2> QED
    BY <2>1, <2>4 DEF Table!Store, readerVars
<1>3. ASSUME WorkerStep PROVE UNCHANGED Table!vars
  <2>1. UNCHANGED readerVars
    BY <1>3 DEF WorkerStep, List, ReadSource, Combine, Put, Validate, Discard,
                DeleteSource, Finish, Fail
  <2>2. Stored' \subseteq Stored
    <3>1. UNCHANGED store \/ (\E w \in Worker : Put(w)) \/ (\E w \in Worker : Discard(w))
          \/ \E w \in Worker, k \in Key : DeleteSource(w, k)
      BY <1>3 DEF WorkerStep, List, ReadSource, Combine, Validate, Finish, Fail, lakeVars
    <3>2. ASSUME NEW w \in Worker, Put(w) PROVE Stored' \subseteq Stored
      <4>1. \A o \in Object : store'[o] \subseteq store[o] \cup rows[w]
        BY <3>2 DEF Put, IInv, TypeOK
      <4>2. rows[w] \subseteq Stored
        BY SafeIsStored DEF IInv, TypeOK, AllSafe
      <4> QED
        BY <4>1, <4>2 DEF Stored
    <3>3. ASSUME NEW w \in Worker, Discard(w) \/ \E k \in Key : DeleteSource(w, k)
          PROVE Stored' \subseteq Stored
      <4>1. \A o \in Object : store'[o] \subseteq store[o]
        BY <3>3 DEF Discard, DeleteSource, IInv, TypeOK
      <4> QED
        BY <4>1 DEF Stored
    <3>4. CASE UNCHANGED store
      BY <3>4 DEF Stored
    <3> QED
      BY <3>1, <3>2, <3>3, <3>4
  <2>3. Stored \subseteq Stored'
    <3> SUFFICES ASSUME NEW r \in Stored PROVE r \in Stored'
      OBVIOUS
    <3>1. r \in Record /\ Safe(r)
      BY StoredIn DEF IInv, TypeOK, AllSafe
    <3>2. (r \in accepted \/ r \in Stored)' => Safe(r)'
      BY <3>1 DEF IInv, AllSafe
    <3>3. ASSUME NEW w \in Worker, NEW k \in Key, DeleteSource(w, k) PROVE r \in Stored'
      <4>1. /\ pc[w] = "delete" /\ k \in left[w]
            /\ store' = [store EXCEPT ![k] = {}]
        BY <3>3 DEF DeleteSource
      <4>2. target[w] \in Object /\ target[w] # k
        BY <4>1, Numbers, Objects DEF IInv, OwnTargets, Wrote, Has
      <4>3. CASE KeyOf[r] = k
        <5>1. r \in store[target[w]]
          BY <3>1, <4>1, <4>3 DEF IInv, Progress, Has
        <5> QED
          BY <4>1, <4>2, <5>1 DEF Stored, IInv, TypeOK
      <4>4. CASE KeyOf[r] # k
        <5>1. \E o \in Object : o # k /\ r \in store[o]
          BY <3>1, <4>4, StoredIn DEF IInv, OwnKeys
        <5> QED
          BY <4>1, <5>1 DEF Stored, IInv, TypeOK
      <4> QED
        BY <4>3, <4>4
    <3>4. ASSUME NEW w \in Worker, Discard(w) PROVE r \in Stored'
      <4>1. pc[w] = "discard" /\ store' = [store EXCEPT ![target[w]] = {}]
        BY <3>4 DEF Discard
      <4>2. \E o \in Object : o # target[w] /\ r \in store[o]
        BY <3>1, <4>1, Numbers, Objects DEF Safe, Has, IInv, OwnTargets, Wrote
      <4> QED
        BY <4>1, <4>2 DEF Stored, IInv, TypeOK
    <3>5. ASSUME NEW w \in Worker, Put(w) PROVE r \in Stored'
      <4>1. PICK written : store' = [store EXCEPT ![runs + 1] = written]
        BY <3>5 DEF Put
      <4>2. \E o \in Object : o # runs + 1 /\ r \in store[o]
        <5>1. runs + 1 \in Compacted
          BY <3>5, BoundsAssumption DEF Put, IInv, TypeOK, Compacted
        <5>2. runs + 1 > runs
          BY DEF IInv, TypeOK
        <5> QED
          BY <5>1, <5>2, StoredIn DEF IInv, OwnTargets
      <4> QED
        BY <4>1, <4>2 DEF Stored, IInv, TypeOK
    <3>6. CASE UNCHANGED store
      BY <3>6 DEF Stored
    <3>7. UNCHANGED store \/ (\E w \in Worker : Put(w)) \/ (\E w \in Worker : Discard(w))
          \/ \E w \in Worker, k \in Key : DeleteSource(w, k)
      BY <1>3 DEF WorkerStep, List, ReadSource, Combine, Validate, Finish, Fail, lakeVars
    <3> QED
      BY <3>3, <3>4, <3>5, <3>6, <3>7
  <2> QED
    BY <2>1, <2>2, <2>3 DEF readerVars
<1>4. CASE Scan
  BY <1>4 DEF Scan, lakeVars, Stored, Table!Next, Table!Ask
<1>5. ASSUME NEW o \in Object, ReadObject(o) PROVE Table!Read
  <2>1. store[o] \subseteq Stored
    BY DEF Stored
  <2> QED
    BY <1>5, <2>1 DEF ReadObject, lakeVars, Stored, Table!Read
<1>6. ASSUME ReadEnds PROVE Table!Answer \/ Table!Refuse
  <2>1. toRead = {} => asked \subseteq got
    BY <1>6 DEF ReadEnds, IInv, Pending
  <2> QED
    BY <1>6, <2>1 DEF ReadEnds, lakeVars, Stored, Table!Answer, Table!Refuse
<1>7. CASE ReadFails
  BY <1>7 DEF ReadFails, lakeVars, Stored, Table!Next, Table!Refuse
<1> QED
  BY <1>1, <1>2, <1>3, <1>4, <1>5, <1>6, <1>7 DEF Next, WriterStep, ReaderStep, Table!Next

\* The objects of a partition, with its writers, compactions and readers,
\* implement the table.
THEOREM Refinement == ASSUME DistinctKeys PROVE Spec => ImplementsLakeTable
<1>1. Init => Table!Init
  BY DEF Init, Table!Init, Stored
<1>2. IInv /\ IInv' /\ [Next]_vars => [Table!Next]_(Table!vars)
  BY StepRefines
<1> QED
  BY <1>1, <1>2, Invariance, PTL DEF Spec, ImplementsLakeTable, Table!Spec
=============================================================================
