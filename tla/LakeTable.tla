----------------------------- MODULE LakeTable -----------------------------
(***************************************************************************)
(* What a partition of the data lake promises, whatever objects hold its   *)
(* rows: a record that is stored stays readable, and a query that returns  *)
(* rows misses none of the records stored when it started.  A query may    *)
(* see records stored while it runs, and it may fail.                      *)
(***************************************************************************)
CONSTANTS Record

VARIABLES stored,  \* the records some object of the partition holds
          query,   \* whether a query runs, and how the last one ended
          asked,   \* the records stored when it started
          got      \* the records it has read

vars == <<stored, query, asked, got>>

Init == stored = {} /\ query = "none" /\ asked = {} /\ got = {}

Store(r) ==
  /\ stored' = stored \cup {r}
  /\ UNCHANGED <<query, asked, got>>

Ask ==
  /\ query # "running"
  /\ query' = "running"
  /\ asked' = stored
  /\ got' = {}
  /\ UNCHANGED stored

Read ==
  /\ query = "running"
  /\ \E rows \in SUBSET stored : got' = got \cup rows
  /\ UNCHANGED <<stored, query, asked>>

Answer ==
  /\ query = "running" /\ asked \subseteq got
  /\ query' = "rows"
  /\ UNCHANGED <<stored, asked, got>>

Refuse ==
  /\ query = "running"
  /\ query' = "empty"
  /\ got' = {}
  /\ UNCHANGED <<stored, asked>>

Next == (\E r \in Record : Store(r)) \/ Ask \/ Read \/ Answer \/ Refuse

Spec == Init /\ [][Next]_vars
=============================================================================
