---------------------------- MODULE AtLeastOnce ----------------------------
(***************************************************************************)
(* What a consumer group promises about a partitioned log, whatever code   *)
(* reads it: a record is resolved (handled, or stored in the dead-letter   *)
(* topic) only after every earlier record of its partition, and the        *)
(* committed offset never passes a record that is not resolved.  A record  *)
(* may be resolved again, and a late commit may move the offset back: that *)
(* is the price of at-least-once delivery, and no record is ever lost.     *)
(***************************************************************************)
EXTENDS Naturals

CONSTANTS Partition, \* the partitions of the topic
          LogEnd     \* the number of records in each partition

VARIABLES resolved,  \* the records <<partition, offset>> that are resolved
          committed  \* partition -> the group's committed offset

vars == <<resolved, committed>>

Record == Partition \X (0 .. LogEnd - 1)

\* Every record of p before offset n is resolved.
PrefixResolved(p, n) == \A o \in 0 .. n - 1 : <<p, o>> \in resolved

TypeOK == /\ resolved \subseteq Record
          /\ committed \in [Partition -> 0 .. LogEnd]

Init == /\ resolved = {}
        /\ committed = [p \in Partition |-> 0]

Resolve(p, o) ==
  /\ PrefixResolved(p, o)
  /\ resolved' = resolved \cup {<<p, o>>}
  /\ UNCHANGED committed

Commit(p, n) ==
  /\ PrefixResolved(p, n)
  /\ committed' = [committed EXCEPT ![p] = n]
  /\ UNCHANGED resolved

Next == \E p \in Partition :
           \/ \E o \in 0 .. LogEnd - 1 : Resolve(p, o)
           \/ \E n \in 0 .. LogEnd : Commit(p, n)

Spec == Init /\ [][Next]_vars

\* Committing an offset forgets no record: replay from the committed offsets
\* sees every record that is still unresolved.
CommittedIsResolved == \A p \in Partition : PrefixResolved(p, committed[p])

\* The offset reaches the end of every partition once the faults stop.
EventuallyDrained == <>(\A p \in Partition : committed[p] = LogEnd)
=============================================================================
