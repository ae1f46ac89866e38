--------------------------- MODULE KafkaConsumer ---------------------------
(***************************************************************************)
(* The managed processing loop of libs/common/kafka_consumer.py, run by    *)
(* every consumer process of a group (the processor, the raw writer and    *)
(* the lake writer): process_next polls one record, calls the handler with *)
(* bounded retries, routes a failed record to the dead-letter sink, and    *)
(* commits offset + 1 synchronously.  Each of those calls is a step, so a  *)
(* signal, a crash or a rebalance may fall between any two of them.        *)
(*                                                                         *)
(* The broker (log, group membership, offsets) and the handler are outside *)
(* the code and appear as it uses them: the log is fixed, a commit may be  *)
(* applied although the client sees it fail, and a member that lost a      *)
(* partition may still have its commit accepted.                           *)
(***************************************************************************)
EXTENDS Naturals

CONSTANTS Consumer,        \* the processes of the group
          Partition,       \* the partitions of the topic
          NoOne,           \* the owner of an unassigned partition
          NoRecord,        \* the delivery of an idle consumer
          LogEnd,          \* the number of records in each partition
          Malformed,       \* the records deserialize_event rejects
          MaxAttempts,     \* RetryPolicy.max_attempts
          DlqFailsClosed   \* the sink of the writers: raise, never store

Record == Partition \X (0 .. LogEnd - 1)

ASSUME LogEndAssumption == LogEnd \in Nat
ASSUME MaxAttemptsAssumption == MaxAttempts \in 1 .. 10
ASSUME NoOneAssumption == NoOne \notin Consumer
ASSUME NoRecordAssumption == NoRecord \notin Record
ASSUME MalformedAssumption == Malformed \subseteq Record
ASSUME DlqAssumption == DlqFailsClosed \in BOOLEAN

VARIABLES status,        \* consumer -> where process_next stands
          shutdown,      \* consumer -> _shutdown_requested
          delivery,      \* consumer -> the record of this process_next call
          failure,       \* consumer -> why the record failed so far
          attempts,      \* consumer -> handler calls started for the record
          owner,         \* partition -> the member it is assigned to
          position,      \* partition -> the owner's next fetch offset
          committed,     \* partition -> the group's committed offset
          handled,       \* records a handler call returned for
          deadLettered   \* records the dead-letter topic holds

consumerVars == <<status, shutdown, delivery, failure, attempts>>
groupVars == <<owner, position>>
outcomeVars == <<handled, deadLettered>>
vars == <<consumerVars, groupVars, committed, outcomeVars>>

Status == {"down", "polling", "attempt", "running", "decide", "routing", "committing"}
Failure == {"none", "malformed", "transient", "permanent"}

TypeOK ==
  /\ status \in [Consumer -> Status]
  /\ shutdown \in [Consumer -> BOOLEAN]
  /\ delivery \in [Consumer -> Record \cup {NoRecord}]
  /\ failure \in [Consumer -> Failure]
  /\ attempts \in [Consumer -> 0 .. MaxAttempts]
  /\ owner \in [Partition -> Consumer \cup {NoOne}]
  /\ position \in [Partition -> 0 .. LogEnd]
  /\ committed \in [Partition -> 0 .. LogEnd]
  /\ handled \subseteq Record
  /\ deadLettered \subseteq Record

Init ==
  /\ status = [c \in Consumer |-> "down"]
  /\ shutdown = [c \in Consumer |-> FALSE]
  /\ delivery = [c \in Consumer |-> NoRecord]
  /\ failure = [c \in Consumer |-> "none"]
  /\ attempts = [c \in Consumer |-> 0]
  /\ owner = [p \in Partition |-> NoOne]
  /\ position = [p \in Partition |-> 0]
  /\ committed = [p \in Partition |-> 0]
  /\ handled = {}
  /\ deadLettered = {}

Resolved == handled \cup deadLettered

-----------------------------------------------------------------------------
(* Steps shared by several actions. *)

Goto(c, s) == status' = [status EXCEPT ![c] = s]

\* The call returns or raises, and its locals go out of scope.
EndCall(c) ==
  /\ delivery' = [delivery EXCEPT ![c] = NoRecord]
  /\ failure' = [failure EXCEPT ![c] = "none"]
  /\ attempts' = [attempts EXCEPT ![c] = 0]

\* close(), then the process ends: every caller of process_next leaves its
\* loop when the call raises or a shutdown was seen.  The group reassigns
\* what the member owned; offsets are left as they are.
Close(c) ==
  /\ Goto(c, "down")
  /\ EndCall(c)
  /\ shutdown' = [shutdown EXCEPT ![c] = FALSE]
  /\ owner' = [p \in Partition |-> IF owner[p] = c THEN NoOne ELSE owner[p]]
  /\ UNCHANGED position

-----------------------------------------------------------------------------
(* The steps of process_next. *)

\* Poll gets the next record of a partition c owns.  A record that does not
\* deserialize carries its error and skips the handler.
PollRecord(c, p) ==
  /\ status[c] = "polling" /\ ~shutdown[c]
  /\ owner[p] = c /\ position[p] < LogEnd
  /\ LET r == <<p, position[p]>> IN
       /\ delivery' = [delivery EXCEPT ![c] = r]
       /\ failure' = [failure EXCEPT ![c] = IF r \in Malformed THEN "malformed" ELSE "none"]
       /\ Goto(c, IF r \in Malformed THEN "decide" ELSE "attempt")
  /\ position' = [position EXCEPT ![p] = @ + 1]
  /\ UNCHANGED <<shutdown, attempts, owner, committed, outcomeVars>>

\* A fatal broker error: poll raises, process_next closes and re-raises.
PollFails(c) ==
  /\ status[c] = "polling" /\ ~shutdown[c]
  /\ Close(c)
  /\ UNCHANGED <<committed, outcomeVars>>

\* The service's loop condition: no call is made once a shutdown is seen.  The
\* slip loops for ever on polls that return nothing.
LeaveLoop_Slip(c) == status[c] = "polling" /\ shutdown[c] /\ UNCHANGED vars
LeaveLoop(c) ==
  /\ status[c] = "polling" /\ shutdown[c]
  /\ Close(c)
  /\ UNCHANGED <<committed, outcomeVars>>

\* The shutdown check before an attempt, then process(message) is called.
StartAttempt(c) ==
  /\ status[c] = "attempt" /\ ~shutdown[c]
  /\ attempts' = [attempts EXCEPT ![c] = @ + 1]
  /\ Goto(c, "running")
  /\ UNCHANGED <<shutdown, delivery, failure, groupVars, committed, outcomeVars>>

\* process returns: the record is handled and an earlier failure forgotten.
HandlerReturns(c) ==
  /\ status[c] = "running"
  /\ handled' = handled \cup {delivery[c]}
  /\ failure' = [failure EXCEPT ![c] = "none"]
  /\ Goto(c, "decide")
  /\ UNCHANGED <<shutdown, delivery, attempts, groupVars, committed, deadLettered>>

\* The attempt loop goes round again; the slip lets it run once too often.
MayRetry_Slip(c) == attempts[c] <= MaxAttempts
MayRetry(c) == attempts[c] < MaxAttempts

\* TransientProcessingError: try again until the attempts are used up.
HandlerFailsTransiently(c) ==
  /\ status[c] = "running"
  /\ failure' = [failure EXCEPT ![c] = "transient"]
  /\ Goto(c, IF MayRetry(c) THEN "attempt" ELSE "decide")
  /\ UNCHANGED <<shutdown, delivery, attempts, groupVars, committed, outcomeVars>>

\* ProcessingError: no retry.
HandlerFailsPermanently(c) ==
  /\ status[c] = "running"
  /\ failure' = [failure EXCEPT ![c] = "permanent"]
  /\ Goto(c, "decide")
  /\ UNCHANGED <<shutdown, delivery, attempts, groupVars, committed, outcomeVars>>

\* Any other exception closes the consumer and propagates; the slip logs it
\* and goes on polling.
HandlerRaises_Slip(c) ==
  /\ status[c] = "running"
  /\ Goto(c, "polling") /\ EndCall(c)
  /\ UNCHANGED <<shutdown, groupVars, committed, outcomeVars>>
HandlerRaises(c) ==
  /\ status[c] = "running"
  /\ Close(c)
  /\ UNCHANGED <<committed, outcomeVars>>

\* A shutdown seen before an attempt or after the last one: close without a
\* commit, even when the handler has returned.
StopForShutdown(c) ==
  /\ status[c] \in {"attempt", "decide"} /\ shutdown[c]
  /\ Close(c)
  /\ UNCHANGED <<committed, outcomeVars>>

\* What follows the attempts; the slip forgets the sink.
AfterAttempts_Slip(c) == "committing"
AfterAttempts(c) == IF failure[c] # "none" THEN "routing" ELSE "committing"

\* No shutdown: a failed record goes to the sink, a handled one is committed.
Decide(c) ==
  /\ status[c] = "decide" /\ ~shutdown[c]
  /\ Goto(c, AfterAttempts(c))
  /\ UNCHANGED <<shutdown, delivery, failure, attempts, groupVars, committed, outcomeVars>>

\* The sink returns: the broker acknowledged the diagnostic envelope.
DeadLetterAcked(c) ==
  /\ status[c] = "routing" /\ ~DlqFailsClosed
  /\ deadLettered' = deadLettered \cup {delivery[c]}
  /\ Goto(c, "committing")
  /\ UNCHANGED <<shutdown, delivery, failure, attempts, groupVars, committed, handled>>

\* The sink raises.  The Kafka sink raises too when the acknowledgement is
\* missing, and then the envelope may be in the topic all the same.
DeadLetterFails(c) ==
  /\ status[c] = "routing"
  /\ \/ UNCHANGED deadLettered
     \/ ~DlqFailsClosed /\ deadLettered' = deadLettered \cup {delivery[c]}
  /\ Close(c)
  /\ UNCHANGED <<committed, handled>>

\* The broker stores offset + 1 for the delivery of c.
StoreOffset(c) ==
  committed' = [committed EXCEPT ![delivery[c][1]] = delivery[c][2] + 1]

CommitSucceeds(c) ==
  /\ status[c] = "committing"
  /\ StoreOffset(c)
  /\ Goto(c, "polling")
  /\ EndCall(c)
  /\ UNCHANGED <<shutdown, groupVars, outcomeVars>>

\* commit raises (timeout, fenced member, partition error): close.  The
\* broker may have stored the offset before the answer was lost.
CommitFails(c) ==
  /\ status[c] = "committing"
  /\ StoreOffset(c) \/ UNCHANGED committed
  /\ Close(c)
  /\ UNCHANGED outcomeVars

-----------------------------------------------------------------------------
(* The environment: signals, the process, and the group coordinator. *)

\* SIGTERM or SIGINT: the handler only sets the flag.
Signal(c) ==
  /\ status[c] # "down" /\ ~shutdown[c]
  /\ shutdown' = [shutdown EXCEPT ![c] = TRUE]
  /\ UNCHANGED <<status, delivery, failure, attempts, groupVars, committed, outcomeVars>>

\* The process dies between two steps.
Crash(c) ==
  /\ status[c] # "down"
  /\ Close(c)
  /\ UNCHANGED <<committed, outcomeVars>>

\* Its deployment starts it again: a new KafkaConsumer, subscribed.
Restart(c) ==
  /\ status[c] = "down"
  /\ Goto(c, "polling")
  /\ UNCHANGED <<shutdown, delivery, failure, attempts, groupVars, committed, outcomeVars>>

\* A member fetches from the committed offset on; the slip goes on
\* where the last owner's fetches stopped.
StartPosition_Slip(p) == position[p]
StartPosition(p) == committed[p]

\* A free partition goes to a live member.
Assign(p, c) ==
  /\ owner[p] = NoOne /\ status[c] # "down"
  /\ owner' = [owner EXCEPT ![p] = c]
  /\ position' = [position EXCEPT ![p] = StartPosition(p)]
  /\ UNCHANGED <<consumerVars, committed, outcomeVars>>

\* A rebalance takes a partition away, perhaps from a member that is still
\* handling one of its records (a poll interval that ran out).
Revoke(p) ==
  /\ owner[p] # NoOne
  /\ owner' = [owner EXCEPT ![p] = NoOne]
  /\ UNCHANGED <<consumerVars, position, committed, outcomeVars>>

-----------------------------------------------------------------------------

HandlerStep(c) == HandlerReturns(c) \/ HandlerFailsTransiently(c) \/ HandlerFailsPermanently(c)
SinkStep(c) == DeadLetterAcked(c) \/ DeadLetterFails(c)
LoopStep(c) ==
  \/ \E p \in Partition : PollRecord(c, p)
  \/ StartAttempt(c) \/ HandlerStep(c) \/ Decide(c) \/ SinkStep(c) \/ CommitSucceeds(c)
  \/ LeaveLoop(c) \/ StopForShutdown(c)
Fault(c) ==
  PollFails(c) \/ HandlerRaises(c) \/ CommitFails(c) \/ Signal(c) \/ Crash(c)

Next ==
  \/ \E c \in Consumer : LoopStep(c) \/ Fault(c) \/ Restart(c)
  \/ \E p \in Partition : Revoke(p) \/ \E c \in Consumer : Assign(p, c)

Spec == Init /\ [][Next]_vars

-----------------------------------------------------------------------------
(* Safety. *)

\* No record is lost: whatever the offset passed was handled or is in the
\* dead-letter topic (process_next: "committing only success or acknowledged
\* DLQ delivery"), through crashes, rebalances and uncertain commits.
NoLoss == \A p \in Partition : \A o \in 0 .. committed[p] - 1 : <<p, o>> \in Resolved

\* A record is delivered only when no earlier record of its partition is
\* open, so committing it cannot skip one (process_next: "a later commit
\* cannot skip the failed record").
InOrder ==
  \A c \in Consumer : delivery[c] # NoRecord =>
     \A o \in 0 .. delivery[c][2] - 1 : <<delivery[c][1], o>> \in Resolved

\* What is about to be committed has the outcome its failure field claims, and
\* a record is dead-lettered for a transient failure only when every attempt
\* was used.
OutcomeSound ==
  \A c \in Consumer :
     /\ status[c] = "committing" => delivery[c] \in IF failure[c] = "none" THEN handled
                                                                      ELSE deadLettered
     /\ status[c] = "routing" => /\ failure[c] # "none"
                                 /\ failure[c] = "transient" => attempts[c] = MaxAttempts

\* The loop implements at-least-once delivery.
ALO == INSTANCE AtLeastOnce WITH resolved <- Resolved
ImplementsAtLeastOnce == ALO!Spec

-----------------------------------------------------------------------------
(* Liveness. *)

\* The loop runs (handlers return and calls have timeouts), a stopped pod is
\* started again, and the coordinator gives a free partition to a member.
Fairness ==
  /\ \A c \in Consumer : WF_vars(LoopStep(c)) /\ WF_vars(Restart(c))
  /\ \A p \in Partition : WF_vars(\E c \in Consumer : Assign(p, c))

\* From some point on nothing fails: a consumer stops only because its code
\* says so, no signal arrives and no partition is taken from a live member.
Undisturbed ==
  /\ \A c \in Consumer :
       /\ status[c] # "down" /\ status'[c] = "down" =>
             shutdown[c] \/ (DlqFailsClosed /\ status[c] = "routing")
       /\ shutdown'[c] => shutdown[c]
  /\ \A p \in Partition :
       owner[p] \in Consumer /\ owner'[p] = NoOne => status'[owner[p]] = "down"

FairSpec == Spec /\ Fairness
Calm == <>[][Undisturbed]_vars

\* Once nothing fails any more, the group reaches the end of the log.
Drained == Calm => ALO!EventuallyDrained

\* A consumer told to stop does stop, whatever it was doing and however
\* often its handler fails.
ShutdownObeyed == \A c \in Consumer : shutdown[c] ~> status[c] = "down"

\* A malformed record does not hold its partition: it goes to the dead-letter
\* sink and its offset is committed (services/raw-writer/README.md:59).
MalformedIsPassed == Calm => \A r \in Malformed : <>(committed[r[1]] > r[2])
=============================================================================
