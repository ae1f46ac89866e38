------------------------ MODULE KafkaConsumerProofs ------------------------
(***************************************************************************)
(* Proofs about KafkaConsumer, for every group, topic, log length, set of  *)
(* malformed records and number of attempts.  NoLoss alone is not          *)
(* inductive: that a commit is safe follows from what is known of the      *)
(* delivery it commits (InOrder and the outcome recorded for it), and      *)
(* InOrder in turn from what is known of the records behind the owner's    *)
(* fetch position.  IInv is that chain.                                    *)
(***************************************************************************)
EXTENDS KafkaConsumer, TLAPS

\* Between calls the locals of process_next do not exist; during a call there
\* is a record.
CallLocals ==
  \A c \in Consumer :
    IF status[c] \in {"down", "polling"}
    THEN delivery[c] = NoRecord /\ failure[c] = "none" /\ attempts[c] = 0
    ELSE delivery[c] # NoRecord

\* How the attempt loop leaves its counter and the failure it reports.
LoopSound ==
  \A c \in Consumer :
    /\ status[c] = "attempt" => attempts[c] < MaxAttempts
    /\ status[c] = "decide" =>
         /\ failure[c] = "none" => delivery[c] \in handled
         /\ failure[c] = "transient" => attempts[c] = MaxAttempts

\* Everything the owner of a partition has fetched is resolved, except the
\* record it is working on.
FetchedResolved ==
  \A p \in Partition : owner[p] # NoOne =>
    \A o \in 0 .. position[p] - 1 :
      <<p, o>> \in Resolved \/ delivery[owner[p]] = <<p, o>>

IInv == /\ TypeOK
        /\ CallLocals
        /\ LoopSound
        /\ OutcomeSound
        /\ FetchedResolved
        /\ InOrder
        /\ NoLoss

-----------------------------------------------------------------------------

\* The initial states: nothing is assigned, fetched or committed.
THEOREM InitIInv == Init => IInv
<1> SUFFICES ASSUME Init PROVE IInv
  OBVIOUS
<1> USE DEF Init
<1>1. TypeOK
  BY LogEndAssumption, MaxAttemptsAssumption DEF TypeOK, Status, Failure
<1>2. CallLocals /\ LoopSound /\ OutcomeSound
  BY DEF CallLocals, LoopSound, OutcomeSound
<1>3. FetchedResolved /\ InOrder /\ NoLoss
  BY DEF FetchedResolved, InOrder, NoLoss
<1> QED
  BY <1>1, <1>2, <1>3 DEF IInv

\* A consumer that closes resolves nothing and gives up its partitions: every
\* other part of the invariant is about somebody else.
LEMMA CloseIInv ==
  ASSUME IInv, NEW c \in Consumer, Close(c),
         handled' = handled,
         deadLettered' \in {deadLettered, deadLettered \cup {delivery[c]}},
         deadLettered' \subseteq Record,
         committed' \in [Partition -> 0 .. LogEnd],
         \A p \in Partition : \A o \in 0 .. committed'[p] - 1 : <<p, o>> \in Resolved
  PROVE  IInv'
<1> USE DEF IInv, Close, Goto, EndCall
<1>0. Resolved \subseteq Resolved'
  BY DEF Resolved
<1>1. TypeOK'
  BY NoRecordAssumption, MaxAttemptsAssumption DEF TypeOK, Status, Failure
<1>2. CallLocals'
  BY DEF CallLocals, TypeOK
<1>3. LoopSound' /\ OutcomeSound'
  BY <1>0 DEF LoopSound, OutcomeSound, TypeOK
<1>4. FetchedResolved'
  BY <1>0, NoOneAssumption DEF FetchedResolved, TypeOK
<1>5. InOrder'
  BY <1>0 DEF InOrder, TypeOK
<1>6. NoLoss'
  BY <1>0 DEF NoLoss
<1> QED
  BY <1>1, <1>2, <1>3, <1>4, <1>5, <1>6

\* Closing with the offsets and the outcomes left as they were.
LEMMA PlainCloseIInv ==
  ASSUME IInv, NEW c \in Consumer, Close(c), UNCHANGED <<committed, outcomeVars>>
  PROVE  IInv'
<1>1. handled' = handled /\ deadLettered' = deadLettered /\ committed' = committed
  BY DEF outcomeVars
<1> QED
  BY <1>1, CloseIInv DEF IInv, TypeOK, NoLoss

-----------------------------------------------------------------------------
(* The steps of a call that leave the offsets alone. *)

\* Poll: everything behind the position is resolved, so the new delivery has
\* no open predecessor.
LEMMA PollIInv ==
  ASSUME IInv, NEW c \in Consumer, NEW p \in Partition, PollRecord(c, p)
  PROVE  IInv'
<1> DEFINE r == <<p, position[p]>>
<1> USE DEF IInv, PollRecord, Goto
<1>0. /\ delivery[c] = NoRecord /\ failure[c] = "none" /\ attempts[c] = 0
      /\ position[p] \in 0 .. LogEnd - 1 /\ r \in Record
  BY LogEndAssumption DEF CallLocals, TypeOK, Record
<1>1. Resolved' = Resolved /\ committed' = committed /\ owner' = owner
  BY DEF Resolved, outcomeVars
<1>2. TypeOK'
  <2>1. position' \in [Partition -> 0 .. LogEnd]
    BY <1>0, LogEndAssumption DEF TypeOK
  <2>2. /\ delivery' \in [Consumer -> Record \cup {NoRecord}]
        /\ failure' \in [Consumer -> Failure] /\ status' \in [Consumer -> Status]
    BY <1>0 DEF TypeOK, Status, Failure
  <2> QED
    BY <1>1, <2>1, <2>2 DEF TypeOK, outcomeVars
<1>3. CallLocals'
  BY <1>0, NoRecordAssumption DEF CallLocals, TypeOK
<1>4. LoopSound' /\ OutcomeSound'
  BY <1>0, MaxAttemptsAssumption DEF LoopSound, OutcomeSound, TypeOK, outcomeVars
<1>5. \A o \in 0 .. position[p] - 1 : <<p, o>> \in Resolved
  <2> SUFFICES ASSUME NEW o \in 0 .. position[p] - 1 PROVE <<p, o>> \in Resolved
    OBVIOUS
  <2>1. o \in 0 .. LogEnd - 1
    BY <1>0, LogEndAssumption
  <2>2. <<p, o>> # NoRecord
    BY <2>1, NoRecordAssumption DEF Record
  <2> QED
    BY <1>0, <2>2, NoOneAssumption DEF FetchedResolved
<1>6. FetchedResolved'
  <2> SUFFICES ASSUME NEW q \in Partition, owner[q] # NoOne, NEW o \in 0 .. position'[q] - 1
               PROVE  <<q, o>> \in Resolved \/ delivery'[owner[q]] = <<q, o>>
    BY <1>1 DEF FetchedResolved
  <2>1. CASE q = p
    <3>1. o = position[p] \/ o \in 0 .. position[p] - 1
      BY <2>1, <1>0 DEF TypeOK
    <3> QED
      BY <2>1, <3>1, <1>5 DEF TypeOK
  <2>2. CASE q # p
    <3>1. o \in 0 .. position[q] - 1 /\ owner[q] \in Consumer
      BY <2>2 DEF TypeOK
    <3>2. owner[q] = c => <<q, o>> \in Resolved
      BY <3>1, <1>0, LogEndAssumption, NoRecordAssumption DEF FetchedResolved, Record, TypeOK
    <3> QED
      BY <3>1, <3>2 DEF FetchedResolved, TypeOK
  <2> QED
    BY <2>1, <2>2
<1>7. InOrder'
  BY <1>0, <1>1, <1>5 DEF InOrder, TypeOK
<1>8. NoLoss'
  BY <1>1 DEF NoLoss
<1> QED
  BY <1>2, <1>3, <1>4, <1>6, <1>7, <1>8

\* A step inside a call: the delivery, the group and the offsets stay, and
\* the resolved records can only grow.
LEMMA InCallIInv ==
  ASSUME IInv, TypeOK', CallLocals', LoopSound', OutcomeSound',
         UNCHANGED <<delivery, groupVars, committed>>, Resolved \subseteq Resolved'
  PROVE  IInv'
<1>1. FetchedResolved'
  BY DEF IInv, FetchedResolved, groupVars
<1>2. InOrder' /\ NoLoss'
  BY DEF IInv, InOrder, NoLoss
<1> QED
  BY <1>1, <1>2 DEF IInv

LEMMA StartAttemptIInv ==
  ASSUME IInv, NEW c \in Consumer, StartAttempt(c)
  PROVE  IInv'
<1> USE DEF IInv, StartAttempt, Goto
<1>1. TypeOK'
  BY MaxAttemptsAssumption DEF TypeOK, Status, LoopSound, groupVars, outcomeVars
<1>2. CallLocals' /\ LoopSound' /\ OutcomeSound'
  BY DEF CallLocals, LoopSound, OutcomeSound, TypeOK, outcomeVars
<1>3. Resolved \subseteq Resolved'
  BY DEF Resolved, outcomeVars
<1> QED
  BY <1>1, <1>2, <1>3, InCallIInv

LEMMA HandlerStepIInv ==
  ASSUME IInv, NEW c \in Consumer, HandlerStep(c)
  PROVE  IInv'
<1> USE DEF IInv, Goto
<1>0. delivery[c] \in Record
  BY DEF HandlerStep, HandlerReturns, HandlerFailsTransiently, HandlerFailsPermanently,
         CallLocals, TypeOK
<1>1. CASE HandlerReturns(c)
  <2> USE DEF HandlerReturns
  <2>1. TypeOK'
    BY <1>0, <1>1 DEF TypeOK, Status, Failure, groupVars
  <2>2. CallLocals' /\ LoopSound' /\ OutcomeSound'
    BY <1>1 DEF CallLocals, LoopSound, OutcomeSound, TypeOK
  <2>3. Resolved \subseteq Resolved'
    BY <1>1 DEF Resolved
  <2> QED
    BY <1>1, <2>1, <2>2, <2>3, InCallIInv
<1>2. CASE HandlerFailsTransiently(c)
  <2> USE DEF HandlerFailsTransiently, MayRetry
  <2>1. TypeOK'
    BY <1>2 DEF TypeOK, Status, Failure, groupVars, outcomeVars
  <2>2. CallLocals' /\ LoopSound' /\ OutcomeSound'
    BY <1>2, MaxAttemptsAssumption DEF CallLocals, LoopSound, OutcomeSound, TypeOK, outcomeVars
  <2>3. Resolved \subseteq Resolved'
    BY <1>2 DEF Resolved, outcomeVars
  <2> QED
    BY <1>2, <2>1, <2>2, <2>3, InCallIInv
<1>3. CASE HandlerFailsPermanently(c)
  <2> USE DEF HandlerFailsPermanently
  <2>1. TypeOK'
    BY <1>3 DEF TypeOK, Status, Failure, groupVars, outcomeVars
  <2>2. CallLocals' /\ LoopSound' /\ OutcomeSound'
    BY <1>3 DEF CallLocals, LoopSound, OutcomeSound, TypeOK, outcomeVars
  <2>3. Resolved \subseteq Resolved'
    BY <1>3 DEF Resolved, outcomeVars
  <2> QED
    BY <1>3, <2>1, <2>2, <2>3, InCallIInv
<1> QED
  BY <1>1, <1>2, <1>3 DEF HandlerStep

LEMMA DecideIInv ==
  ASSUME IInv, NEW c \in Consumer, Decide(c)
  PROVE  IInv'
<1> USE DEF IInv, Decide, AfterAttempts, Goto
<1>1. TypeOK'
  BY DEF TypeOK, Status, groupVars, outcomeVars
<1>2. CallLocals' /\ LoopSound' /\ OutcomeSound'
  BY DEF CallLocals, LoopSound, OutcomeSound, TypeOK, outcomeVars
<1>3. Resolved \subseteq Resolved'
  BY DEF Resolved, outcomeVars
<1> QED
  BY <1>1, <1>2, <1>3, InCallIInv

LEMMA DeadLetterAckedIInv ==
  ASSUME IInv, NEW c \in Consumer, DeadLetterAcked(c)
  PROVE  IInv'
<1> USE DEF IInv, DeadLetterAcked, Goto
<1>1. TypeOK'
  BY DEF TypeOK, Status, CallLocals, groupVars
<1>2. CallLocals' /\ LoopSound' /\ OutcomeSound'
  BY DEF CallLocals, LoopSound, OutcomeSound, TypeOK
<1>3. Resolved \subseteq Resolved'
  BY DEF Resolved
<1> QED
  BY <1>1, <1>2, <1>3, InCallIInv

LEMMA DeadLetterFailsIInv ==
  ASSUME IInv, NEW c \in Consumer, DeadLetterFails(c)
  PROVE  IInv'
<1>1. delivery[c] \in Record /\ deadLettered \subseteq Record
  BY DEF IInv, DeadLetterFails, CallLocals, TypeOK
<1> QED
  BY <1>1, CloseIInv DEF IInv, DeadLetterFails, TypeOK, NoLoss

-----------------------------------------------------------------------------
(* Commits and the environment. *)

\* Storing the offset of a delivery that is resolved, after its predecessors.
LEMMA StoreOffsetSafe ==
  ASSUME IInv, NEW c \in Consumer, status[c] = "committing", StoreOffset(c)
  PROVE  /\ delivery[c] \in Record /\ delivery[c] \in Resolved
         /\ committed' \in [Partition -> 0 .. LogEnd]
         /\ \A p \in Partition : \A o \in 0 .. committed'[p] - 1 : <<p, o>> \in Resolved
<1>1. delivery[c] \in Record /\ delivery[c] \in Resolved
  BY DEF IInv, CallLocals, OutcomeSound, TypeOK, Resolved
<1>2. PICK p \in Partition, o \in 0 .. LogEnd - 1 : delivery[c] = <<p, o>>
  BY <1>1 DEF Record
<1>3. committed' = [committed EXCEPT ![p] = o + 1]
  BY <1>2 DEF StoreOffset
<1>4. committed' \in [Partition -> 0 .. LogEnd]
  BY <1>3, LogEndAssumption DEF IInv, TypeOK
<1>5. \A k \in 0 .. o : <<p, k>> \in Resolved
  <2> SUFFICES ASSUME NEW k \in 0 .. o PROVE <<p, k>> \in Resolved
    OBVIOUS
  <2>1. k = o \/ k \in 0 .. o - 1
    OBVIOUS
  <2>2. delivery[c] # NoRecord /\ delivery[c][1] = p /\ delivery[c][2] = o
    BY <1>1, <1>2, NoRecordAssumption
  <2> QED
    BY <1>1, <1>2, <2>1, <2>2 DEF IInv, InOrder
<1>6. ASSUME NEW q \in Partition, NEW k \in 0 .. committed'[q] - 1
      PROVE  <<q, k>> \in Resolved
  <2>1. CASE q = p
    <3>1. k \in 0 .. o
      BY <1>3, <2>1 DEF IInv, TypeOK
    <3> QED
      BY <1>5, <2>1, <3>1
  <2>2. CASE q # p
    BY <1>3, <2>2 DEF IInv, TypeOK, NoLoss
  <2> QED
    BY <2>1, <2>2
<1> QED
  BY <1>1, <1>4, <1>6

LEMMA CommitSucceedsIInv ==
  ASSUME IInv, NEW c \in Consumer, CommitSucceeds(c)
  PROVE  IInv'
<1>1. /\ delivery[c] \in Resolved
      /\ committed' \in [Partition -> 0 .. LogEnd]
      /\ \A p \in Partition : \A o \in 0 .. committed'[p] - 1 : <<p, o>> \in Resolved
  BY StoreOffsetSafe DEF CommitSucceeds
<1> USE DEF IInv, CommitSucceeds, Goto, EndCall
<1>2. Resolved' = Resolved
  BY DEF Resolved, outcomeVars
<1>3. TypeOK'
  BY <1>1, MaxAttemptsAssumption DEF TypeOK, Status, Failure, groupVars, outcomeVars
<1>4. CallLocals' /\ LoopSound' /\ OutcomeSound'
  BY DEF CallLocals, LoopSound, OutcomeSound, TypeOK, outcomeVars
<1>5. FetchedResolved'
  BY <1>1, <1>2 DEF FetchedResolved, TypeOK, groupVars
<1>6. InOrder'
  BY <1>2 DEF InOrder, TypeOK
<1>7. NoLoss'
  BY <1>1, <1>2 DEF NoLoss
<1> QED
  BY <1>3, <1>4, <1>5, <1>6, <1>7

LEMMA CommitFailsIInv ==
  ASSUME IInv, NEW c \in Consumer, CommitFails(c)
  PROVE  IInv'
<1>1. /\ committed' \in [Partition -> 0 .. LogEnd]
      /\ \A p \in Partition : \A o \in 0 .. committed'[p] - 1 : <<p, o>> \in Resolved
  BY StoreOffsetSafe DEF CommitFails, IInv, TypeOK, NoLoss
<1> QED
  BY <1>1, CloseIInv DEF CommitFails, IInv, TypeOK, outcomeVars

LEMMA SignalRestartIInv ==
  ASSUME IInv, NEW c \in Consumer, Signal(c) \/ Restart(c)
  PROVE  IInv'
<1> USE DEF IInv, Signal, Restart, Goto
<1>1. TypeOK'
  BY DEF TypeOK, Status, groupVars, outcomeVars
<1>2. CallLocals' /\ LoopSound' /\ OutcomeSound'
  BY DEF CallLocals, LoopSound, OutcomeSound, TypeOK, outcomeVars
<1>3. Resolved \subseteq Resolved' /\ UNCHANGED <<delivery, groupVars, committed>>
  BY DEF Resolved, outcomeVars
<1> QED
  BY <1>1, <1>2, <1>3, InCallIInv

\* A rebalance: a new owner starts at an offset whose predecessors are all
\* resolved, whatever the last owner was doing.
LEMMA RebalanceIInv ==
  ASSUME IInv, NEW p \in Partition, Revoke(p) \/ \E c \in Consumer : Assign(p, c)
  PROVE  IInv'
<1> USE DEF IInv
<1>0. UNCHANGED <<consumerVars, committed, outcomeVars>>
  BY DEF Revoke, Assign
<1>1. TypeOK'
  BY <1>0 DEF TypeOK, Revoke, Assign, StartPosition, consumerVars, outcomeVars
<1>2. CallLocals' /\ LoopSound' /\ OutcomeSound' /\ InOrder' /\ NoLoss'
  BY <1>0 DEF CallLocals, LoopSound, OutcomeSound, InOrder, NoLoss, Resolved,
              consumerVars, outcomeVars
<1>3. FetchedResolved'
  <2>1. CASE Revoke(p)
    BY <1>0, <2>1 DEF Revoke, FetchedResolved, TypeOK, Resolved, consumerVars, outcomeVars
  <2>2. CASE \E c \in Consumer : Assign(p, c)
    BY <1>0, <2>2 DEF Assign, StartPosition, FetchedResolved, NoLoss, TypeOK, Resolved,
                      consumerVars, outcomeVars
  <2> QED
    BY <2>1, <2>2
<1> QED
  BY <1>1, <1>2, <1>3

-----------------------------------------------------------------------------

\* Every step of every consumer, and of the coordinator, preserves IInv.
THEOREM NextIInv == IInv /\ [Next]_vars => IInv'
<1> SUFFICES ASSUME IInv, [Next]_vars PROVE IInv'
  OBVIOUS
<1>1. ASSUME NEW c \in Consumer, LoopStep(c) \/ Fault(c) \/ Restart(c)
      PROVE  IInv'
  <2>1. CASE \E p \in Partition : PollRecord(c, p)
    BY <2>1, PollIInv
  <2>2. CASE StartAttempt(c)
    BY <2>2, StartAttemptIInv
  <2>3. CASE HandlerStep(c)
    BY <2>3, HandlerStepIInv
  <2>4. CASE Decide(c)
    BY <2>4, DecideIInv
  <2>5. CASE DeadLetterAcked(c)
    BY <2>5, DeadLetterAckedIInv
  <2>6. CASE DeadLetterFails(c)
    BY <2>6, DeadLetterFailsIInv
  <2>7. CASE CommitSucceeds(c)
    BY <2>7, CommitSucceedsIInv
  <2>8. CASE CommitFails(c)
    BY <2>8, CommitFailsIInv
  <2>9. CASE LeaveLoop(c) \/ StopForShutdown(c) \/ PollFails(c) \/ HandlerRaises(c) \/ Crash(c)
    BY <2>9, PlainCloseIInv
       DEF LeaveLoop, StopForShutdown, PollFails, HandlerRaises, Crash
  <2>10. CASE Signal(c) \/ Restart(c)
    BY <2>10, SignalRestartIInv
  <2> QED
    BY <1>1, <2>1, <2>2, <2>3, <2>4, <2>5, <2>6, <2>7, <2>8, <2>9, <2>10
       DEF LoopStep, SinkStep, Fault
<1>2. ASSUME NEW p \in Partition, Revoke(p) \/ \E c \in Consumer : Assign(p, c)
      PROVE  IInv'
  BY <1>2, RebalanceIInv
<1>3. CASE UNCHANGED vars
  BY <1>3 DEF vars, consumerVars, groupVars, outcomeVars, IInv, TypeOK, CallLocals, LoopSound,
              OutcomeSound, FetchedResolved, InOrder, NoLoss, Resolved
<1> QED
  BY <1>1, <1>2, <1>3 DEF Next

THEOREM Invariance == Spec => []IInv
<1> QED
  BY InitIInv, NextIInv, PTL DEF Spec

\* The state of the group keeps its types, whatever the bounds.
THEOREM TypeCorrect == Spec => []TypeOK
<1>1. IInv => TypeOK
  BY DEF IInv
<1> QED
  BY <1>1, Invariance, PTL

\* A committed record was handled or is in the dead-letter topic: no order of
\* polls, failures, signals, crashes, rebalances and lost answers loses one.
THEOREM NothingLost == Spec => []NoLoss
<1>1. IInv => NoLoss
  BY DEF IInv
<1> QED
  BY <1>1, Invariance, PTL

\* A record is delivered after its predecessors, and is committed or
\* dead-lettered only with the outcome the attempt loop gave it.
THEOREM DeliverySound == Spec => [](InOrder /\ OutcomeSound)
<1>1. IInv => InOrder /\ OutcomeSound
  BY DEF IInv
<1> QED
  BY <1>1, Invariance, PTL

-----------------------------------------------------------------------------
(* The refinement: a step resolves the delivery of one consumer, or stores *)
(* the offset behind it, or changes nothing the abstract promise mentions. *)

\* Marking a delivery resolved is an abstract Resolve.
LEMMA ResolveStep ==
  ASSUME IInv, NEW c \in Consumer, delivery[c] # NoRecord,
         Resolved' \in {Resolved, Resolved \cup {delivery[c]}}, committed' = committed
  PROVE  [ALO!Next]_ALO!vars
<1>1. PICK p \in Partition, o \in 0 .. LogEnd - 1 : delivery[c] = <<p, o>>
  BY DEF IInv, TypeOK, Record
<1>2. ALO!PrefixResolved(p, o)
  BY <1>1 DEF IInv, InOrder, ALO!PrefixResolved
<1>3. CASE Resolved' = Resolved
  BY <1>3 DEF ALO!vars
<1>4. CASE Resolved' = Resolved \cup {delivery[c]}
  <2>1. ALO!Resolve(p, o)
    BY <1>1, <1>2, <1>4 DEF ALO!Resolve
  <2> QED
    BY <2>1 DEF ALO!Next
<1> QED
  BY <1>3, <1>4

\* Storing the offset of a delivery is an abstract Commit.
LEMMA CommitStep ==
  ASSUME IInv, NEW c \in Consumer, status[c] = "committing", StoreOffset(c),
         Resolved' = Resolved
  PROVE  [ALO!Next]_ALO!vars
<1>1. /\ delivery[c] \in Record
      /\ \A q \in Partition : \A k \in 0 .. committed'[q] - 1 : <<q, k>> \in Resolved
  BY StoreOffsetSafe
<1>2. PICK p \in Partition, o \in 0 .. LogEnd - 1 : delivery[c] = <<p, o>>
  BY <1>1 DEF Record
<1>3. committed' = [committed EXCEPT ![p] = o + 1] /\ o + 1 \in 0 .. LogEnd
  BY <1>2, LogEndAssumption DEF StoreOffset
<1>4. committed'[p] = o + 1
  BY <1>3 DEF IInv, TypeOK
<1>5. ALO!PrefixResolved(p, o + 1)
  BY <1>1, <1>4 DEF ALO!PrefixResolved
<1>6. ALO!Commit(p, o + 1)
  BY <1>3, <1>5 DEF ALO!Commit
<1> QED
  BY <1>3, <1>6 DEF ALO!Next

\* Every step of the loop is a step of the abstract promise, or a stutter.
THEOREM StepRefines == IInv /\ [Next]_vars => [ALO!Next]_ALO!vars
<1> SUFFICES ASSUME IInv, [Next]_vars PROVE [ALO!Next]_ALO!vars
  OBVIOUS
<1>1. ASSUME UNCHANGED <<committed, outcomeVars>> PROVE [ALO!Next]_ALO!vars
  BY <1>1 DEF ALO!vars, outcomeVars, Resolved
<1>2. ASSUME NEW c \in Consumer,
             HandlerReturns(c) \/ DeadLetterAcked(c) \/ DeadLetterFails(c)
      PROVE  [ALO!Next]_ALO!vars
  <2>1. /\ delivery[c] # NoRecord
        /\ Resolved' \in {Resolved, Resolved \cup {delivery[c]}}
        /\ committed' = committed
    BY <1>2 DEF HandlerReturns, DeadLetterAcked, DeadLetterFails, IInv, CallLocals, Resolved
  <2> QED
    BY <2>1, ResolveStep
<1>3. ASSUME NEW c \in Consumer, CommitSucceeds(c) \/ CommitFails(c)
      PROVE  [ALO!Next]_ALO!vars
  <2>1. /\ status[c] = "committing" /\ Resolved' = Resolved
        /\ StoreOffset(c) \/ UNCHANGED <<committed, outcomeVars>>
    BY <1>3 DEF CommitSucceeds, CommitFails, Resolved, outcomeVars
  <2> QED
    BY <1>1, <2>1, CommitStep
<1>4. ASSUME NEW c \in Consumer, LoopStep(c) \/ Fault(c) \/ Restart(c)
      PROVE  [ALO!Next]_ALO!vars
  <2>1. CASE \/ \E p \in Partition : PollRecord(c, p)
             \/ StartAttempt(c) \/ Decide(c) \/ LeaveLoop(c) \/ StopForShutdown(c)
    BY <1>1, <2>1 DEF PollRecord, StartAttempt, Decide, LeaveLoop, StopForShutdown
  <2>2. CASE \/ HandlerFailsTransiently(c) \/ HandlerFailsPermanently(c)
             \/ HandlerRaises(c) \/ PollFails(c) \/ Crash(c) \/ Signal(c) \/ Restart(c)
    BY <1>1, <2>2 DEF HandlerFailsTransiently, HandlerFailsPermanently, HandlerRaises,
                      PollFails, Crash, Signal, Restart
  <2> QED
    BY <1>2, <1>3, <1>4, <2>1, <2>2 DEF LoopStep, HandlerStep, SinkStep, Fault
<1>5. ASSUME NEW p \in Partition, Revoke(p) \/ \E c \in Consumer : Assign(p, c)
      PROVE  [ALO!Next]_ALO!vars
  BY <1>1, <1>5 DEF Revoke, Assign
<1>6. CASE UNCHANGED vars
  BY <1>1, <1>6 DEF vars
<1> QED
  BY <1>4, <1>5, <1>6 DEF Next

\* The managed loop implements at-least-once delivery.
THEOREM Refinement == Spec => ImplementsAtLeastOnce
<1>1. Init => ALO!Init
  BY DEF Init, ALO!Init, Resolved
<1> QED
  BY <1>1, Invariance, StepRefines, PTL DEF Spec, ImplementsAtLeastOnce, ALO!Spec
=============================================================================
