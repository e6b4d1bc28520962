------------------------- MODULE OrchestratorProofs -------------------------
(***************************************************************************)
(* Theorems of Orchestrator, for every chain, batch size and number of     *)
(* attempts and restarts.                                                  *)
(***************************************************************************)
EXTENDS Orchestrator, Queue, Integers, SequenceTheorems, TLAPS

\* The event up to which everything is settled one way or the other.
Base == IF event = None THEN pointer ELSE event

\* Where an event is in hand and the pointer has not reached it.
Ahead == {"attempt", "apply", "savePointer", "backoff"}

\* Where no event is in hand.
Idle == {"loop", "pop", "sleep", "stopped", "dead", "down"}

EventInHand ==
    /\ pc \in Idle => event = None
    /\ pc \in Ahead => event = pointer + 1
    /\ pc = "commit" => event = pointer /\ event # None
    /\ pc = "report" /\ event # None => event = pointer
    /\ pc = "catch" /\ event # None => event \in {pointer, pointer + 1}

QueueFollows == \A i \in DOMAIN queue : queue[i] = Base + i

\* What the ledger has gone past; see Ledger.
Cursor == IF pc = "commit" THEN event - 1 ELSE pointer

AppliedBehindCursor == \A i \in DOMAIN applied : applied[i] <= Cursor

\* An error is only ever in flight in the catch block, and the one of an
\* unsupported event is about the event in hand.
RefusalRemembered ==
    /\ err # "none" => pc \in {"catch", "report"}
    /\ err = "unsupported" /\ event # None => Log[event].kind = "Unsupported"

IInv ==
    /\ TypeOK
    /\ EventInHand
    /\ QueueFollows
    /\ AppliedBehindCursor
    /\ AppliedInOrder
    /\ RefusalRemembered
-----------------------------------------------------------------------------
(* Lemmas about the operators of Orchestrator. *)

\* Every event names a pool.
LEMMA EventPool ==
  \A e \in Events : Log[e].pool \in Pools /\ Log[e].block \in Nat
<1>. TAKE e \in Events
<1>1. Log[e] \in [kind : Kinds, pool : Pools, block : Nat]
  BY LogAssumption, ElementOfSeq DEF Events
<1>. QED
  BY <1>1

\* A batch goes no further than the log.
LEMMA BatchInLog ==
  ASSUME TypeOK
  PROVE  /\ BatchSize \in Nat /\ pointer + BatchSize \in 0..Len(Log)
         /\ Batch \in Seq(Events) /\ Len(Batch) = BatchSize
         /\ \A i \in DOMAIN Batch : Batch[i] = pointer + i
         /\ {Batch[i] : i \in DOMAIN Batch} \subseteq Events
<1>1. BatchSize \in Nat /\ pointer + BatchSize \in 0..Len(Log)
  BY LogAssumption, ParameterAssumption DEF TypeOK, BatchSize
<1>2. Batch \in [1..BatchSize -> Events]
  BY <1>1, LogAssumption DEF TypeOK, Batch, Events
<1>3. Batch \in Seq(Events) /\ Len(Batch) = BatchSize
  BY <1>1, <1>2, SeqDef
<1>. QED
  BY <1>1, <1>2, <1>3 DEF Batch

\* An error is either retried after a pause or goes to the catch block.
LEMMA ThrowType ==
  ASSUME TypeOK, NEW x \in Errors, Throw(x)
  PROVE  pc' \in Labels /\ attempts' \in Nat /\ err' \in Errors
  BY DEF Throw, TypeOK, Labels

LEMMA RefusalType == \A e : Refusal(e) \in Errors
  BY DEF Refusal, Errors

-----------------------------------------------------------------------------
(* The invariant is inductive. *)

LEMMA TypeStep == IInv /\ [Next]_vars => TypeOK'
<1>. SUFFICES ASSUME IInv, [Next]_vars PROVE TypeOK'
  OBVIOUS
<1>. USE LogAssumption, ParameterAssumption DEF IInv, EventInHand, Ahead, Idle
<1>. USE DEF TypeOK, Events, None, dbVars, loopVars, envVars, Labels, Errors
<1>1. CASE IndexerAdvances
  BY <1>1 DEF IndexerAdvances
<1>2. CASE FetchBatch
  <2>1. queue' \in Seq(Events) /\ context' \subseteq Events
    BY <1>2, BatchInLog DEF FetchBatch
  <2>. QED
    BY <1>2, <2>1 DEF FetchBatch
<1>3. CASE FetchFails
  BY <1>3 DEF FetchFails, MayIterate
<1>4. CASE PopEvent
  <2>. HIDE DEF Events
  <2>1. event' \in Events /\ queue' \in Seq(Events)
    BY <1>4, HeadTailProperties DEF PopEvent, TypeOK
  <2>2. pc' \in Labels /\ attempts' \in Nat
    BY <1>4 DEF PopEvent, Labels
  <2>. QED
    BY <1>4, <2>1, <2>2 DEF PopEvent, TypeOK
<1>5. CASE NothingToPop
  BY <1>5 DEF NothingToPop
<1>6. CASE WakeUp
  BY <1>6 DEF WakeUp
<1>7. CASE AttemptAborted
  BY <1>7 DEF AttemptAborted
<1>8. CASE HandleEvent
  <2>1. strategies' \subseteq Pools
    BY <1>8, EventPool DEF HandleEvent, StrategySaved, TypeOK, Labels, None
  <2>2. pc' \in Labels /\ attempts' \in Nat /\ err' \in Errors
    BY <1>8, ThrowType, RefusalType DEF HandleEvent, TypeOK, Labels
  <2>. QED
    BY <1>8, <2>1, <2>2 DEF HandleEvent, TypeOK, envVars
<1>9. CASE ResolveFails
  <2>1. pc' \in Labels /\ attempts' \in Nat /\ err' \in Errors
    BY <1>9, ThrowType DEF ResolveFails, Errors
  <2>. QED
    BY <1>9, <2>1 DEF ResolveFails, TypeOK, dbVars, envVars
<1>10. CASE ProcessFails
  <2>1. strategies' \subseteq Pools
    BY <1>10, EventPool DEF ProcessFails, StrategySaved, TypeOK, Labels, None
  <2>2. pc' \in Labels /\ attempts' \in Nat /\ err' \in Errors
    BY <1>10, ThrowType DEF ProcessFails, Errors
  <2>. QED
    BY <1>10, <2>1, <2>2 DEF ProcessFails, TypeOK, envVars
<1>11. CASE BackoffElapsed
  BY <1>11 DEF BackoffElapsed
<1>12. CASE RunChangesets
  BY <1>12 DEF RunChangesets
<1>13. CASE SavePointer
  BY <1>13 DEF SavePointer
<1>14. CASE Commit
  <2>. HIDE DEF Events
  <2>1. applied' \in Seq(Events)
    BY <1>14 DEF Commit, AppliedAfterCommit, TypeOK, None
  <2>2. event' \in Events \cup {None} /\ pc' \in Labels /\ err' \in Errors
    BY <1>14 DEF Commit, TypeOK, Labels, Errors
  <2>. QED
    BY <1>14, <2>1, <2>2 DEF Commit, TypeOK, envVars
<1>15. CASE TransactionFails
  <2>1. pc' \in Labels /\ attempts' \in Nat /\ err' \in Errors
    BY <1>15, ThrowType DEF TransactionFails, Errors
  <2>. QED
    BY <1>15, <2>1 DEF TransactionFails, TypeOK, dbVars, envVars
<1>16. CASE CommitUnacknowledged
  <2>. HIDE DEF Events
  <2>1. applied' \in Seq(Events)
    BY <1>16 DEF CommitUnacknowledged, AppliedAfterCommit, TypeOK, None
  <2>2. pc' \in Labels /\ attempts' \in Nat /\ err' \in Errors
    BY <1>16, ThrowType DEF CommitUnacknowledged, Errors
  <2>. QED
    BY <1>16, <2>1, <2>2 DEF CommitUnacknowledged, TypeOK, envVars
<1>17. CASE SaveFailedEvent
  BY <1>17 DEF SaveFailedEvent, PointerAfterFailure
<1>18. CASE SaveFailedEventFails
  BY <1>18 DEF SaveFailedEventFails
<1>19. CASE Report
  BY <1>19 DEF Report, Quiet, ShouldIgnore
<1>20. CASE Stop
  BY <1>20 DEF Stop
<1>21. CASE Abort
  BY <1>21 DEF Abort, Running
<1>22. CASE Crash
  BY <1>22 DEF Crash
<1>23. CASE Restart
  <2>1. restarts' \in 0..MaxRestarts
    BY <1>23 DEF Restart, TypeOK
  <2>2. aborted' \in BOOLEAN
    BY <1>23 DEF Restart
  <2>3. pc' \in Labels /\ queue' \in Seq(Events) /\ context' \subseteq Events
    BY <1>23 DEF Restart, Labels
  <2>. QED
    BY <1>23, <2>1, <2>2, <2>3 DEF Restart, TypeOK, dbVars
<1>24. CASE UNCHANGED vars
  BY <1>24 DEF vars
<1>. QED
  BY <1>1, <1>2, <1>3, <1>4, <1>5, <1>6, <1>7, <1>8, <1>9, <1>10, <1>11, <1>12, <1>13,
     <1>14, <1>15, <1>16, <1>17, <1>18, <1>19, <1>20, <1>21, <1>22, <1>23, <1>24 DEF Next, Step
LEMMA HandStep == IInv /\ [Next]_vars => EventInHand'
<1>. SUFFICES ASSUME IInv, [Next]_vars PROVE EventInHand'
  OBVIOUS
<1>. USE DEF IInv, EventInHand, Ahead, Idle, None
<1>. USE DEF TypeOK, Events, Labels, dbVars, loopVars, envVars
<1>1. CASE IndexerAdvances
  BY <1>1 DEF IndexerAdvances
<1>2. CASE FetchBatch
  BY <1>2 DEF FetchBatch, MayIterate, Batch
<1>3. CASE FetchFails
  BY <1>3 DEF FetchFails, MayIterate
<1>4. CASE PopEvent
  <2>1. event = None /\ event' = queue[1] /\ 1 \in DOMAIN queue
    BY <1>4 DEF PopEvent, MayIterate, TypeOK
  <2>2. event' = pointer + 1 /\ pointer' = pointer
    BY <1>4, <2>1 DEF PopEvent, QueueFollows, Base, TypeOK, dbVars
  <2>. QED
    BY <1>4, <2>2 DEF PopEvent, TypeOK
<1>5. CASE NothingToPop
  BY <1>5 DEF NothingToPop
<1>6. CASE WakeUp
  BY <1>6 DEF WakeUp
<1>7. CASE AttemptAborted
  BY <1>7 DEF AttemptAborted
<1>8. CASE HandleEvent
  BY <1>8 DEF HandleEvent, Throw, StrategySaved, Refusal
<1>9. CASE ResolveFails
  BY <1>9 DEF ResolveFails, Throw
<1>10. CASE ProcessFails
  BY <1>10 DEF ProcessFails, Throw, StrategySaved
<1>11. CASE BackoffElapsed
  BY <1>11 DEF BackoffElapsed
<1>12. CASE RunChangesets
  BY <1>12 DEF RunChangesets
<1>13. CASE SavePointer
  BY <1>13 DEF SavePointer
<1>14. CASE Commit
  BY <1>14 DEF Commit, AppliedAfterCommit
<1>15. CASE TransactionFails
  BY <1>15 DEF TransactionFails, Throw
<1>16. CASE CommitUnacknowledged
  BY <1>16 DEF CommitUnacknowledged, Throw, AppliedAfterCommit
<1>17. CASE SaveFailedEvent
  BY <1>17 DEF SaveFailedEvent, PointerAfterFailure
<1>18. CASE SaveFailedEventFails
  BY <1>18 DEF SaveFailedEventFails
<1>19. CASE Report
  BY <1>19 DEF Report, Quiet, ShouldIgnore
<1>20. CASE Stop
  BY <1>20 DEF Stop
<1>21. CASE Abort
  BY <1>21 DEF Abort, Running
<1>22. CASE Crash
  BY <1>22 DEF Crash
<1>23. CASE Restart
  BY <1>23 DEF Restart
<1>24. CASE UNCHANGED vars
  BY <1>24 DEF vars
<1>. QED
  BY <1>1, <1>2, <1>3, <1>4, <1>5, <1>6, <1>7, <1>8, <1>9, <1>10, <1>11, <1>12, <1>13,
     <1>14, <1>15, <1>16, <1>17, <1>18, <1>19, <1>20, <1>21, <1>22, <1>23, <1>24 DEF Next, Step

LEMMA QueueStep == IInv /\ [Next]_vars => QueueFollows'
<1>. SUFFICES ASSUME IInv, [Next]_vars PROVE QueueFollows'
  OBVIOUS
<1>. USE DEF IInv, EventInHand, Ahead, Idle, None, QueueFollows, Base
<1>. USE DEF TypeOK, Events, dbVars, loopVars, envVars
<1>1. CASE IndexerAdvances
  BY <1>1 DEF IndexerAdvances
<1>2. CASE FetchBatch
  BY <1>2, BatchInLog DEF FetchBatch, MayIterate, dbVars
<1>3. CASE FetchFails
  BY <1>3 DEF FetchFails, MayIterate
<1>4. CASE PopEvent
  <2>1. event = None /\ event' = queue[1] /\ 1 \in DOMAIN queue
    BY <1>4 DEF PopEvent, MayIterate, TypeOK
  <2>2. \A i \in DOMAIN queue' : i \in Nat /\ i + 1 \in DOMAIN queue /\ queue'[i] = queue[i + 1]
    <3>. HIDE DEF Events
    <3>1. queue \in Seq(Events) /\ queue # <<>> /\ queue' = Tail(queue)
      BY <1>4 DEF PopEvent, TypeOK
    <3>2. /\ Len(queue) \in Nat /\ DOMAIN queue = 1..Len(queue)
          /\ queue' \in Seq(Events) /\ Len(queue') = Len(queue) - 1
          /\ \A i \in 1..Len(queue') : queue'[i] = queue[i + 1]
      BY <3>1, HeadTailProperties, LenProperties
    <3>3. DOMAIN queue' = 1..Len(queue')
      BY <3>2, LenProperties
    <3>. QED
      BY <3>2, <3>3
  <2>3. event' = pointer + 1
    BY <2>1 DEF TypeOK
  <2>4. event' # None
    BY <2>3 DEF TypeOK
  <2>. QED
    BY <2>1, <2>2, <2>3, <2>4 DEF TypeOK
<1>5. CASE NothingToPop
  BY <1>5 DEF NothingToPop
<1>6. CASE WakeUp
  BY <1>6 DEF WakeUp
<1>7. CASE AttemptAborted
  BY <1>7 DEF AttemptAborted
<1>8. CASE HandleEvent
  BY <1>8 DEF HandleEvent, Throw, StrategySaved, Refusal
<1>9. CASE ResolveFails
  BY <1>9 DEF ResolveFails, Throw
<1>10. CASE ProcessFails
  BY <1>10 DEF ProcessFails, Throw, StrategySaved
<1>11. CASE BackoffElapsed
  BY <1>11 DEF BackoffElapsed
<1>12. CASE RunChangesets
  BY <1>12 DEF RunChangesets
<1>13. CASE SavePointer
  BY <1>13 DEF SavePointer
<1>14. CASE Commit
  BY <1>14 DEF Commit, AppliedAfterCommit
<1>15. CASE TransactionFails
  BY <1>15 DEF TransactionFails, Throw
<1>16. CASE CommitUnacknowledged
  BY <1>16 DEF CommitUnacknowledged, Throw, AppliedAfterCommit
<1>17. CASE SaveFailedEvent
  BY <1>17 DEF SaveFailedEvent, PointerAfterFailure
<1>18. CASE SaveFailedEventFails
  BY <1>18 DEF SaveFailedEventFails
<1>19. CASE Report
  BY <1>19 DEF Report, Quiet, ShouldIgnore
<1>20. CASE Stop
  BY <1>20 DEF Stop
<1>21. CASE Abort
  BY <1>21 DEF Abort, Running
<1>22. CASE Crash
  BY <1>22 DEF Crash
<1>23. CASE Restart
  BY <1>23 DEF Restart
<1>24. CASE UNCHANGED vars
  BY <1>24 DEF vars
<1>. QED
  BY <1>1, <1>2, <1>3, <1>4, <1>5, <1>6, <1>7, <1>8, <1>9, <1>10, <1>11, <1>12, <1>13,
     <1>14, <1>15, <1>16, <1>17, <1>18, <1>19, <1>20, <1>21, <1>22, <1>23, <1>24 DEF Next, Step

LEMMA CursorStep == IInv /\ [Next]_vars => AppliedBehindCursor'
<1>. SUFFICES ASSUME IInv, [Next]_vars PROVE AppliedBehindCursor'
  OBVIOUS
<1>. USE DEF IInv, EventInHand, Ahead, Idle, None, AppliedBehindCursor, Cursor
<1>. USE DEF TypeOK, Events, dbVars, loopVars, envVars
<1>1. CASE IndexerAdvances
  BY <1>1 DEF IndexerAdvances
<1>2. CASE FetchBatch
  BY <1>2 DEF FetchBatch, MayIterate, Batch
<1>3. CASE FetchFails
  BY <1>3 DEF FetchFails, MayIterate
<1>4. CASE PopEvent
  BY <1>4 DEF PopEvent, MayIterate
<1>5. CASE NothingToPop
  BY <1>5 DEF NothingToPop
<1>6. CASE WakeUp
  BY <1>6 DEF WakeUp
<1>7. CASE AttemptAborted
  BY <1>7 DEF AttemptAborted
<1>8. CASE HandleEvent
  BY <1>8 DEF HandleEvent, Throw, StrategySaved, Refusal
<1>9. CASE ResolveFails
  BY <1>9 DEF ResolveFails, Throw
<1>10. CASE ProcessFails
  BY <1>10 DEF ProcessFails, Throw, StrategySaved
<1>11. CASE BackoffElapsed
  BY <1>11 DEF BackoffElapsed
<1>12. CASE RunChangesets
  BY <1>12 DEF RunChangesets
<1>13. CASE SavePointer
  BY <1>13 DEF SavePointer
<1>14. CASE Commit
  BY <1>14 DEF Commit, AppliedAfterCommit
<1>15. CASE TransactionFails
  BY <1>15 DEF TransactionFails, Throw
<1>16. CASE CommitUnacknowledged
  BY <1>16 DEF CommitUnacknowledged, Throw, AppliedAfterCommit
<1>17. CASE SaveFailedEvent
  BY <1>17 DEF SaveFailedEvent, PointerAfterFailure
<1>18. CASE SaveFailedEventFails
  BY <1>18 DEF SaveFailedEventFails
<1>19. CASE Report
  BY <1>19 DEF Report, Quiet, ShouldIgnore
<1>20. CASE Stop
  BY <1>20 DEF Stop
<1>21. CASE Abort
  BY <1>21 DEF Abort, Running
<1>22. CASE Crash
  BY <1>22 DEF Crash
<1>23. CASE Restart
  BY <1>23 DEF Restart
<1>24. CASE UNCHANGED vars
  BY <1>24 DEF vars
<1>. QED
  BY <1>1, <1>2, <1>3, <1>4, <1>5, <1>6, <1>7, <1>8, <1>9, <1>10, <1>11, <1>12, <1>13,
     <1>14, <1>15, <1>16, <1>17, <1>18, <1>19, <1>20, <1>21, <1>22, <1>23, <1>24 DEF Next, Step

LEMMA OrderStep == IInv /\ [Next]_vars => AppliedInOrder'
<1>. SUFFICES ASSUME IInv, [Next]_vars PROVE AppliedInOrder'
  OBVIOUS
<1>. USE DEF IInv, EventInHand, Ahead, Idle, None, AppliedBehindCursor, Cursor, AppliedInOrder
<1>. USE DEF TypeOK, Events, dbVars, loopVars, envVars
<1>1. CASE IndexerAdvances
  BY <1>1 DEF IndexerAdvances
<1>2. CASE FetchBatch
  BY <1>2 DEF FetchBatch, MayIterate, Batch
<1>3. CASE FetchFails
  BY <1>3 DEF FetchFails, MayIterate
<1>4. CASE PopEvent
  BY <1>4 DEF PopEvent, MayIterate
<1>5. CASE NothingToPop
  BY <1>5 DEF NothingToPop
<1>6. CASE WakeUp
  BY <1>6 DEF WakeUp
<1>7. CASE AttemptAborted
  BY <1>7 DEF AttemptAborted
<1>8. CASE HandleEvent
  BY <1>8 DEF HandleEvent, Throw, StrategySaved, Refusal
<1>9. CASE ResolveFails
  BY <1>9 DEF ResolveFails, Throw
<1>10. CASE ProcessFails
  BY <1>10 DEF ProcessFails, Throw, StrategySaved
<1>11. CASE BackoffElapsed
  BY <1>11 DEF BackoffElapsed
<1>12. CASE RunChangesets
  BY <1>12 DEF RunChangesets
<1>13. CASE SavePointer
  BY <1>13 DEF SavePointer
<1>14. CASE Commit
  BY <1>14 DEF Commit, AppliedAfterCommit
<1>15. CASE TransactionFails
  BY <1>15 DEF TransactionFails, Throw
<1>16. CASE CommitUnacknowledged
  BY <1>16, SMTT(60) DEF CommitUnacknowledged, Throw, AppliedAfterCommit
<1>17. CASE SaveFailedEvent
  BY <1>17 DEF SaveFailedEvent, PointerAfterFailure
<1>18. CASE SaveFailedEventFails
  BY <1>18 DEF SaveFailedEventFails
<1>19. CASE Report
  BY <1>19 DEF Report, Quiet, ShouldIgnore
<1>20. CASE Stop
  BY <1>20 DEF Stop
<1>21. CASE Abort
  BY <1>21 DEF Abort, Running
<1>22. CASE Crash
  BY <1>22 DEF Crash
<1>23. CASE Restart
  BY <1>23 DEF Restart
<1>24. CASE UNCHANGED vars
  BY <1>24 DEF vars
<1>. QED
  BY <1>1, <1>2, <1>3, <1>4, <1>5, <1>6, <1>7, <1>8, <1>9, <1>10, <1>11, <1>12, <1>13,
     <1>14, <1>15, <1>16, <1>17, <1>18, <1>19, <1>20, <1>21, <1>22, <1>23, <1>24 DEF Next, Step

LEMMA RefusalStep == IInv /\ [Next]_vars => RefusalRemembered'
<1>. SUFFICES ASSUME IInv, [Next]_vars PROVE RefusalRemembered'
  OBVIOUS
<1>. USE DEF IInv, EventInHand, Ahead, Idle, None, RefusalRemembered
<1>. USE DEF TypeOK, Events, dbVars, loopVars, envVars
<1>1. CASE IndexerAdvances
  BY <1>1 DEF IndexerAdvances
<1>2. CASE FetchBatch
  BY <1>2 DEF FetchBatch, MayIterate, Batch
<1>3. CASE FetchFails
  BY <1>3 DEF FetchFails, MayIterate
<1>4. CASE PopEvent
  BY <1>4 DEF PopEvent, MayIterate
<1>5. CASE NothingToPop
  BY <1>5 DEF NothingToPop
<1>6. CASE WakeUp
  BY <1>6 DEF WakeUp
<1>7. CASE AttemptAborted
  BY <1>7 DEF AttemptAborted
<1>8. CASE HandleEvent
  BY <1>8 DEF HandleEvent, Throw, StrategySaved, Refusal
<1>9. CASE ResolveFails
  BY <1>9 DEF ResolveFails, Throw
<1>10. CASE ProcessFails
  BY <1>10 DEF ProcessFails, Throw, StrategySaved
<1>11. CASE BackoffElapsed
  BY <1>11 DEF BackoffElapsed
<1>12. CASE RunChangesets
  BY <1>12 DEF RunChangesets
<1>13. CASE SavePointer
  BY <1>13 DEF SavePointer
<1>14. CASE Commit
  BY <1>14 DEF Commit, AppliedAfterCommit
<1>15. CASE TransactionFails
  BY <1>15 DEF TransactionFails, Throw
<1>16. CASE CommitUnacknowledged
  BY <1>16 DEF CommitUnacknowledged, Throw, AppliedAfterCommit
<1>17. CASE SaveFailedEvent
  BY <1>17 DEF SaveFailedEvent, PointerAfterFailure
<1>18. CASE SaveFailedEventFails
  BY <1>18 DEF SaveFailedEventFails
<1>19. CASE Report
  BY <1>19 DEF Report, Quiet, ShouldIgnore
<1>20. CASE Stop
  BY <1>20 DEF Stop
<1>21. CASE Abort
  BY <1>21 DEF Abort, Running
<1>22. CASE Crash
  BY <1>22 DEF Crash
<1>23. CASE Restart
  BY <1>23 DEF Restart
<1>24. CASE UNCHANGED vars
  BY <1>24 DEF vars
<1>. QED
  BY <1>1, <1>2, <1>3, <1>4, <1>5, <1>6, <1>7, <1>8, <1>9, <1>10, <1>11, <1>12, <1>13,
     <1>14, <1>15, <1>16, <1>17, <1>18, <1>19, <1>20, <1>21, <1>22, <1>23, <1>24 DEF Next, Step

LEMMA InitInvariant == Init => IInv
<1>. SUFFICES ASSUME Init PROVE IInv
  OBVIOUS
<1>1. aborted \in BOOLEAN
  BY DEF Init
<1>2. TypeOK
  <2>1. Len(Log) \in Nat
    BY LogAssumption, LenProperties
  <2>2. indexed \in 0..Len(Log) /\ pointer \in 0..Len(Log) /\ restarts \in 0..MaxRestarts
    BY <2>1, ParameterAssumption DEF Init
  <2>. QED
    BY <1>1, <2>2 DEF Init, TypeOK, None, Labels, Errors
<1>3. EventInHand
  BY DEF Init, EventInHand, Idle, Ahead
<1>4. QueueFollows /\ AppliedBehindCursor /\ AppliedInOrder /\ RefusalRemembered
  BY DEF Init, QueueFollows, AppliedBehindCursor, AppliedInOrder, RefusalRemembered
<1>. QED
  BY <1>2, <1>3, <1>4 DEF IInv

LEMMA NextInvariant == IInv /\ [Next]_vars => IInv'
  BY TypeStep, HandStep, QueueStep, CursorStep, OrderStep, RefusalStep DEF IInv

LEMMA Invariant == Spec => []IInv
  BY InitInvariant, NextInvariant, PTL DEF Spec

\* What a commit adds to the stored events.
LEMMA CommitApplies ==
  ASSUME TypeOK, event \in Events, applied' = AppliedAfterCommit
  PROVE  AppliedEvents' = IF Unhandled(event) THEN AppliedEvents
                          ELSE AppliedEvents \cup {event}
<1>1. CASE Unhandled(event)
  BY <1>1 DEF AppliedEvents, AppliedAfterCommit
<1>2. CASE ~Unhandled(event)
  <2>1. applied' = Append(applied, event) /\ applied \in Seq(Events)
    BY <1>2 DEF AppliedAfterCommit, TypeOK
  <2>2. DOMAIN applied' = DOMAIN applied \cup {Len(applied) + 1}
    BY <2>1
  <2>3. /\ \A i \in DOMAIN applied : applied'[i] = applied[i]
        /\ applied'[Len(applied) + 1] = event
    BY <2>1
  <2>. QED
    BY <1>2, <2>2, <2>3 DEF AppliedEvents
<1>. QED
  BY <1>1, <1>2

-----------------------------------------------------------------------------
(* The theorems. *)

\* Every variable stays in its domain.
THEOREM TypeCorrect == Spec => []TypeOK
<1>1. IInv => TypeOK
  BY DEF IInv
<1>. QED
  BY <1>1, Invariant, PTL

\* No event's changes are stored twice or out of order, and an event whose
\* changes are stored is behind the pointer, through any number of failures,
\* shutdowns, crashes and restarts.
THEOREM AtMostOnceInOrder == Spec => [](AppliedInOrder /\ AppliedBehindPointer)
<1>1. IInv => AppliedInOrder /\ AppliedBehindPointer
  BY DEF IInv, TypeOK, EventInHand, AppliedBehindCursor, Cursor, AppliedBehindPointer,
         AppliedEvents, Events, None
<1>. QED
  BY <1>1, Invariant, PTL

\* The pointer moves over one event at a time, and never back.
THEOREM PointerAdvances == Spec => PointerAdvancesByOne
<1>1. ASSUME IInv, [Next]_vars
      PROVE  [pointer' \in {pointer, pointer + 1}]_pointer
  <2>. USE <1>1 DEF IInv, EventInHand, Ahead, Idle, None
<2>. USE DEF TypeOK, Events, dbVars, loopVars, envVars
<2>1. CASE IndexerAdvances
  BY <2>1 DEF IndexerAdvances
<2>2. CASE FetchBatch
  BY <2>2 DEF FetchBatch, MayIterate, Batch
<2>3. CASE FetchFails
  BY <2>3 DEF FetchFails, MayIterate
<2>4. CASE PopEvent
  BY <2>4 DEF PopEvent, MayIterate
<2>5. CASE NothingToPop
  BY <2>5 DEF NothingToPop
<2>6. CASE WakeUp
  BY <2>6 DEF WakeUp
<2>7. CASE AttemptAborted
  BY <2>7 DEF AttemptAborted
<2>8. CASE HandleEvent
  BY <2>8 DEF HandleEvent, Throw, StrategySaved, Refusal
<2>9. CASE ResolveFails
  BY <2>9 DEF ResolveFails, Throw
<2>10. CASE ProcessFails
  BY <2>10 DEF ProcessFails, Throw, StrategySaved
<2>11. CASE BackoffElapsed
  BY <2>11 DEF BackoffElapsed
<2>12. CASE RunChangesets
  BY <2>12 DEF RunChangesets
<2>13. CASE SavePointer
  BY <2>13 DEF SavePointer
<2>14. CASE Commit
  BY <2>14 DEF Commit, AppliedAfterCommit
<2>15. CASE TransactionFails
  BY <2>15 DEF TransactionFails, Throw
<2>16. CASE CommitUnacknowledged
  BY <2>16 DEF CommitUnacknowledged, Throw, AppliedAfterCommit
<2>17. CASE SaveFailedEvent
  BY <2>17 DEF SaveFailedEvent, PointerAfterFailure
<2>18. CASE SaveFailedEventFails
  BY <2>18 DEF SaveFailedEventFails
<2>19. CASE Report
  BY <2>19 DEF Report, Quiet, ShouldIgnore
<2>20. CASE Stop
  BY <2>20 DEF Stop
<2>21. CASE Abort
  BY <2>21 DEF Abort, Running
<2>22. CASE Crash
  BY <2>22 DEF Crash
<2>23. CASE Restart
  BY <2>23 DEF Restart
<2>24. CASE UNCHANGED vars
  BY <2>24 DEF vars
<2>. QED
  BY <2>1, <2>2, <2>3, <2>4, <2>5, <2>6, <2>7, <2>8, <2>9, <2>10, <2>11, <2>12, <2>13,
     <2>14, <2>15, <2>16, <2>17, <2>18, <2>19, <2>20, <2>21, <2>22, <2>23, <2>24 DEF Next, Step
<1>. QED
  BY <1>1, Invariant, PTL DEF Spec, PointerAdvancesByOne

\* An event the pointer has gone past is stored, or has nothing to store, or was
\* reported, or was in hand when the process went down.
THEOREM LossReported == Spec => []LossIsReported
<1>1. Init => LossIsReported
  BY DEF Init, LossIsReported
<1>2. ASSUME IInv, LossIsReported, [Next]_vars
      PROVE  LossIsReported'
  <2>. USE <1>2 DEF IInv, EventInHand, Ahead, Idle, None, LossIsReported,
               RefusalRemembered
<2>. USE DEF TypeOK, Events, AppliedEvents, PoolCreatedLaterInBlock, Unhandled, dbVars, loopVars, envVars
<2>1. CASE IndexerAdvances
  BY <2>1 DEF IndexerAdvances
<2>2. CASE FetchBatch
  BY <2>2 DEF FetchBatch, MayIterate, Batch
<2>3. CASE FetchFails
  BY <2>3 DEF FetchFails, MayIterate
<2>4. CASE PopEvent
  BY <2>4 DEF PopEvent, MayIterate
<2>5. CASE NothingToPop
  BY <2>5 DEF NothingToPop
<2>6. CASE WakeUp
  BY <2>6 DEF WakeUp
<2>7. CASE AttemptAborted
  BY <2>7 DEF AttemptAborted
<2>8. CASE HandleEvent
  BY <2>8 DEF HandleEvent, Throw, StrategySaved, Refusal
<2>9. CASE ResolveFails
  BY <2>9 DEF ResolveFails, Throw
<2>10. CASE ProcessFails
  BY <2>10 DEF ProcessFails, Throw, StrategySaved
<2>11. CASE BackoffElapsed
  BY <2>11 DEF BackoffElapsed
<2>12. CASE RunChangesets
  BY <2>12 DEF RunChangesets
<2>13. CASE SavePointer
  BY <2>13 DEF SavePointer
<2>14. CASE Commit
  <3>1. event \in Events
    BY <2>14 DEF Commit, TypeOK
  <3>2. AppliedEvents' = IF Unhandled(event) THEN AppliedEvents ELSE AppliedEvents \cup {event}
    BY <2>14, <3>1, CommitApplies DEF Commit
  <3>3. pointer' = pointer /\ alerts' = alerts /\ interrupted' = interrupted /\ event' \in {event, None}
    BY <2>14 DEF Commit
  <3>. QED
    BY <3>1, <3>2, <3>3 DEF TypeOK, PoolCreatedLaterInBlock, Unhandled, IsStrategyEvent
<2>15. CASE TransactionFails
  BY <2>15 DEF TransactionFails, Throw
<2>16. CASE CommitUnacknowledged
  <3>1. event \in Events
    BY <2>16 DEF CommitUnacknowledged, TypeOK
  <3>2. AppliedEvents' = IF Unhandled(event) THEN AppliedEvents ELSE AppliedEvents \cup {event}
    BY <2>16, <3>1, CommitApplies DEF CommitUnacknowledged
  <3>3. pointer' = pointer /\ alerts' = alerts /\ interrupted' = interrupted /\ event' = event
    BY <2>16 DEF CommitUnacknowledged
  <3>. QED
    BY <3>1, <3>2, <3>3 DEF TypeOK, PoolCreatedLaterInBlock, Unhandled, IsStrategyEvent
<2>17. CASE SaveFailedEvent
  <3>1. /\ pc = "catch" /\ pointer' = IF event = None THEN pointer ELSE event
        /\ applied' = applied /\ event' = event /\ alerts' = alerts
        /\ interrupted' = interrupted
    BY <2>17 DEF SaveFailedEvent, PointerAfterFailure
  <3>2. AppliedEvents' = AppliedEvents
    BY <3>1
  <3>3. pointer \in Nat /\ (event # None => event \in {pointer, pointer + 1})
    BY <3>1
  <3>4. \A e \in 1..pointer' : e \in 1..pointer \/ e = event'
    BY <3>1, <3>3
  <3>. QED BY <3>1, <3>2, <3>4
<2>18. CASE SaveFailedEventFails
  BY <2>18 DEF SaveFailedEventFails
<2>19. CASE Report
  BY <2>19 DEF Report, Quiet, ShouldIgnore
<2>20. CASE Stop
  BY <2>20 DEF Stop
<2>21. CASE Abort
  BY <2>21 DEF Abort, Running
<2>22. CASE Crash
  BY <2>22 DEF Crash
<2>23. CASE Restart
  BY <2>23 DEF Restart
<2>24. CASE UNCHANGED vars
  BY <2>24 DEF vars
<2>. QED
  BY <2>1, <2>2, <2>3, <2>4, <2>5, <2>6, <2>7, <2>8, <2>9, <2>10, <2>11, <2>12, <2>13,
     <2>14, <2>15, <2>16, <2>17, <2>18, <2>19, <2>20, <2>21, <2>22, <2>23, <2>24 DEF Next, Step
<1>. QED
  BY <1>1, <1>2, Invariant, PTL DEF Spec

\* The loop implements the ledger: its initial states map to the ledger's, and
\* each of its steps to Deliver, to Pass or to no step of the ledger.
THEOREM ImplementsLedger == Spec => KeepsLedger
<1>1. Init => Ledger!LedgerInit
  BY DEF Init, Ledger!LedgerInit
<1>2. ASSUME IInv, IInv', [Next]_vars
      PROVE  [Ledger!LedgerNext]_(Ledger!ledgerVars)
  <2>. USE <1>2 DEF IInv, EventInHand, Ahead, Idle, None,
               Ledger!LedgerNext, Ledger!Deliver, Ledger!Pass, Ledger!ledgerVars
<2>. USE DEF TypeOK, Events, dbVars, loopVars, envVars
<2>1. CASE IndexerAdvances
  BY <2>1 DEF IndexerAdvances
<2>2. CASE FetchBatch
  BY <2>2 DEF FetchBatch, MayIterate, Batch
<2>3. CASE FetchFails
  BY <2>3 DEF FetchFails, MayIterate
<2>4. CASE PopEvent
  BY <2>4 DEF PopEvent, MayIterate
<2>5. CASE NothingToPop
  BY <2>5 DEF NothingToPop
<2>6. CASE WakeUp
  BY <2>6 DEF WakeUp
<2>7. CASE AttemptAborted
  BY <2>7 DEF AttemptAborted
<2>8. CASE HandleEvent
  BY <2>8 DEF HandleEvent, Throw, StrategySaved, Refusal
<2>9. CASE ResolveFails
  BY <2>9 DEF ResolveFails, Throw
<2>10. CASE ProcessFails
  BY <2>10 DEF ProcessFails, Throw, StrategySaved
<2>11. CASE BackoffElapsed
  BY <2>11 DEF BackoffElapsed
<2>12. CASE RunChangesets
  BY <2>12 DEF RunChangesets
<2>13. CASE SavePointer
  BY <2>13 DEF SavePointer
<2>14. CASE Commit
  <3>1. pc = "commit" /\ pc' # "commit" /\ pointer' = pointer /\ event = pointer
    BY <2>14 DEF Commit
  <3>2. event \in Events /\ event \in Nat /\ event - 1 + 1 = event /\ event - 1 < Len(Log)
    BY <2>14, LogAssumption DEF Commit, TypeOK, Events
  <3>3. applied' = applied \/ applied' = Append(applied, event)
    BY <2>14 DEF Commit, AppliedAfterCommit
  <3>. QED
    BY <3>1, <3>2, <3>3
<2>15. CASE TransactionFails
  BY <2>15 DEF TransactionFails, Throw
<2>16. CASE CommitUnacknowledged
  BY <2>16 DEF CommitUnacknowledged, Throw, AppliedAfterCommit
<2>17. CASE SaveFailedEvent
  BY <2>17 DEF SaveFailedEvent, PointerAfterFailure
<2>18. CASE SaveFailedEventFails
  BY <2>18 DEF SaveFailedEventFails
<2>19. CASE Report
  BY <2>19 DEF Report, Quiet, ShouldIgnore
<2>20. CASE Stop
  BY <2>20 DEF Stop
<2>21. CASE Abort
  BY <2>21 DEF Abort, Running
<2>22. CASE Crash
  BY <2>22 DEF Crash
<2>23. CASE Restart
  BY <2>23 DEF Restart
<2>24. CASE UNCHANGED vars
  BY <2>24 DEF vars
<2>. QED
  BY <2>1, <2>2, <2>3, <2>4, <2>5, <2>6, <2>7, <2>8, <2>9, <2>10, <2>11, <2>12, <2>13,
     <2>14, <2>15, <2>16, <2>17, <2>18, <2>19, <2>20, <2>21, <2>22, <2>23, <2>24 DEF Next, Step
<1>. QED
  BY <1>1, <1>2, Invariant, PTL DEF Spec, KeepsLedger, Ledger!LedgerSpec
-----------------------------------------------------------------------------
(***************************************************************************)
(* Theorems of Queue, on which the loop keeps its events: for every set of *)
(* items, initial capacity, length of a push and size from which the       *)
(* buffer shrinks, the buffer is a first-in first-out queue, and its free   *)
(* slots hold nothing.                                                     *)
(*                                                                         *)
(* The invariant adds the types and that the tail is the slot behind the   *)
(* last item, where a push writes.  Each call of the queue is described    *)
(* once by what it leaves in the slots counted from the head (PushedSlots, *)
(* PoppedSlots); the invariant and the refinement both follow from that.   *)
(***************************************************************************)

Slots == 0..(capacity - 1)

\* How far slot k lies behind the head.
Behind(k) == IF k >= head THEN k - head ELSE k + capacity - head

BufferTypes ==
    /\ capacity \in Nat \ {0}
    /\ head \in Slots
    /\ size \in 0..capacity
    /\ buffer \in [Slots -> Items \cup {Undefined}]

TailFollows == tail = Slot(size)

\* WindowHolds, counted from the head.
WindowOK == \A i \in Slots : buffer[Slot(i)] # Undefined <=> i < size

BufferInv == BufferTypes /\ TailFollows /\ WindowOK

\* What the queue holds, seen as a sequence.
Contents == [i \in 1..size |-> buffer[Slot(i - 1)]]
-----------------------------------------------------------------------------
(* Lemmas about slots and capacities. *)

\* A remainder of a number below twice the divisor.
LEMMA ModWrap ==
    ASSUME NEW n \in Nat \ {0}, NEW h \in 0..n, NEW i \in 0..n, h + i < 2 * n
    PROVE  /\ h + i < n => (h + i) % n = h + i
           /\ ~(h + i < n) => (h + i) % n = h + i - n
<1>1. CASE h + i < n
  BY <1>1
<1>2. CASE ~(h + i < n)
  BY <1>2
<1>. QED BY <1>1, <1>2

\* With the head at 0 a slot is its own number.
LEMMA SlotFromZero ==
    ASSUME NEW n \in Nat \ {0}, NEW i \in 0..(n - 1)
    PROVE  (0 + i) % n = i
BY ModWrap

\* From positions, counted from 1, to slots, counted from 0.
LEMMA OneBefore ==
    ASSUME NEW m \in Nat, NEW n \in Nat, m <= n, NEW i \in 1..m
    PROVE  i - 1 \in 0..(n - 1)
OBVIOUS

\* Half of a capacity, rounded up.
LEMMA HalfFacts ==
    ASSUME NEW n \in Nat \ {0}
    PROVE  /\ CeilHalf(n) \in Nat \ {0}
           /\ n <= 2 * CeilHalf(n) /\ 2 * CeilHalf(n) <= n + 1
BY DEF CeilHalf

\* The buffer grows to hold what is required, if it did not.
LEMMA GrownFacts ==
    ASSUME BufferTypes, NEW required \in Nat, capacity < required
    PROVE  Grown(required) \in Nat \ {0} /\ required <= Grown(required)
<1>1. CeilHalf(required * 3) \in Nat \ {0} /\ required * 3 <= 2 * CeilHalf(required * 3)
  BY HalfFacts DEF BufferTypes
<1>2. required <= CeilHalf(required * 3)
  BY <1>1
<1>. QED BY <1>1, <1>2 DEF BufferTypes, Grown, Larger

\* The slots from the head on, and back.
LEMMA SlotFacts ==
    ASSUME BufferTypes
    PROVE  /\ \A i \in 0..capacity : Slot(i) = IF head + i < capacity THEN head + i ELSE head + i - capacity
           /\ \A i \in 0..capacity : Slot(i) \in Slots
           /\ \A i \in Slots : Behind(Slot(i)) = i
           /\ \A k \in Slots : Behind(k) \in Slots /\ Slot(Behind(k)) = k
<1>1. ASSUME NEW i \in 0..capacity
      PROVE  Slot(i) = IF head + i < capacity THEN head + i ELSE head + i - capacity
  <2>1. /\ capacity \in Nat \ {0} /\ head \in 0..capacity
        /\ head + i < 2 * capacity
    BY DEF BufferTypes, Slots
  <2>2. /\ head + i < capacity => (head + i) % capacity = head + i
        /\ ~(head + i < capacity) => (head + i) % capacity = head + i - capacity
    BY <2>1, ModWrap
  <2>. QED BY <2>2, Zenon DEF Slot
<1>2. ASSUME NEW i \in 0..capacity PROVE Slot(i) \in Slots
  BY <1>1 DEF BufferTypes, Slots
<1>3. ASSUME NEW i \in Slots PROVE Behind(Slot(i)) = i
  <2>1. CASE head + i < capacity
    BY <1>1, <2>1 DEF BufferTypes, Slots, Behind
  <2>2. CASE ~(head + i < capacity)
    BY <1>1, <2>2 DEF BufferTypes, Slots, Behind
  <2>. QED BY <2>1, <2>2
<1>4. ASSUME NEW k \in Slots PROVE Behind(k) \in Slots /\ Slot(Behind(k)) = k
  <2>1. Behind(k) \in Slots /\ Behind(k) \in 0..capacity
    BY DEF BufferTypes, Slots, Behind
  <2>2. Slot(Behind(k)) = k
    BY <1>1, <2>1 DEF BufferTypes, Slots, Behind
  <2>. QED BY <2>1, <2>2
<1>. QED BY <1>1, <1>2, <1>3, <1>4

\* Counted from the head or not, the same slots hold items.
LEMMA WindowIsWindow == BufferInv => WindowHolds
<1> SUFFICES ASSUME BufferInv, NEW k \in Slots
             PROVE  buffer[k] # Undefined <=> \E i \in 0..(size - 1) : k = Slot(i)
  BY DEF WindowHolds, Slots
<1>1. BufferTypes /\ 0..(size - 1) \subseteq Slots /\ size \in Nat
  BY DEF BufferInv, BufferTypes, Slots
<1>2. Behind(k) \in Slots /\ Slot(Behind(k)) = k
  BY <1>1, SlotFacts
<1>3. buffer[k] # Undefined <=> Behind(k) < size
  BY <1>2 DEF BufferInv, WindowOK
<1>4. \A i \in 0..(size - 1) : Behind(Slot(i)) = i /\ i < size
  BY <1>1, SlotFacts
<1>5. Behind(k) < size => Behind(k) \in 0..(size - 1)
  BY <1>1, <1>2 DEF Slots
<1>. QED BY <1>2, <1>3, <1>4, <1>5
-----------------------------------------------------------------------------
(* What the calls leave in the slots, counted from the head. *)

\* The new buffer is empty.
LEMMA BufferInit == QueueInit => BufferInv
<1> SUFFICES ASSUME QueueInit PROVE BufferInv
  OBVIOUS
<1>1. BufferTypes
  BY QueueAssumption DEF QueueInit, BufferTypes, Slots
<1>2. TailFollows
  BY <1>1, SlotFacts DEF QueueInit, TailFollows, BufferTypes, Slots
<1>3. \A i \in Slots : Slot(i) \in Slots /\ ~(i < size)
  BY <1>1, SlotFacts DEF BufferTypes, Slots, QueueInit
<1>4. WindowOK
  BY <1>3 DEF QueueInit, WindowOK, Slots
<1>. QED BY <1>1, <1>2, <1>4 DEF BufferInv

\* push leaves what is there and puts the items behind it, whether the buffer
\* grows or not.
LEMMA PushedSlots ==
    ASSUME BufferInv, NEW n \in Nat \ {0}, NEW items \in [1..n -> Items], Push(items)
    PROVE  /\ Len(items) = n /\ items \in Seq(Items) /\ size' = size + n
           /\ BufferTypes' /\ TailFollows'
           /\ \A i \in Slots' : buffer'[Slot(i)'] =
                 IF i < size THEN buffer[Slot(i)]
                 ELSE IF i < size + n THEN items[i - size + 1] ELSE Undefined
<1>1. Len(items) = n /\ items \in Seq(Items)
  BY SeqDef
<1>2. size' = size + n
  BY <1>1 DEF Push
<1>3. BufferTypes /\ size \in Nat /\ size <= capacity /\ capacity \in Nat \ {0}
  BY DEF BufferInv, BufferTypes
<1>4. CASE Fits(size + n)
  <2>1. /\ buffer' = Written(buffer, capacity, tail, items)
        /\ tail' = (tail + n) % capacity
        /\ capacity' = capacity /\ head' = head
    BY <1>1, <1>4 DEF Push
  <2>2. size + n <= capacity
    BY <1>4 DEF Fits
  <2>3. \A i \in 0..capacity : Slot(i)' = Slot(i)
    BY <2>1 DEF Slot
  <2>4. TailFollows'
    <3>1. size \in 0..capacity /\ size + n \in 0..capacity /\ n \in 0..capacity
      BY <1>3, <2>2
    <3>2. /\ tail = IF head + size < capacity THEN head + size ELSE head + size - capacity
          /\ Slot(size + n) = IF head + (size + n) < capacity THEN head + (size + n)
                                                             ELSE head + (size + n) - capacity
      BY <1>3, <3>1, SlotFacts DEF BufferInv, TailFollows
    <3>3. head \in 0..(capacity - 1)
      BY <1>3 DEF BufferTypes, Slots
    <3>4. tail \in 0..capacity /\ tail + n < 2 * capacity
      BY <1>3, <3>1, <3>2, <3>3
    <3>5. /\ tail + n < capacity => (tail + n) % capacity = tail + n
          /\ ~(tail + n < capacity) => (tail + n) % capacity = tail + n - capacity
      BY <1>3, <3>1, <3>4, ModWrap
    <3>6. (tail + n) % capacity = Slot(size + n)
      <4>. DEFINE r == (tail + n) % capacity
      <4>1. /\ tail + n < capacity => r = tail + n
            /\ ~(tail + n < capacity) => r = tail + n - capacity
        BY <3>5
      <4>. HIDE DEF r
      <4>2. r = Slot(size + n)
        BY <4>1, <1>3, <2>2, <3>1, <3>2, <3>3
      <4>. QED BY <4>2 DEF r
    <3>. QED BY <3>6, <1>2, <2>1, <2>3, <3>1 DEF TailFollows
  <2>5. ASSUME NEW i \in Slots
        PROVE  buffer'[Slot(i)] = IF i < size THEN buffer[Slot(i)]
                 ELSE IF i < size + n THEN items[i - size + 1] ELSE Undefined
    <3>1. /\ head \in 0..(capacity - 1) /\ i \in 0..(capacity - 1)
          /\ size \in 0..(capacity - 1)
      BY <1>3, <2>2 DEF BufferTypes, Slots
    <3>. DEFINE k == Slot(i)
    <3>2. /\ tail = IF head + size < capacity THEN head + size ELSE head + size - capacity
          /\ k = IF head + i < capacity THEN head + i ELSE head + i - capacity
      BY <1>3, <3>1, SlotFacts DEF BufferInv, TailFollows
    <3>3. k \in 0..(capacity - 1)
      BY <3>1, <3>2, <1>3
    <3>4. buffer[k] # Undefined <=> i < size
      BY DEF BufferInv, WindowOK
    <3>. HIDE DEF k
    <3>. DEFINE d == IF k < tail THEN k + capacity - tail ELSE k - tail
    <3>5. d = IF i < size THEN i + capacity - size ELSE i - size
      BY <3>1, <3>2, <1>3
    <3>6. buffer'[k] = IF d < n THEN items[d + 1] ELSE buffer[k]
      BY <2>1, <3>3, <1>1 DEF Written
    <3>. HIDE DEF d
    <3>7. d < n <=> size <= i /\ i < size + n
      BY <3>1, <3>5, <2>2, <1>3
    <3>8. CASE i < size
      BY <3>1, <3>6, <3>7, <3>8 DEF k
    <3>9. CASE size <= i /\ i < size + n
      BY <3>1, <3>5, <3>6, <3>7, <3>9 DEF k
    <3>10. CASE size + n <= i
      BY <3>1, <3>4, <3>6, <3>7, <3>10 DEF k
    <3>. QED BY <3>1, <3>8, <3>9, <3>10
  <2>6. BufferTypes'
    <3>1. tail \in 0..(capacity - 1)
      BY <1>3, SlotFacts DEF BufferInv, TailFollows, Slots
    <3>2. ASSUME NEW k \in Slots
          PROVE  buffer'[k] \in Items \cup {Undefined}
      <4>. DEFINE d == IF k < tail THEN k + capacity - tail ELSE k - tail
      <4>1. buffer'[k] = IF d < n THEN items[d + 1] ELSE buffer[k]
        BY <2>1, <1>1 DEF Written, Slots
      <4>2. d \in Nat
        BY <3>1, <1>3 DEF Slots
      <4>. HIDE DEF d
      <4>3. d < n => items[d + 1] \in Items
        BY <4>2
      <4>4. buffer[k] \in Items \cup {Undefined}
        BY <1>3 DEF BufferTypes
      <4>. QED BY <4>1, <4>3, <4>4
    <3>3. buffer' = [k \in Slots |-> buffer'[k]]
      BY <2>1 DEF Written, Slots
    <3>4. buffer' \in [Slots -> Items \cup {Undefined}]
      BY <3>2, <3>3
    <3>5. head' \in Slots /\ Slots' = Slots
      BY <1>3, <2>1 DEF BufferTypes, Slots
    <3>6. size' \in 0..capacity'
      BY <1>2, <1>3, <2>1, <2>2
    <3>. QED BY <1>3, <2>1, <3>4, <3>5, <3>6 DEF BufferTypes
  <2>. QED BY <1>1, <1>2, <2>1, <2>3, <2>4, <2>5, <2>6, <1>3 DEF Slots
<1>5. CASE ~Fits(size + n)
  <2>. DEFINE c == Grown(size + n)
              b == Resized(head, size, c)
  <2>1. /\ capacity' = c /\ head' = 0
        /\ buffer' = Written(b, c, size, items)
        /\ tail' = (size + n) % c
    BY <1>1, <1>5 DEF Push
  <2>2. c \in Nat \ {0} /\ size + n <= c /\ size + n \in 0..c
    <3>1. capacity < size + n /\ size + n \in Nat
      BY <1>3, <1>5 DEF Fits
    <3>2. c \in Nat \ {0} /\ size + n <= c
      BY <1>3, <3>1, GrownFacts
    <3>. QED BY <3>1, <3>2
  <2>3. \A i \in 0..(c - 1) : b[i] = IF i < size THEN buffer[Slot(i)] ELSE Undefined
    BY DEF Resized, Slot
  <2>. HIDE DEF b, c
  <2>4. Slots' = 0..(c - 1)
    BY <2>1 DEF Slots
  <2>5. \A i \in 0..(c - 1) : Slot(i)' = i
    BY <2>1, <2>2, SlotFromZero DEF Slot
  <2>6. TailFollows'
    BY <1>2, <1>3, <2>1, <2>2 DEF TailFollows, Slot
  <2>7. ASSUME NEW i \in 0..(c - 1)
        PROVE  buffer'[i] = IF i < size THEN buffer[Slot(i)]
                 ELSE IF i < size + n THEN items[i - size + 1] ELSE Undefined
    <3>. DEFINE d == IF i < size THEN i + c - size ELSE i - size
    <3>1. buffer'[i] = IF d < n THEN items[d + 1] ELSE b[i]
      BY <2>1, <1>1 DEF Written
    <3>2. d < n <=> size <= i /\ i < size + n
      BY <1>3, <2>2
    <3>3. size <= i => d = i - size
      BY <1>3, <2>2
    <3>. HIDE DEF d
    <3>. QED BY <3>1, <3>2, <3>3, <2>3, <1>3, <2>2
  <2>8. BufferTypes'
    <3>1. ASSUME NEW i \in 0..(c - 1)
          PROVE  buffer'[i] \in Items \cup {Undefined}
      <4>1. i < size => buffer[Slot(i)] \in Items \cup {Undefined}
        <5>1. CASE i < size
          <6>1. i \in 0..capacity
            BY <1>3, <5>1, <2>2
          <6>2. Slot(i) \in Slots
            BY <1>3, <6>1, SlotFacts
          <6>. QED BY <6>2, <1>3 DEF BufferTypes
        <5>. QED BY <5>1
      <4>2. ~(i < size) /\ i < size + n => i - size + 1 \in 1..n
        BY <1>3, <2>2
      <4>. QED BY <4>1, <4>2, <2>7
    <3>2. buffer' = [i \in 0..(c - 1) |-> buffer'[i]]
      BY <2>1 DEF Written
    <3>3. buffer' \in [0..(c - 1) -> Items \cup {Undefined}]
      BY <3>1, <3>2
    <3>. QED BY <1>2, <2>1, <2>2, <2>4, <3>3 DEF BufferTypes
  <2>. QED BY <1>1, <1>2, <2>4, <2>5, <2>6, <2>7, <2>8
<1>. QED BY <1>4, <1>5

\* pop returns the item at the head and moves the others up, whether the buffer
\* shrinks or not.
LEMMA PoppedSlots ==
    ASSUME BufferInv, Pop \/ PopAndShrink
    PROVE  /\ size > 0 /\ returned' = buffer[head] /\ size' = size - 1
           /\ BufferTypes' /\ TailFollows'
           /\ \A i \in Slots' : buffer'[Slot(i)'] =
                 IF i < size - 1 THEN buffer[Slot(i + 1)] ELSE Undefined
<1>1. size > 0 /\ returned' = buffer[head] /\ size' = size - 1
  BY DEF Pop, PopAndShrink
<1>2. /\ BufferTypes /\ size \in Nat \ {0} /\ size <= capacity /\ capacity \in Nat \ {0}
      /\ head \in 0..(capacity - 1)
  BY <1>1 DEF BufferInv, BufferTypes, Slots
<1>3. CASE Pop
  <2>1. /\ buffer' = [buffer EXCEPT ![head] = Undefined]
        /\ head' = (head + 1) % capacity
        /\ capacity' = capacity /\ tail' = tail
    BY <1>3 DEF Pop, Cleared
  <2>2. head' = IF head + 1 < capacity THEN head + 1 ELSE head + 1 - capacity
    <3>1. (head + 1) % capacity = IF head + 1 < capacity THEN head + 1 ELSE head + 1 - capacity
      <4>1. 1 \in 0..capacity /\ head \in 0..capacity /\ head + 1 < 2 * capacity
        BY <1>2
      <4>. QED BY <4>1, <1>2, ModWrap
    <3>. QED BY <2>1, <3>1, Zenon
  <2>3. BufferTypes'
    BY <1>1, <1>2, <2>1, <2>2 DEF BufferTypes, Slots
  <2>4. ASSUME NEW i \in 0..(capacity - 1)
        PROVE  /\ (head' + i) % capacity' = Slot(i + 1)
               /\ Slot(i + 1) = IF head + (i + 1) < capacity THEN head + (i + 1)
                                                            ELSE head + (i + 1) - capacity
    <3>1. i \in 0..capacity /\ i + 1 \in 0..capacity
      BY <1>2
    <3>. DEFINE h == head'
    <3>2. h = IF head + 1 < capacity THEN head + 1 ELSE head + 1 - capacity
      BY <2>2
    <3>3. (head' + i) % capacity' = (h + i) % capacity
      BY <2>1
    <3>. HIDE DEF h
    <3>4. h \in 0..capacity /\ h + i < 2 * capacity
      BY <1>2, <3>2
    <3>5. /\ h + i < capacity => (h + i) % capacity = h + i
          /\ ~(h + i < capacity) => (h + i) % capacity = h + i - capacity
      BY <1>2, <3>1, <3>4, ModWrap
    <3>. DEFINE r == (h + i) % capacity
    <3>6. /\ h + i < capacity => r = h + i
          /\ ~(h + i < capacity) => r = h + i - capacity
      BY <3>5
    <3>. HIDE DEF r
    <3>7. Slot(i + 1) = IF head + (i + 1) < capacity THEN head + (i + 1)
                                                    ELSE head + (i + 1) - capacity
      BY <1>2, <3>1, SlotFacts
    <3>8. r = Slot(i + 1)
      BY <1>2, <3>2, <3>6, <3>7
    <3>. QED BY <3>3, <3>7, <3>8 DEF r
  <2>5. TailFollows'
    <3>1. size - 1 \in 0..(capacity - 1) /\ (size - 1) + 1 = size
      BY <1>2
    <3>2. (head' + (size - 1)) % capacity' = Slot((size - 1) + 1)
      BY <2>4, <3>1
    <3>3. tail' = Slot(size)
      BY <2>1 DEF BufferInv, TailFollows
    <3>4. tail' = (head' + size') % capacity'
      BY <1>1, <3>1, <3>2, <3>3, Zenon
    <3>. QED BY <3>4, Zenon DEF TailFollows, Slot
  <2>6. ASSUME NEW i \in 0..(capacity - 1)
        PROVE  buffer'[Slot(i)'] = IF i < size - 1 THEN buffer[Slot(i + 1)] ELSE Undefined
    <3>. DEFINE k == Slot(i + 1)
    <3>1. k = IF head + (i + 1) < capacity THEN head + (i + 1) ELSE head + (i + 1) - capacity
      BY <2>4
    <3>2. i + 1 < capacity => (buffer[k] # Undefined <=> i + 1 < size)
      BY <1>2 DEF BufferInv, WindowOK, Slots
    <3>3. Slot(i)' = k
      BY <2>4, Zenon DEF Slot
    <3>. HIDE DEF k
    <3>4. k \in Slots
      BY <1>2, <3>1 DEF Slots
    <3>5. buffer'[k] = IF k = head THEN Undefined ELSE buffer[k]
      BY <1>2, <2>1, <3>4 DEF BufferTypes
    <3>6. k = head <=> i + 1 = capacity
      BY <1>2, <3>1
    <3>7. buffer'[k] = IF i < size - 1 THEN buffer[k] ELSE Undefined
      BY <1>2, <3>2, <3>5, <3>6
    <3>. QED BY <3>3, <3>7 DEF k
  <2>. QED BY <1>1, <2>1, <2>3, <2>5, <2>6 DEF Slots
<1>4. CASE PopAndShrink
  <2>. DEFINE c == CeilHalf(capacity)
  <2>1. /\ capacity' = c /\ head' = 0 /\ tail' = size - 1
        /\ buffer' = Resized(head + 1, size - 1, c)
    BY <1>4 DEF PopAndShrink
  <2>2. c \in Nat \ {0} /\ size - 1 \in 0..(c - 1)
    <3>1. 8 * (size - 1) < capacity
      BY <1>4 DEF PopAndShrink, ShouldShrink
    <3>2. c \in Nat \ {0} /\ capacity <= 2 * c
      BY <1>2, HalfFacts
    <3>. QED BY <1>2, <3>1, <3>2
  <2>3. ASSUME NEW i \in 0..(c - 1)
        PROVE  buffer'[i] = IF i < size - 1 THEN buffer[Slot(i + 1)] ELSE Undefined
    <3>1. (head + 1) + i = head + (i + 1)
      BY <1>2, <2>2
    <3>. QED BY <2>1, <3>1, Zenon DEF Resized, Slot
  <2>. HIDE DEF c
  <2>4. Slots' = 0..(c - 1)
    BY <2>1 DEF Slots
  <2>5. \A i \in 0..(c - 1) : Slot(i)' = i
    BY <2>1, <2>2, SlotFromZero DEF Slot
  <2>6. TailFollows'
    BY <1>1, <2>1, <2>2, <2>5 DEF TailFollows, Slot
  <2>7. BufferTypes'
    <3>1. ASSUME NEW i \in 0..(c - 1)
          PROVE  buffer'[i] \in Items \cup {Undefined}
      <4>1. CASE i < size - 1
        <5>1. i + 1 \in 0..capacity
          BY <1>2, <4>1, <2>2
        <5>2. Slot(i + 1) \in Slots
          BY <1>2, <5>1, SlotFacts
        <5>. QED BY <4>1, <5>2, <1>2, <2>3 DEF BufferTypes
      <4>2. CASE ~(i < size - 1)
        BY <4>2, <2>3
      <4>. QED BY <4>1, <4>2
    <3>2. buffer' = [i \in 0..(c - 1) |-> buffer'[i]]
      BY <2>1 DEF Resized
    <3>3. buffer' \in [0..(c - 1) -> Items \cup {Undefined}]
      BY <3>1, <3>2
    <3>. QED BY <1>1, <2>1, <2>2, <2>4, <3>3 DEF BufferTypes
  <2>. QED BY <1>1, <2>3, <2>4, <2>5, <2>6, <2>7
<1>. QED BY <1>3, <1>4
-----------------------------------------------------------------------------
(* The invariant, and the queue as a sequence. *)

\* What the head of the queue is: its first item, or nothing.
LEMMA ContentsFacts ==
    ASSUME BufferInv
    PROVE  /\ Contents \in Seq(Items) /\ Len(Contents) = size
           /\ \A i \in 1..size : Contents[i] = buffer[Slot(i - 1)]
           /\ buffer[head] = IF Contents = <<>> THEN Undefined ELSE Head(Contents)
           /\ Contents = <<>> <=> size = 0
<1>1. BufferTypes /\ size \in Nat /\ size <= capacity /\ capacity \in Nat \ {0}
  BY DEF BufferInv, BufferTypes
<1>2. ASSUME NEW i \in 1..size PROVE buffer[Slot(i - 1)] \in Items
  <2>1. i - 1 \in Slots /\ i - 1 < size
    BY <1>1 DEF Slots
  <2>2. Slot(i - 1) \in Slots
    <3>1. i - 1 \in 0..capacity
      BY <1>1
    <3>. QED BY <1>1, <3>1, SlotFacts
  <2>3. buffer[Slot(i - 1)] \in Items \cup {Undefined}
    BY <1>1, <2>2 DEF BufferTypes
  <2>. QED BY <2>1, <2>3 DEF BufferInv, WindowOK
<1>3. Contents \in [1..size -> Items]
  BY <1>2 DEF Contents
<1>4. Contents \in Seq(Items) /\ Len(Contents) = size
  BY <1>1, <1>3, SeqDef
<1>5. Contents = <<>> <=> size = 0
  BY <1>1, <1>4, EmptySeq
<1>6. Slot(0) = head /\ 0 \in Slots
  <2>1. head \in 0..(capacity - 1) /\ 0 \in 0..capacity
    BY <1>1 DEF BufferTypes, Slots
  <2>2. Slot(0) = IF head + 0 < capacity THEN head + 0 ELSE head + 0 - capacity
    BY <1>1, <2>1, SlotFacts
  <2>. QED BY <1>1, <2>1, <2>2 DEF Slots
<1>7. ASSUME size = 0
      PROVE  buffer[head] = Undefined
  <2>1. buffer[Slot(0)] # Undefined <=> 0 < size
    BY <1>6 DEF BufferInv, WindowOK
  <2>. QED BY <1>6, <1>7, <2>1
<1>8. ASSUME size # 0
      PROVE  buffer[head] = Head(Contents)
  <2>1. 1 \in 1..size /\ Contents[1] = buffer[head]
    BY <1>1, <1>6, <1>8 DEF Contents
  <2>2. Head(Contents) = Contents[1]
    BY <1>4, <1>5, <1>8
  <2>. QED BY <2>1, <2>2
<1>9. \A i \in 1..size : Contents[i] = buffer[Slot(i - 1)]
  BY DEF Contents
<1>. QED BY <1>4, <1>5, <1>7, <1>8, <1>9

\* A push leaves the queue in order and appends its items.
LEMMA PushOK ==
    ASSUME BufferInv, NEW n \in Nat \ {0}, NEW items \in [1..n -> Items], Push(items)
    PROVE  BufferInv' /\ Contents' = Contents \o items
<1>1. BufferTypes /\ size \in Nat /\ size <= capacity /\ capacity \in Nat \ {0}
  BY DEF BufferInv, BufferTypes
<1>2. Len(items) = n /\ items \in Seq(Items) /\ size' = size + n /\ BufferTypes' /\ TailFollows'
  BY PushedSlots
<1>3. ASSUME NEW i \in Slots'
      PROVE  buffer'[Slot(i)'] = IF i < size THEN buffer[Slot(i)]
                ELSE IF i < size + n THEN items[i - size + 1] ELSE Undefined
  BY PushedSlots
<1>4. WindowOK'
  <2>1. ASSUME NEW i \in Slots' PROVE buffer'[Slot(i)'] # Undefined <=> i < size'
    <3>1. i \in Nat
      BY <1>2 DEF BufferTypes, Slots
    <3>2. CASE i < size
      <4>1. i \in Slots
        BY <3>1, <3>2, <1>1 DEF Slots
      <4>2. buffer[Slot(i)] # Undefined
        BY <4>1, <3>2 DEF BufferInv, WindowOK
      <4>. QED BY <1>1, <1>2, <1>3, <3>1, <3>2, <4>2
    <3>3. CASE size <= i /\ i < size + n
      <4>1. i - size + 1 \in 1..n
        BY <1>1, <3>1, <3>3
      <4>2. items[i - size + 1] # Undefined
        BY <4>1, QueueAssumption
      <4>. QED BY <1>1, <1>2, <1>3, <3>1, <3>3, <4>2
    <3>4. CASE size + n <= i
      BY <1>1, <1>2, <1>3, <3>1, <3>4
    <3>. QED BY <1>1, <3>1, <3>2, <3>3, <3>4
  <2>. QED BY <2>1, Zenon DEF WindowOK, Slot
<1>5. BufferInv'
  BY <1>2, <1>4 DEF BufferInv
<1>6. Contents' = Contents \o items
  <2>1. Contents \in Seq(Items) /\ Len(Contents) = size
    BY ContentsFacts
  <2>2. /\ Contents \o items \in Seq(Items) /\ Len(Contents \o items) = size + n
        /\ \A i \in 1..(size + n) : (Contents \o items)[i] =
              IF i <= size THEN Contents[i] ELSE items[i - size]
    BY <2>1, <1>2, ConcatProperties, ZenonT(60)
  <2>3. Contents' = [i \in 1..(size + n) |-> buffer'[Slot(i - 1)']]
    BY <1>2 DEF Contents, Slot
  <2>4. ASSUME NEW i \in 1..(size + n)
        PROVE  buffer'[Slot(i - 1)'] = (Contents \o items)[i]
    <3>1. i - 1 \in Slots' /\ (i - 1) - size + 1 = i - size
      <4>1. size + n <= capacity' /\ capacity' \in Nat /\ size + n \in Nat
        BY <1>1, <1>2 DEF BufferTypes
      <4>2. i - 1 \in 0..(capacity' - 1)
        BY <1>1, <4>1, OneBefore
      <4>. QED BY <1>1, <4>2 DEF Slots
    <3>2. buffer'[Slot(i - 1)'] = IF i - 1 < size THEN buffer[Slot(i - 1)]
              ELSE IF i - 1 < size + n THEN items[(i - 1) - size + 1] ELSE Undefined
      BY <1>3, <3>1
    <3>3. i - 1 < size => i \in 1..size
      BY <1>1
    <3>4. i - 1 < size => buffer[Slot(i - 1)] = Contents[i]
      BY <3>3, ContentsFacts
    <3>5. (Contents \o items)[i] = IF i <= size THEN Contents[i] ELSE items[i - size]
      BY <2>2
    <3>6. (i - 1 < size <=> i <= size) /\ i - 1 < size + n
      BY <1>1
    <3>. QED BY <3>1, <3>2, <3>4, <3>5, <3>6
  <2>5. Contents \o items \in [1..(size + n) -> Items]
    BY <2>2, LenProperties
  <2>. QED BY <2>3, <2>4, <2>5
<1>. QED BY <1>5, <1>6

\* A pop leaves the queue in order, without its first item.
LEMMA PopOK ==
    ASSUME BufferInv, Pop \/ PopAndShrink
    PROVE  /\ BufferInv' /\ Contents # <<>>
           /\ Contents' = Tail(Contents) /\ returned' = Head(Contents)
<1>1. /\ BufferTypes /\ size \in Nat \ {0} /\ size <= capacity /\ capacity \in Nat \ {0}
      /\ returned' = buffer[head] /\ size' = size - 1 /\ BufferTypes' /\ TailFollows'
  BY PoppedSlots DEF BufferInv, BufferTypes
<1>2. ASSUME NEW i \in Slots'
      PROVE  buffer'[Slot(i)'] = IF i < size - 1 THEN buffer[Slot(i + 1)] ELSE Undefined
  BY PoppedSlots
<1>3. WindowOK'
  <2>1. ASSUME NEW i \in Slots' PROVE buffer'[Slot(i)'] # Undefined <=> i < size'
    <3>1. i \in Nat
      BY <1>1 DEF BufferTypes, Slots
    <3>2. CASE i < size - 1
      <4>1. i + 1 \in Slots /\ i + 1 < size
        BY <3>1, <3>2, <1>1 DEF Slots
      <4>2. buffer[Slot(i + 1)] # Undefined
        BY <4>1 DEF BufferInv, WindowOK
      <4>. QED BY <1>1, <1>2, <3>2, <4>2
    <3>3. CASE ~(i < size - 1)
      BY <1>1, <1>2, <3>3
    <3>. QED BY <3>2, <3>3
  <2>. QED BY <2>1, Zenon DEF WindowOK, Slot
<1>4. BufferInv'
  BY <1>1, <1>3 DEF BufferInv
<1>5. Contents \in Seq(Items) /\ Len(Contents) = size /\ Contents # <<>>
  BY <1>1, ContentsFacts
<1>6. Contents' = Tail(Contents)
  <2>1. /\ Tail(Contents) \in Seq(Items) /\ Len(Tail(Contents)) = size - 1
        /\ \A i \in 1..(size - 1) : Tail(Contents)[i] = Contents[i + 1]
    BY <1>5, HeadTailProperties
  <2>2. Contents' = [i \in 1..(size - 1) |-> buffer'[Slot(i - 1)']]
    BY <1>1 DEF Contents, Slot
  <2>3. ASSUME NEW i \in 1..(size - 1)
        PROVE  buffer'[Slot(i - 1)'] = Tail(Contents)[i]
    <3>1. /\ i - 1 \in Slots' /\ (i - 1) + 1 = i /\ (i + 1) - 1 = i
          /\ i - 1 < size - 1 /\ i + 1 \in 1..size
      <4>1. size - 1 <= capacity' /\ capacity' \in Nat /\ size - 1 \in Nat
        BY <1>1 DEF BufferTypes
      <4>2. i - 1 \in 0..(capacity' - 1)
        BY <1>1, <4>1, OneBefore
      <4>. QED BY <1>1, <4>2 DEF Slots
    <3>2. buffer'[Slot(i - 1)'] = buffer[Slot((i - 1) + 1)]
      BY <1>2, <3>1
    <3>3. Contents[i + 1] = buffer[Slot((i + 1) - 1)]
      BY <3>1, ContentsFacts
    <3>. QED BY <2>1, <3>1, <3>2, <3>3
  <2>4. Tail(Contents) \in [1..(size - 1) -> Items]
    BY <2>1, LenProperties
  <2>. QED BY <2>2, <2>3, <2>4
<1>7. returned' = Head(Contents)
  BY <1>1, <1>5, ContentsFacts
<1>. QED BY <1>4, <1>5, <1>6, <1>7

\* A step of the buffer keeps the invariant and is a step of the queue.
LEMMA StepOK ==
    ASSUME BufferInv, [QueueNext]_queueVars
    PROVE  BufferInv' /\ [AsFifo!FifoNext]_(AsFifo!vars)
<1>1. ASSUME NEW n \in 1..MaxPush, NEW items \in [1..n -> Items], Push(items)
      PROVE  BufferInv' /\ AsFifo!FifoNext
  <2>1. n \in Nat \ {0}
    BY QueueAssumption
  <2>2. BufferInv' /\ Contents' = Contents \o items
    BY <1>1, <2>1, PushOK
  <2>3. returned' = Undefined
    BY <1>1 DEF Push
  <2>. QED BY <2>2, <2>3, Zenon DEF AsFifo!FifoNext, AsFifo!Push, Contents
<1>2. ASSUME Pop \/ PopAndShrink
      PROVE  BufferInv' /\ AsFifo!FifoNext
  BY <1>2, PopOK, Zenon DEF AsFifo!FifoNext, AsFifo!Pop, Contents
<1>3. ASSUME UNCHANGED <<buffer, capacity, head, tail, size>>
      PROVE  BufferInv' /\ Contents' = Contents
  BY <1>3 DEF BufferInv, BufferTypes, TailFollows, WindowOK, Slots, Slot, Contents
<1>4. CASE PopEmpty
  <2>1. Contents = <<>>
    BY <1>4, ContentsFacts DEF PopEmpty
  <2>2. returned' = Undefined /\ BufferInv' /\ Contents' = Contents
    BY <1>3, <1>4 DEF PopEmpty
  <2>. QED BY <2>1, <2>2, Zenon DEF AsFifo!FifoNext, AsFifo!Pop, Contents
<1>5. CASE Peek
  <2>1. returned' = IF Contents = <<>> THEN Undefined ELSE Head(Contents)
    BY <1>5, ContentsFacts DEF Peek
  <2>2. BufferInv' /\ Contents' = Contents
    BY <1>3, <1>5 DEF Peek
  <2>. QED BY <2>1, <2>2, Zenon DEF AsFifo!FifoNext, AsFifo!Peek, Contents
<1>6. CASE UNCHANGED queueVars
  <2>1. BufferInv' /\ Contents' = Contents /\ returned' = returned
    BY <1>3, <1>6 DEF queueVars
  <2>. QED BY <2>1, Zenon DEF AsFifo!vars, Contents
<1>. QED BY <1>1, <1>2, <1>4, <1>5, <1>6 DEF QueueNext
-----------------------------------------------------------------------------
\* The invariant holds from the start and at every call.
LEMMA BufferInductive == QueueSpec => []BufferInv
BY BufferInit, StepOK, PTL DEF QueueSpec

\* However the buffer grows, wraps around and shrinks, exactly the slots between
\* head and tail hold items: pop and resize let go of what was taken out.
THEOREM WindowKept == QueueSpec => []WindowHolds
BY WindowIsWindow, BufferInductive, PTL

\* The calls of class Queue are those of a first-in first-out queue: push
\* appends its items, pop takes the first, peek shows it, and both give
\* `undefined' when there is none.
THEOREM IsFifo == QueueSpec => ImplementsFifo
<1>1. QueueInit => AsFifo!FifoInit
  <2>. SUFFICES ASSUME QueueInit PROVE Contents = <<>> /\ returned = Undefined
    BY Zenon DEF AsFifo!FifoInit, Contents
  <2>. QED BY BufferInit, ContentsFacts DEF QueueInit
<1>. QED BY <1>1, StepOK, BufferInductive, PTL DEF QueueSpec, ImplementsFifo, AsFifo!FifoSpec
=============================================================================
