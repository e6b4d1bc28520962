---------------------------- MODULE Orchestrator ----------------------------
(***************************************************************************)
(* The processing loop of one chain (packages/data-flow, class             *)
(* Orchestrator) with the code it awaits: the retry handler, the data      *)
(* loader and its transaction, the registry that stores the last processed *)
(* event, and the registry of strategies.                                  *)
(*                                                                         *)
(* An event is its position in Log, the chain's events ordered by block    *)
(* and log index; 0 stands for "no event" and for the pointer (0, 0) of a  *)
(* chain that has no row in events_registry.  One action per stretch of    *)
(* code between two awaits whose effects other parties can see; `pc' names *)
(* the await the loop is at.                                               *)
(***************************************************************************)
EXTENDS Naturals, Sequences

CONSTANTS
    Pools,        \* pools; each has one strategy contract
    Log,          \* the chain's events, in (block, log index) order
    Handleable,   \* pools whose strategy id has a handler in this build
    FetchLimit,   \* events per batch
    MaxAttempts,  \* ExponentialBackoff.maxAttempts
    MaxRestarts   \* bound: how often the service is started again

Kinds == {"PoolCreated", "Strategy", "TimestampsUpdated", "Unsupported", "Other"}

ASSUME LogAssumption ==
    Log \in Seq([kind : Kinds, pool : Pools, block : Nat])

ASSUME LogOrdered ==
    \A d, e \in 1..Len(Log) : d < e => Log[d].block <= Log[e].block

ASSUME ParameterAssumption ==
    /\ Handleable \subseteq Pools
    /\ FetchLimit \in Nat \ {0}
    /\ MaxAttempts \in Nat
    /\ MaxRestarts \in Nat

Events == 1..Len(Log)
None   == 0

Errors == {"none", "retriable", "fatal", "unsupported", "roundNotFound", "aborted"}

Labels == {"loop", "pop", "sleep", "attempt", "apply", "savePointer", "commit",
           "backoff", "catch", "report", "stopped", "dead", "down"}

VARIABLES
    indexed,      \* events the indexer has published so far
    pointer,      \* row of the chain in events_registry
    applied,      \* events whose changesets are committed, in commit order
    strategies,   \* pools whose strategy id is in the strategies table
    pc,           \* where the loop is
    queue,        \* eventsQueue
    context,      \* eventsByBlockContext, as the set of events it holds
    event,        \* the local variable `event' of run()
    attempts,     \* attemptCount of RetryHandler.execute
    err,          \* the error on its way to the catch block of run()
    aborted,      \* the abort signal of the service
    restarts,
    alerts,       \* history: events reported to the operators as failed
    interrupted   \* history: events in hand when the process went down

dbVars   == <<pointer, applied, strategies>>
loopVars == <<pc, queue, context, event, attempts, err>>
envVars  == <<indexed, aborted, restarts>>
vars     == <<dbVars, loopVars, envVars, alerts, interrupted>>

-----------------------------------------------------------------------------
(* What the events need. *)

AppliedEvents == {applied[i] : i \in DOMAIN applied}

IsPoolCreated(e)   == Log[e].kind = "PoolCreated"
IsStrategyEvent(e) == Log[e].kind \in {"Strategy", "TimestampsUpdated"}

\* requiresStrategyId
NeedsStrategyId(e) == IsPoolCreated(e) \/ IsStrategyEvent(e)

\* handleEvent returns undefined: only the pointer is written.
Unhandled(e) == IsStrategyEvent(e) /\ Log[e].pool \notin Handleable

RoundExists(p) ==
    \E e \in AppliedEvents : IsPoolCreated(e) /\ Log[e].pool = p

\* The error processEvent throws for reasons found in the event and the tables.
Refusal(e) ==
    IF Log[e].kind = "Unsupported" THEN "unsupported"
    ELSE IF IsStrategyEvent(e) /\ ~Unhandled(e) /\ ~RoundExists(Log[e].pool)
         THEN "roundNotFound"
         ELSE "none"

\* shouldIgnoreTimestampsUpdatedError, from the events of the current batch
ShouldIgnore(e) ==
    /\ err = "roundNotFound"
    /\ Log[e].kind = "TimestampsUpdated"
    /\ \E f \in context :
          f > e /\ Log[f].block = Log[e].block /\ IsPoolCreated(f)

-----------------------------------------------------------------------------
Init ==
    /\ indexed = 0
    /\ pointer = 0
    /\ applied = <<>>
    /\ strategies = {}
    /\ pc = "loop"
    /\ queue = <<>>
    /\ context = {}
    /\ event = None
    /\ attempts = 0
    /\ err = "none"
    /\ aborted = FALSE
    /\ restarts = 0
    /\ alerts = {}
    /\ interrupted = {}

(* The indexer publishes more events of the chain. *)
IndexerAdvances ==
    /\ \E n \in (indexed + 1)..Len(Log) : indexed' = n
    /\ UNCHANGED <<dbVars, loopVars, aborted, restarts, alerts, interrupted>>

(***************************************************************************)
(* The head of the loop.                                                   *)
(***************************************************************************)

MayIterate == pc = "loop" /\ ~aborted

BatchSize ==
    IF indexed <= pointer THEN 0
    ELSE IF indexed - pointer <= FetchLimit THEN indexed - pointer ELSE FetchLimit

\* Mutant: the indexer is asked for events from the pointer on, inclusive.
MutantInclusiveBatch ==
    [i \in 1..BatchSize |-> IF pointer = 0 THEN i ELSE pointer + i - 1]

\* Mutant: the batch is one event longer than what the indexer has.
MutantLongBatch == [i \in 1..(BatchSize + 1) |-> pointer + i]

\* The next batch: the events after the pointer, at most FetchLimit of them.
Batch == [i \in 1..BatchSize |-> pointer + i]

FetchBatch ==
    /\ MayIterate /\ queue = <<>>
    /\ queue' = Batch
    /\ context' = {Batch[i] : i \in DOMAIN Batch}
    /\ pc' = "pop"
    /\ UNCHANGED <<dbVars, event, attempts, err, envVars, alerts, interrupted>>

\* The pointer cannot be read, the indexer does not answer, or clearing the
\* caches or reading the metadata ids of the batch throws.
FetchFails ==
    /\ MayIterate /\ queue = <<>>
    /\ err' = "fatal"
    /\ pc' = "catch"
    /\ UNCHANGED <<dbVars, queue, context, event, attempts, envVars, alerts, interrupted>>

PopEvent ==
    /\ pc = "pop" \/ MayIterate
    /\ queue # <<>>
    /\ event' = Head(queue)
    /\ queue' = Tail(queue)
    /\ attempts' = 0
    /\ pc' = "attempt"
    /\ UNCHANGED <<dbVars, context, err, envVars, alerts, interrupted>>

NothingToPop ==
    /\ pc = "pop" /\ queue = <<>>
    /\ pc' = "sleep"
    /\ UNCHANGED <<dbVars, queue, context, event, attempts, err, envVars, alerts, interrupted>>

WakeUp ==
    /\ pc = "sleep"
    /\ pc' = "loop"
    /\ UNCHANGED <<dbVars, queue, context, event, attempts, err, envVars, alerts, interrupted>>

(***************************************************************************)
(* One attempt of the operation under RetryHandler.execute.                *)
(***************************************************************************)

\* ExponentialBackoff.shouldRetry
ShouldRetry(n) == n < MaxAttempts

\* Mutant: attempts are not counted.
MutantThrow(x) ==
    IF x = "retriable" /\ ShouldRetry(attempts + 1)
    THEN pc' = "backoff" /\ UNCHANGED <<attempts, err>>
    ELSE err' = x /\ pc' = "catch" /\ UNCHANGED attempts

\* Where an error thrown by the operation leads.
Throw(x) ==
    IF x = "retriable" /\ ShouldRetry(attempts + 1)
    THEN /\ attempts' = attempts + 1
         /\ pc' = "backoff"
         /\ UNCHANGED err
    ELSE /\ err' = x
         /\ pc' = "catch"
         /\ UNCHANGED attempts

\* The retry loop finds the signal aborted and the operation does not run.
AttemptAborted ==
    /\ pc = "attempt" /\ aborted
    /\ err' = "aborted"
    /\ pc' = "catch"
    /\ UNCHANGED <<dbVars, queue, context, event, attempts, envVars, alerts, interrupted>>

\* saveStrategyId, before the event is processed and outside the transaction
StrategySaved ==
    IF IsPoolCreated(event) THEN strategies \cup {Log[event].pool} ELSE strategies

HandleEvent ==
    /\ pc = "attempt" /\ ~aborted
    /\ strategies' = StrategySaved
    /\ IF Refusal(event) = "none"
       THEN pc' = "apply" /\ UNCHANGED <<attempts, err>>
       ELSE Throw(Refusal(event))
    /\ UNCHANGED <<pointer, applied, queue, context, event, envVars, alerts, interrupted>>

\* The strategy id is neither in the registry nor to be had from the chain.
ResolveFails ==
    /\ pc = "attempt" /\ ~aborted
    /\ NeedsStrategyId(event)
    /\ \E x \in {"retriable", "fatal"} :
          /\ x = "retriable" => Log[event].pool \notin strategies
          /\ Throw(x)
    /\ UNCHANGED <<dbVars, queue, context, event, envVars, alerts, interrupted>>

\* A provider (metadata, prices, chain) or a table read by the processor fails.
ProcessFails ==
    /\ pc = "attempt" /\ ~aborted
    /\ ~Unhandled(event)
    /\ strategies' = StrategySaved
    /\ \E x \in {"retriable", "fatal"} : Throw(x)
    /\ UNCHANGED <<pointer, applied, queue, context, event, envVars, alerts, interrupted>>

BackoffElapsed ==
    /\ pc = "backoff"
    /\ pc' = "attempt"
    /\ UNCHANGED <<dbVars, queue, context, event, attempts, err, envVars, alerts, interrupted>>

(***************************************************************************)
(* DataLoader.applyChanges: a transaction whose last changeset, the        *)
(* pointer, is written through the pool and not through the transaction.   *)
(***************************************************************************)

\* The changesets of the event, inside the transaction.
RunChangesets ==
    /\ pc = "apply"
    /\ pc' = "savePointer"
    /\ UNCHANGED <<dbVars, queue, context, event, attempts, err, envVars, alerts, interrupted>>

\* InsertProcessedEvent: visible at once, whatever the transaction does later.
SavePointer ==
    /\ pc = "savePointer"
    /\ pointer' = event
    /\ pc' = "commit"
    /\ UNCHANGED <<applied, strategies, queue, context, event, attempts, err, envVars, alerts, interrupted>>

AppliedAfterCommit ==
    IF Unhandled(event) THEN applied ELSE Append(applied, event)

\* The operation resolves; execute() looks at the signal once more.
Commit ==
    /\ pc = "commit"
    /\ applied' = AppliedAfterCommit
    /\ IF aborted
       THEN err' = "aborted" /\ pc' = "catch" /\ UNCHANGED event
       ELSE event' = None /\ pc' = "loop" /\ UNCHANGED err
    /\ UNCHANGED <<pointer, strategies, queue, context, attempts, envVars, alerts, interrupted>>

\* The database refuses a statement or the connection is lost: rolled back.
TransactionFails ==
    /\ pc \in {"apply", "savePointer", "commit"}
    /\ Throw("fatal")
    /\ UNCHANGED <<dbVars, queue, context, event, envVars, alerts, interrupted>>

\* The transaction commits but the client never hears of it.
CommitUnacknowledged ==
    /\ pc = "commit"
    /\ applied' = AppliedAfterCommit
    /\ Throw("fatal")
    /\ UNCHANGED <<pointer, strategies, queue, context, event, envVars, alerts, interrupted>>

(***************************************************************************)
(* The catch block of run().                                               *)
(***************************************************************************)

\* Mutant: a failed event is not recorded.
MutantFailureNotSaved == pointer

PointerAfterFailure == IF event = None THEN pointer ELSE event

SaveFailedEvent ==
    /\ pc = "catch"
    /\ pointer' = PointerAfterFailure
    /\ pc' = "report"
    /\ UNCHANGED <<applied, strategies, queue, context, event, attempts, err, envVars, alerts, interrupted>>

\* The write throws out of the catch block: run() rejects and the chain is
\* not processed any more, while the service runs on for the other chains.
SaveFailedEventFails ==
    /\ pc = "catch" /\ event # None
    /\ pc' = "dead"
    /\ queue' = <<>> /\ context' = {}
    /\ event' = None /\ attempts' = 0 /\ err' = "none"
    /\ interrupted' = interrupted \cup {event}
    /\ UNCHANGED <<dbVars, envVars, alerts>>

\* Mutant: an error left after the retries is only logged.
MutantQuiet(e) == err \in {"unsupported", "retriable"} \/ ShouldIgnore(e)

\* UnsupportedStrategy, InvalidEvent and UnsupportedEventException are logged
\* at debug level; the notifier is called for all other errors.
Quiet(e) == err = "unsupported" \/ ShouldIgnore(e)

Report ==
    /\ pc = "report"
    /\ alerts' = IF event = None \/ Quiet(event) THEN alerts ELSE alerts \cup {event}
    /\ pc' = "loop"
    /\ event' = None
    /\ err' = "none"
    /\ UNCHANGED <<dbVars, queue, context, attempts, envVars, interrupted>>

(***************************************************************************)
(* Shutdown, crash and restart of the service.                             *)
(***************************************************************************)

Running == pc \notin {"stopped", "dead", "down"}

\* SIGINT or SIGTERM
Abort ==
    /\ Running /\ ~aborted
    /\ aborted' = TRUE
    /\ UNCHANGED <<dbVars, loopVars, indexed, restarts, alerts, interrupted>>

Stop ==
    /\ pc = "loop" /\ aborted
    /\ pc' = "stopped"
    /\ UNCHANGED <<dbVars, queue, context, event, attempts, err, envVars, alerts, interrupted>>

\* The process is killed: its memory is gone and an open transaction is undone.
Crash ==
    /\ pc \notin {"down", "stopped"}
    /\ pc' = "down"
    /\ queue' = <<>> /\ context' = {}
    /\ event' = None /\ attempts' = 0 /\ err' = "none"
    /\ interrupted' = IF event = None THEN interrupted ELSE interrupted \cup {event}
    /\ UNCHANGED <<dbVars, envVars, alerts>>

Restart ==
    /\ pc \in {"stopped", "down"}
    /\ restarts < MaxRestarts
    /\ restarts' = restarts + 1
    /\ aborted' = FALSE
    /\ pc' = "loop"
    /\ queue' = <<>> /\ context' = {}
    /\ UNCHANGED <<dbVars, event, attempts, err, indexed, alerts, interrupted>>

-----------------------------------------------------------------------------
\* The steps the running program takes by itself.
Step ==
    \/ FetchBatch \/ FetchFails \/ PopEvent \/ NothingToPop \/ WakeUp
    \/ AttemptAborted \/ HandleEvent \/ ResolveFails \/ ProcessFails \/ BackoffElapsed
    \/ RunChangesets \/ SavePointer \/ Commit \/ TransactionFails \/ CommitUnacknowledged
    \/ SaveFailedEvent \/ SaveFailedEventFails \/ Report \/ Stop

Next == IndexerAdvances \/ Step \/ Abort \/ Crash \/ Restart

Spec == Init /\ [][Next]_vars

\* Node's event loop runs every continuation that is ready; a fetch that is
\* tried for ever is answered in the end.
Fairness == WF_vars(Step) /\ SF_vars(FetchBatch)

FairSpec == Spec /\ Fairness
-----------------------------------------------------------------------------
(* Properties. *)

\* Every variable stays in its domain.

TypeOK ==
    /\ indexed \in 0..Len(Log)
    /\ pointer \in 0..Len(Log)
    /\ applied \in Seq(Events)
    /\ strategies \subseteq Pools
    /\ pc \in Labels
    /\ queue \in Seq(Events)
    /\ context \subseteq Events
    /\ event \in Events \cup {None}
    /\ attempts \in Nat
    /\ err \in Errors
    /\ aborted \in BOOLEAN
    /\ restarts \in 0..MaxRestarts
    /\ alerts \subseteq Events
    /\ interrupted \subseteq Events

\* The changes of no event are stored twice, nor before those of an earlier
\* event, whatever fails, crashes or is started again: retries, the pointer
\* written before the commit and the second write of the pointer in the catch
\* block never bring an event back that has been committed.
AppliedInOrder ==
    \A i, j \in DOMAIN applied : i < j => applied[i] < applied[j]

\* An event is behind the pointer from the moment its changes are stored, so
\* that a restart that reads the pointer does not fetch it again.
AppliedBehindPointer == \A e \in AppliedEvents : e <= pointer

\* The pointer never goes back and never jumps over an event, whichever of its
\* two writers (the last changeset and the catch block) moves it.
PointerAdvancesByOne == [][pointer' \in {pointer, pointer + 1}]_pointer

PoolCreatedLaterInBlock(e) ==
    \E f \in Events : f > e /\ Log[f].block = Log[e].block /\ IsPoolCreated(f)

\* An event the pointer has gone past has its changes stored, or is one this
\* build has nothing to store for, or its failure was reported, or the process
\* went down while it was in hand.  Nothing else can make an event disappear.
LossIsReported ==
    \A e \in 1..pointer :
        \/ e \in AppliedEvents \/ e = event
        \/ Unhandled(e) \/ Log[e].kind = "Unsupported"
        \/ Log[e].kind = "TimestampsUpdated" /\ PoolCreatedLaterInBlock(e)
        \/ e \in alerts
        \/ e \in interrupted

\* While the loop is left to run, every event the indexer publishes is gone
\* past in the end: no failure of any provider, of a processor or of the
\* transaction can hold the chain up.
EveryEventPassed ==
    \A e \in Events : (e <= indexed) ~> (e <= pointer \/ aborted \/ ~Running)

\* The ledger the loop keeps.  Between the write of the pointer and the commit
\* the event in hand does not count as passed yet.
Ledger == INSTANCE EventLedger WITH
    Size <- Len(Log),
    cursor <- IF pc = "commit" THEN event - 1 ELSE pointer,
    delivered <- applied

\* Events are considered in order and stored at most once.
KeepsLedger == Ledger!LedgerSpec

(***************************************************************************)
(* What comments in the code say and the code does not do.                 *)
(***************************************************************************)

\* IEventsRegistry: indexing resumes from the last event PROCESSED in case of an
\* error or a temporary interruption.  So an event that has not failed and is
\* in hand when the process goes down is stored by then, or comes up again.
ResumesAfterLastProcessed ==
    [][pc' = "down" /\ event # None /\ err = "none"
          => \/ event \in AppliedEvents' \/ Unhandled(event)
             \/ pointer' < event]_vars
=============================================================================
