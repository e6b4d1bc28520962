---------------------------- MODULE Retroactive ----------------------------
(***************************************************************************)
(* The retroactive processor (class RetroactiveProcessor) of one chain,    *)
(* next to the live processing loop that shares its tables.                *)
(*                                                                         *)
(* A build of the service has handlers for some strategy ids.  The live    *)
(* loop goes past the events of the other strategies without storing       *)
(* anything and registers their contracts as unhandled; when a build with  *)
(* more handlers is deployed, a separate process runs the events of the    *)
(* newly handleable strategies from the start of the chain up to the       *)
(* pointer of the live loop.                                               *)
(*                                                                         *)
(* An event is its position in Log.  The live loop is taken as the ledger  *)
(* of EventLedger, which Orchestrator implements: one event per step,      *)
(* stored or passed.                                                       *)
(***************************************************************************)
EXTENDS Naturals, Sequences, FiniteSets, SequencesExt

CONSTANTS
    Addresses,   \* strategy contracts
    Ids,         \* strategy ids
    IdOf,        \* the id of each contract
    OldIds,      \* ids with a handler in the build deployed first
    Log,         \* events: [addr |-> contract, pool |-> is it its PoolCreated]
    FetchLimit,
    MaxRuns,     \* bound: how often the retroactive process is started
    Overlap      \* whether the live loop may run next to the process, or only
                 \* before its first run (old build) and after its last (new)

ASSUME RetroAssumption ==
    /\ IdOf \in [Addresses -> Ids]
    /\ OldIds \subseteq Ids
    /\ Log \in Seq([addr : Addresses, pool : BOOLEAN])
    /\ FetchLimit \in Nat \ {0}
    /\ MaxRuns \in Nat
    /\ Overlap \in BOOLEAN

Events == 1..Len(Log)
NoCheckpoint == Len(Log) + 1

\* existsHandler, in the build `b'
Handles(b, s) == b = "new" \/ s \in OldIds

VARIABLES
    live,          \* "old" or "new", the build of the live loop, or "off"
    pointer,       \* events_registry
    registry,      \* strategies table: flag of each contract
    checkpoint,    \* strategy_processing_checkpoints, by id
    liveApplied,   \* events the live loop stored
    retroApplied,  \* how often the retroactive process stored each event
    run,           \* the retroactive process: "off", "found" or "working"
    last,          \* lastEventPointer of the run
    targets,       \* contracts the run found, by id
    pc,            \* where processRetroactiveStrategy is, by id
    current,       \* currentPointer, by id
    queue,         \* events queue, by id
    runs,
    attempted,     \* history: events the process handed to their handler
    exposed,       \* history: events it had in hand when it went down
    caughtUp       \* history: `last' of the run that marked each contract

tables   == <<pointer, registry, checkpoint, liveApplied, retroApplied>>
locals   == <<last, targets, current, queue>>
history  == <<attempted, exposed, caughtUp>>
vars     == <<live, tables, run, pc, locals, runs, history>>

\* Events emitted by the contracts A themselves.
EventsOf(A) == {e \in Events : Log[e].addr \in A /\ ~Log[e].pool}

-----------------------------------------------------------------------------
Init ==
    /\ live = "old"
    /\ pointer = 0
    /\ registry = [a \in Addresses |-> "absent"]
    /\ checkpoint = [s \in Ids |-> NoCheckpoint]
    /\ liveApplied = {}
    /\ retroApplied = [e \in Events |-> 0]
    /\ run = "off"
    /\ last = 0
    /\ targets = [s \in Ids |-> {}]
    /\ pc = [s \in Ids |-> "idle"]
    /\ current = [s \in Ids |-> 0]
    /\ queue = [s \in Ids |-> <<>>]
    /\ runs = 0
    /\ attempted = {}
    /\ exposed = {}
    /\ caughtUp = [a \in Addresses |-> 0]

(***************************************************************************)
(* The live loop and its deployment.                                       *)
(***************************************************************************)

LiveStep ==
    /\ live # "off" /\ pointer < Len(Log)
    /\ LET e == pointer + 1
           a == Log[e].addr
           handled == Handles(live, IdOf[a])
       IN /\ pointer' = e
          /\ registry' = IF Log[e].pool
                         THEN [registry EXCEPT ![a] = IF handled THEN "handled" ELSE "unhandled"]
                         ELSE registry
          /\ \/ (handled \/ Log[e].pool) /\ liveApplied' = liveApplied \cup {e}
             \/ UNCHANGED liveApplied
    /\ UNCHANGED <<live, checkpoint, retroApplied, run, pc, locals, runs, history>>

StopOld ==
    /\ live = "old"
    /\ live' = "off"
    /\ UNCHANGED <<tables, run, pc, locals, runs, history>>

StartNew ==
    /\ live = "off" /\ (Overlap \/ run = "off")
    /\ live' = "new"
    /\ UNCHANGED <<tables, run, pc, locals, runs, history>>

(***************************************************************************)
(* The retroactive process: processRetroactiveStrategies.                  *)
(***************************************************************************)

Newly(s) == {a \in Addresses : IdOf[a] = s /\ registry[a] = "unhandled"}

FindStrategies ==
    /\ run = "off" /\ runs < MaxRuns /\ (Overlap \/ live = "off")
    /\ runs' = runs + 1
    /\ targets' = [s \in Ids |-> Newly(s)]
    /\ run' = IF \A s \in Ids : Newly(s) = {} THEN "off" ELSE "found"
    /\ UNCHANGED <<live, tables, pc, last, current, queue, history>>

ReadPointer ==
    /\ run = "found"
    /\ last' = pointer
    /\ pc' = [s \in Ids |-> IF targets[s] = {} THEN "idle" ELSE "begin"]
    /\ run' = "working"
    /\ UNCHANGED <<live, tables, targets, current, queue, runs, history>>

(***************************************************************************)
(* processRetroactiveStrategy, for the id s.                               *)
(***************************************************************************)

GoTo(s, label) == pc' = [pc EXCEPT ![s] = label]

\* Mutant: the run starts over from the first event of the chain.
MutantStart(s) == 0

StartPointer(s) == IF checkpoint[s] = NoCheckpoint THEN 0 ELSE checkpoint[s]

Begin(s) ==
    /\ pc[s] = "begin"
    /\ current' = [current EXCEPT ![s] = StartPointer(s)]
    /\ queue' = [queue EXCEPT ![s] = <<>>]
    /\ GoTo(s, "fetch")
    /\ UNCHANGED <<live, tables, run, last, targets, runs, history>>

\* The checkpoint cannot be read.
BeginFails(s) ==
    /\ pc[s] = "begin"
    /\ GoTo(s, "failed")
    /\ UNCHANGED <<live, tables, run, locals, runs, history>>

\* The first FetchLimit events of F
Limited(F) == {e \in F : Cardinality({f \in F : f <= e}) <= FetchLimit}

\* Mutant: the indexer is asked for events from `current' on, inclusive.
MutantFetched(s) == Limited({e \in EventsOf(targets[s]) : current[s] <= e /\ e <= last})

\* The first events of the contracts after `current' and up to `last'.
Fetched(s) == Limited({e \in EventsOf(targets[s]) : current[s] < e /\ e <= last})

\* The events of F in the order of the chain
InOrder(F) ==
    {q \in [1..Cardinality(F) -> F] :
        /\ \A e \in F : \E i \in DOMAIN q : q[i] = e
        /\ \A i, j \in DOMAIN q : i < j => q[i] < q[j]}

Fetch(s) ==
    /\ pc[s] = "fetch"
    /\ IF queue[s] = <<>>
       THEN \E q \in InOrder(Fetched(s)) : queue' = [queue EXCEPT ![s] = q]
       ELSE UNCHANGED queue
    /\ GoTo(s, "pop")
    /\ UNCHANGED <<live, tables, run, last, targets, current, runs, history>>

\* The error is logged, the checkpoint is written with the pointer as it is.
FetchFails(s) ==
    /\ pc[s] = "fetch" /\ queue[s] = <<>>
    /\ GoTo(s, "checkpoint")
    /\ UNCHANGED <<live, tables, run, locals, runs, history>>

\* Mutant: the end of the range is the checkpoint, not the pointer.
MutantReachedLast(e) == e + 1 >= last

HasReachedLastEvent(e) == e >= last

Pop(s) ==
    /\ pc[s] = "pop"
    /\ IF queue[s] = <<>>
       THEN GoTo(s, "mark") /\ UNCHANGED <<current, queue>>
       ELSE /\ current' = [current EXCEPT ![s] = Head(queue[s])]
            /\ queue' = [queue EXCEPT ![s] = Tail(@)]
            /\ GoTo(s, IF HasReachedLastEvent(Head(queue[s])) THEN "mark" ELSE "process")
    /\ UNCHANGED <<live, tables, run, last, targets, runs, history>>

\* The handler's changes are stored in a transaction of their own.
Process(s) ==
    /\ pc[s] = "process"
    /\ retroApplied' = [retroApplied EXCEPT ![current[s]] = @ + 1]
    /\ attempted' = attempted \cup {current[s]}
    /\ GoTo(s, "checkpoint")
    /\ UNCHANGED <<live, pointer, registry, checkpoint, liveApplied, run, locals, runs, exposed, caughtUp>>

\* The handler refuses, or the retries are spent: logged and left behind.
ProcessFails(s) ==
    /\ pc[s] = "process"
    /\ attempted' = attempted \cup {current[s]}
    /\ GoTo(s, "checkpoint")
    /\ UNCHANGED <<live, tables, run, locals, runs, exposed, caughtUp>>

\* Mutant: the checkpoint is the end of the batch, not the event.
MutantCheckpoint(s) == IF queue[s] = <<>> THEN current[s] ELSE Last(queue[s])

NewCheckpoint(s) == current[s]

UpdateCheckpoint(s) ==
    /\ pc[s] = "checkpoint"
    /\ checkpoint' = [checkpoint EXCEPT ![s] = NewCheckpoint(s)]
    /\ GoTo(s, "fetch")
    /\ UNCHANGED <<live, pointer, registry, liveApplied, retroApplied, run, locals, runs, history>>

\* Thrown out of the loop: the strategy stays as it is until the next run.
UpdateCheckpointFails(s) ==
    /\ pc[s] = "checkpoint"
    /\ exposed' = exposed \cup ({current[s]} \ {0})
    /\ GoTo(s, "failed")
    /\ UNCHANGED <<live, tables, run, locals, runs, attempted, caughtUp>>

\* markStrategyAsHandled: all contracts at once, some of the writes may fail.
Mark(s) ==
    /\ pc[s] = "mark"
    /\ \E M \in SUBSET targets[s] :
          /\ registry' = [a \in Addresses |-> IF a \in M THEN "handled" ELSE registry[a]]
          /\ caughtUp' = [a \in Addresses |-> IF a \in M THEN last ELSE caughtUp[a]]
          /\ GoTo(s, IF M = targets[s] THEN "delete" ELSE "failed")
    /\ UNCHANGED <<live, pointer, checkpoint, liveApplied, retroApplied, run, locals, runs, attempted, exposed>>

DeleteCheckpoint(s) ==
    /\ pc[s] = "delete"
    /\ \/ checkpoint' = [checkpoint EXCEPT ![s] = NoCheckpoint] /\ GoTo(s, "done")
       \/ UNCHANGED checkpoint /\ GoTo(s, "failed")
    /\ UNCHANGED <<live, pointer, registry, liveApplied, retroApplied, run, locals, runs, history>>

-----------------------------------------------------------------------------
Stopped ==
    /\ run' = "off"
    /\ pc' = [s \in Ids |-> "idle"]
    /\ targets' = [s \in Ids |-> {}]
    /\ queue' = [s \in Ids |-> <<>>]
    /\ current' = [s \in Ids |-> 0]
    /\ last' = 0

\* Every strategy is settled: the process exits.
Finish ==
    /\ run = "working"
    /\ \A s \in Ids : pc[s] \in {"idle", "done", "failed"}
    /\ Stopped
    /\ UNCHANGED <<live, tables, runs, history>>

\* The process is killed.  It has events in hand whose checkpoint is not written.
Crash ==
    /\ run # "off"
    /\ Stopped
    /\ exposed' = exposed \cup {current[s] : s \in {t \in Ids : pc[t] = "checkpoint" /\ current[t] # 0}}
    /\ UNCHANGED <<live, tables, runs, attempted, caughtUp>>

StrategyStep(s) ==
    \/ Begin(s) \/ BeginFails(s) \/ Fetch(s) \/ FetchFails(s) \/ Pop(s) \/ Process(s) \/ ProcessFails(s)
    \/ UpdateCheckpoint(s) \/ UpdateCheckpointFails(s) \/ Mark(s) \/ DeleteCheckpoint(s)

Next ==
    \/ LiveStep \/ StopOld \/ StartNew
    \/ FindStrategies \/ ReadPointer
    \/ \E s \in Ids : StrategyStep(s)
    \/ Finish \/ Crash

Spec == Init /\ [][Next]_vars

\* The steps of the process are continuations Node runs when they are ready,
\* those of the strategies side by side; an indexer asked for ever answers.
Fairness ==
    /\ WF_vars(ReadPointer) /\ WF_vars(Finish)
    /\ \A s \in Ids : WF_vars(StrategyStep(s)) /\ SF_vars(Fetch(s))

FairSpec == Spec /\ Fairness
-----------------------------------------------------------------------------
(* Properties. *)

\* How far the checkpoints go: a run hands an event to its handler at most
\* once, and an event that a run stored is stored by a later run only if the
\* process went down, or lost its database, between storing the event and
\* writing the checkpoint.  The class promises more: see ExactlyOnce.
RepeatedOnlyIfExposed ==
    \A e \in Events :
        /\ retroApplied[e] <= runs
        /\ retroApplied[e] > 1 => e \in exposed

\* What the comment of RetroactiveProcessor says of the checkpoints, "Ensure
\* exactly-once processing semantics": no event is stored a second time.  The
\* checkpoint is written after the transaction of its event and outside of it,
\* and a crash between the two makes the next run store the event again.
ExactlyOnce == \A e \in Events : retroApplied[e] <= 1

\* A run that resumes from a checkpoint leaves nothing out: whatever contracts
\* the next run finds, the events behind the checkpoint have been handed to
\* their handler, by this run or by one before it that failed half way.
CheckpointCoversPrefix ==
    \A s \in Ids : checkpoint[s] # NoCheckpoint =>
        \A e \in EventsOf(Newly(s)) : e <= checkpoint[s] => e \in attempted

\* A contract is marked as handled only after each of its events before the
\* pointer of the live loop was handed to its handler, through any number of
\* runs that were killed, could not fetch, or marked some of the contracts.
HandledCaughtUp ==
    \A a \in Addresses : \A e \in EventsOf({a}) : e < caughtUp[a] => e \in attempted

\* Every run ends, whatever the indexer, the handlers and the tables refuse.
RunEnds == run # "off" ~> run = "off"
=============================================================================
