------------------------------- MODULE Service -------------------------------
(***************************************************************************)
(* One process of the processing service (apps/processing): how it starts, *)
(* the loops of its chains side by side, and how it ends.  The loops share *)
(* one pool of database connections and one metadata provider, which keeps *)
(* documents in two caches, one in memory over one in the database.        *)
(*                                                                         *)
(* What one loop does with its events is the subject of Orchestrator: here *)
(* an event is the document its handler needs, and what counts is which    *)
(* connection each chain holds, which it waits for, and what the caches    *)
(* hold.  A client of the pool is a pair <<chain, role>>: the connection   *)
(* of the chain's transaction, that of a single query, that of the lookup  *)
(* of a document or of a price, or that of a write to the price cache,     *)
(* which nobody waits for.  What the price cache holds is the subject of   *)
(* Pricing.                                                                *)
(***************************************************************************)
EXTENDS Naturals, FiniteSets, TLC

CONSTANTS
    Chains,       \* the chains of the environment variable CHAINS
    Docs,         \* IPFS documents the events point at
    Writes,       \* bound: writes to the price cache a chain has under way
    PoolSize,     \* connections of the pool, 15 in the code
    MaxTry,       \* tries of one lookup, 10 in the code
    Gateways,     \* number of IPFS gateways configured
    MaxEvents,    \* bound: events of each chain
    MaxRestarts   \* bound: how often the process is started again

ASSUME ServiceAssumption ==
    /\ IsFiniteSet(Chains) /\ Chains # {}
    /\ IsFiniteSet(Docs) /\ IsFiniteSet(Writes) /\ Docs \cap Writes = {}
    /\ (Docs \cup Writes) \cap {"tx", "query", "price"} = {}
    /\ PoolSize \in Nat \ {0}
    /\ MaxTry \in Nat \ {0}
    /\ Gateways \in Nat \ {0}
    /\ MaxEvents \in Nat
    /\ MaxRestarts \in Nat

\* What a chain looks up: documents, and the price of a token.
Keys    == Docs \cup {"price"}
Roles   == Keys \cup Writes \cup {"tx", "query"}
Clients == Chains \X Roles

\* What a cache holds for a document: no entry, null, or the document.
Values == {"none", "null", "doc"}

Stages  == {"idle", "get", "fetch", "set", "reply"}
\* failed is history: how many tries of this lookup have failed.
Lookups == [at : Stages, value : Values, tries : 0..MaxTry, failed : 0..MaxTry]
NoLookup == [at |-> "idle", value |-> "none", tries |-> 0, failed |-> 0]

Labels == {"init", "boot", "ready", "loop", "reading", "prefetch", "attempt",
           "handling", "asking", "begin", "write", "pointer", "commit",
           "catch", "stopped", "dead", "down"}

VARIABLES
    phase,      \* "initialize", "running" or "exited"
    aborted,    \* the abort signal of start()
    restarts,
    lent,       \* clients that hold a connection of the pool
    waiting,    \* clients that wait for one
    ended,      \* the pool has been destroyed
    pc,         \* where the code of each chain is
    lookup,     \* lookups under way, by chain and key
    queue,      \* documents of the events fetched and not yet handled
    todo,       \* events the indexer still has, by chain
    memory,     \* InMemoryMetadataCache
    table,      \* metadata_cache, by document
    earned      \* history: documents that a lookup found to be null, or
                \* gave up after MaxTry tries of its own

poolVars  == <<lent, waiting, ended>>
cacheVars == <<memory, table, earned>>
procVars  == <<phase, aborted, restarts>>
vars == <<procVars, poolVars, cacheVars, pc, lookup, queue, todo>>

-----------------------------------------------------------------------------
(* The pool. *)

\* Mutant: a connection is kept aside.
MutantCapacity == PoolSize - 1
Capacity == PoolSize

(* Some clients give their connection or their place in the queue back,    *)
(* others ask for a connection; as many of those who want one get one as   *)
(* there are.  The queue of the pool is first come, first served: any      *)
(* order is allowed here.  A pool that has been destroyed serves nobody.   *)
Serve(freed, asked) ==
    LET kept   == lent \ freed
        demand == (waiting \ freed) \cup asked
    IN  \E served \in SUBSET demand :
            /\ Cardinality(kept \cup served) <= Capacity
            /\ \/ ~ended /\ served = demand
               \/ ~ended /\ Cardinality(kept \cup served) = Capacity
               \/ ended /\ served = {}
            /\ lent' = kept \cup served
            /\ waiting' = demand \ served
            /\ UNCHANGED ended

Goto(c, l) == pc' = [pc EXCEPT ![c] = l]

\* The query of client x has failed, or connectionTimeoutMillis has passed
\* before the pool had a connection for it.
Fails(x) == x \in lent \cup waiting

-----------------------------------------------------------------------------
(* Starting. *)

Environments == [provider : {"slack", "null"}, webhook : BOOLEAN,
                 source   : {"dummy", "public-gateway"}, gateways : BOOLEAN]

\* superRefine of validationSchema; an empty list of gateways passes.
Valid(env) == env.provider = "slack" => env.webhook

\* MetadataProviderFactory and the constructor of PublicGatewayProvider
\* (EmptyGatewaysUrlsException).
ProviderBuilt(env) == env.source = "public-gateway" => env.gateways

Init ==
    /\ phase = "initialize" /\ aborted = FALSE /\ restarts = 0
    /\ lent = {} /\ waiting = {} /\ ended = FALSE
    /\ pc = [c \in Chains |-> "init"]
    /\ lookup = [c \in Chains |-> [k \in Keys |-> NoLookup]]
    /\ queue = [c \in Chains |-> {}]
    /\ todo = [c \in Chains |-> MaxEvents]
    /\ memory = [k \in Docs |-> "none"]
    /\ table = [k \in Docs |-> "none"]
    /\ earned = {}

\* Every chain of the process is down and its connections are gone.
Down ==
    /\ phase' = "exited"
    /\ lent' = {} /\ waiting' = {}
    /\ pc' = [c \in Chains |-> "down"]
    /\ lookup' = [c \in Chains |-> [k \in Keys |-> NoLookup]]
    /\ queue' = [c \in Chains |-> {}]

\* The environment is refused, or initialize throws before its first query.
Misconfigured ==
    /\ phase = "initialize" /\ \A c \in Chains : pc[c] = "init"
    /\ \E env \in Environments : ~Valid(env) \/ ~ProviderBuilt(env)
    /\ Down
    /\ UNCHANGED <<aborted, restarts, ended, todo, cacheVars>>

\* initialize loads the strategies of one chain after the other.
LoadStrategies(c) ==
    /\ phase = "initialize" /\ pc[c] = "init"
    /\ \A d \in Chains : pc[d] \in {"init", "ready"}
    /\ Goto(c, "boot")
    /\ Serve({}, {<<c, "query">>})
    /\ UNCHANGED <<procVars, cacheVars, lookup, queue, todo>>

StrategiesLoaded(c) ==
    /\ pc[c] = "boot" /\ <<c, "query">> \in lent
    /\ Goto(c, "ready")
    /\ Serve({<<c, "query">>}, {})
    /\ UNCHANGED <<procVars, cacheVars, lookup, queue, todo>>

\* The error reaches the catch of main, which ends the process.
LoadFails(c) ==
    /\ pc[c] = "boot" /\ Fails(<<c, "query">>)
    /\ Down
    /\ UNCHANGED <<aborted, restarts, ended, todo, cacheVars>>

\* start: all loops run from here on.
Start ==
    /\ phase = "initialize" /\ \A c \in Chains : pc[c] = "ready"
    /\ phase' = "running"
    /\ pc' = [c \in Chains |-> "loop"]
    /\ UNCHANGED <<aborted, restarts, poolVars, cacheVars, lookup, queue, todo>>

\* SIGINT or SIGTERM.
Signal ==
    /\ phase = "running" /\ ~aborted
    /\ aborted' = TRUE
    /\ UNCHANGED <<phase, restarts, poolVars, cacheVars, pc, lookup, queue, todo>>

\* Promise.allSettled: every loop has returned or thrown.
Settled(l) == l \in {"stopped", "dead"}

\* Mutant: Promise.race instead of Promise.allSettled.
MutantAllSettled == phase = "running" /\ \E c \in Chains : Settled(pc[c])
AllSettled == phase = "running" /\ \A c \in Chains : Settled(pc[c])

\* main returns and its finally block calls releaseResources.
ReleaseResources ==
    /\ AllSettled /\ ~ended
    /\ ended' = TRUE
    /\ UNCHANGED <<procVars, lent, waiting, cacheVars, pc, lookup, queue, todo>>

\* Nothing is left to run: the process ends.  The destruction of the pool
\* waits for the connections that are lent, and the timers of the clients that
\* wait for one keep the process alive.
Exit ==
    /\ AllSettled /\ ended /\ lent \cup waiting = {}
    /\ Down
    /\ UNCHANGED <<aborted, restarts, ended, todo, cacheVars>>

\* The process is killed, or an uncaught exception ends it.
Crash ==
    /\ phase = "running" /\ restarts < MaxRestarts
    /\ Down
    /\ UNCHANGED <<aborted, restarts, ended, todo, cacheVars>>

\* Started again: what was in memory is gone, what is in the tables is not.
Restart ==
    /\ phase = "exited" /\ restarts < MaxRestarts
    /\ restarts' = restarts + 1
    /\ phase' = "initialize" /\ aborted' = FALSE /\ ended' = FALSE
    /\ pc' = [c \in Chains |-> "init"]
    /\ memory' = [k \in Docs |-> "none"]
    /\ UNCHANGED <<lent, waiting, lookup, queue, todo, table, earned>>

-----------------------------------------------------------------------------
(* Lookup of a document: CachingMetadataProvider over InMemoryMetadataCache, *)
(* over CachingMetadataProvider over KyselyMetadataCache, over               *)
(* PublicGatewayProvider.                                                    *)

\* cachedMetadata || cachedMetadata === null
Cached(value) == value # "none"

\* The calls of clearCache reach no method of the caches, which call theirs
\* clearAll.
ClearCache == UNCHANGED memory

\* The keys in K that are looked up in the database: no price is in memory,
\* as the set of InMemoryPricingCache does nothing.
Misses(K) == {k \in K : k = "price" \/ ~Cached(memory[k])}

\* The price of a token is looked up as well, or is not.
Priced == {{}, {"price"}}

\* getMetadata and getTokenPrice(s) for the keys in K, side by side.
StartLookups(c, K) ==
    lookup' = [lookup EXCEPT ![c] = [k \in Keys |->
                 IF k \in Misses(K) THEN [NoLookup EXCEPT !.at = "get"]
                                    ELSE lookup[c][k]]]

LookupsOf(c, K) == {<<c, k>> : k \in Misses(K)}

Stage(c, k, l) == lookup' = [lookup EXCEPT ![c][k] = l]

lookupVars == <<procVars, pc, queue, todo>>

\* KyselyMetadataCache.get
GetRow(c, k) ==
    /\ lookup[c][k].at = "get" /\ <<c, k>> \in lent
    /\ IF Cached(table[k])
       THEN /\ Stage(c, k, [NoLookup EXCEPT !.at = "reply", !.value = table[k]])
            /\ UNCHANGED poolVars
       ELSE /\ Stage(c, k, [NoLookup EXCEPT !.at = "fetch"])
            /\ Serve({<<c, k>>}, {})
    /\ UNCHANGED <<lookupVars, cacheVars>>

\* A failure to read the cache counts as a miss, of a price also.
GetFails(c, k) ==
    /\ lookup[c][k].at = "get" /\ Fails(<<c, k>>)
    /\ Stage(c, k, [NoLookup EXCEPT !.at = "fetch"])
    /\ Serve({<<c, k>>}, {})
    /\ UNCHANGED <<lookupVars, cacheVars>>

(* What PublicGatewayProvider.getMetadata returns: the gateways are asked  *)
(* in turn, the first that answers decides, with the document, with the    *)
(* JSON value null, which passes for an object, or with content that is    *)
(* not JSON, for which it throws; undefined if none answers.               *)
FromGateways(answers) ==
    LET replied == {i \in 1..Gateways : answers[i] # "error"}
    IN  IF replied = {} THEN "undefined"
        ELSE answers[CHOOSE i \in replied : \A j \in replied : i <= j]

\* retryAsync tries again after undefined and after an exception alike.
\* Mutant: the lookups of all chains share one counter of tries.
MutantGivesUp(c, k) ==
    \/ lookup[c][k].tries + 1 = MaxTry
    \/ \E d \in Chains \ {c} :
          lookup[c][k].tries + lookup[d][k].tries + 1 >= MaxTry
GivesUp(c, k) == lookup[c][k].tries + 1 = MaxTry

\* One try of retryAsync.  What it comes back with is written to the table.
Try(c, k) ==
    LET now == lookup[c][k] IN
    /\ now.at = "fetch"
    /\ \E answers \in [1..Gateways -> {"doc", "null", "garbage", "error"}] :
         LET content == FromGateways(answers)
             found   == content \in {"doc", "null"}
         IN  /\ earned' = IF content = "null" \/ (~found /\ now.failed + 1 = MaxTry)
                          THEN earned \cup {k} ELSE earned
             /\ IF found \/ GivesUp(c, k)
                THEN /\ Stage(c, k, [NoLookup EXCEPT !.at = "set",
                               !.value = IF found THEN content ELSE "null"])
                     /\ Serve({}, {<<c, k>>})
                ELSE /\ Stage(c, k, [now EXCEPT !.tries = @ + 1, !.failed = @ + 1])
                     /\ UNCHANGED poolVars
    /\ UNCHANGED <<lookupVars, memory, table>>

\* KyselyMetadataCache.set: insert, on conflict update.
SetRow(c, k) ==
    /\ lookup[c][k].at = "set" /\ <<c, k>> \in lent
    /\ table' = [table EXCEPT ![k] = lookup[c][k].value]
    /\ Stage(c, k, [lookup[c][k] EXCEPT !.at = "reply"])
    /\ UNCHANGED <<lookupVars, poolVars, memory, earned>>

\* The database has answered: InMemoryMetadataCache.set.
Reply(c, k) ==
    /\ lookup[c][k].at = "reply"
    /\ memory' = [memory EXCEPT ![k] = lookup[c][k].value]
    /\ Stage(c, k, NoLookup)
    /\ Serve({<<c, k>>}, {})
    /\ UNCHANGED <<lookupVars, table, earned>>

\* A failure to write the table is only logged: the cache in memory still
\* takes the value.
SetFails(c, k) ==
    /\ lookup[c][k].at = "set" /\ Fails(<<c, k>>)
    /\ memory' = [memory EXCEPT ![k] = lookup[c][k].value]
    /\ Stage(c, k, NoLookup)
    /\ Serve({<<c, k>>}, {})
    /\ UNCHANGED <<lookupVars, table, earned>>

LookupStep(c, k) ==
    GetRow(c, k) \/ GetFails(c, k) \/ Try(c, k) \/ SetRow(c, k) \/ Reply(c, k)
    \/ SetFails(c, k)

\* KyselyPricingCache.getPricesByTimeRange: the rows do, or the source is asked.
GetPrices(c) ==
    /\ lookup[c]["price"].at = "get" /\ <<c, "price">> \in lent
    /\ \/ Stage(c, "price", NoLookup)
       \/ Stage(c, "price", [NoLookup EXCEPT !.at = "fetch"])
    /\ Serve({<<c, "price">>}, {})
    /\ UNCHANGED <<lookupVars, cacheVars>>

\* The writes to the price cache that the chain has not under way.
FreeWrites(c) == {w \in Writes : <<c, w>> \notin lent \cup waiting}

\* The source answers, and the prices are written to the cache: the calls of
\* cache.set are not awaited.  None is made if the source fails.
PricesFetched(c) ==
    /\ lookup[c]["price"].at = "fetch"
    /\ Stage(c, "price", NoLookup)
    /\ \E W \in SUBSET FreeWrites(c) : Serve({}, {<<c, w>> : w \in W})
    /\ UNCHANGED <<lookupVars, cacheVars>>

\* A write to the price cache lands, fails, or has had no connection in time:
\* a failure is only logged.
WriteEnds(c, w) ==
    /\ Fails(<<c, w>>)
    /\ Serve({<<c, w>>}, {})
    /\ UNCHANGED <<lookupVars, cacheVars, lookup>>

PriceStep(c) == GetPrices(c) \/ GetFails(c, "price") \/ PricesFetched(c)

\* Promise.allSettled in bulkFetchMetadataAndPricesForBatch, and the awaits
\* of getMetadata and getTokenPrice in a handler.
NoLookups(c) == \A k \in Keys : lookup[c][k].at = "idle"

-----------------------------------------------------------------------------
(* The loop of a chain. *)

\* Mutant: the signal is not looked at.
MutantShuttingDown == FALSE
ShuttingDown == aborted

loopVars == <<procVars, cacheVars, todo>>

Stop(c) ==
    /\ pc[c] = "loop" /\ ShuttingDown
    /\ Goto(c, "stopped")
    /\ UNCHANGED <<loopVars, poolVars, lookup, queue>>

\* getNextEventsBatch asks for the last processed event.
ReadPointer(c) ==
    /\ pc[c] = "loop" /\ ~ShuttingDown /\ queue[c] = {}
    /\ Goto(c, "reading")
    /\ Serve({}, {<<c, "query">>})
    /\ UNCHANGED <<loopVars, lookup, queue>>

(* The pointer is read and a batch fetched: the caches are "cleared" and   *)
(* the documents and the prices of all its events looked up, before the    *)
(* first is handled.                                                       *)
Prefetch(c) ==
    /\ pc[c] = "reading" /\ <<c, "query">> \in lent
    /\ \E batch \in SUBSET Docs \ {{}}, price \in Priced :
        /\ Cardinality(batch) <= todo[c]
        /\ queue' = [queue EXCEPT ![c] = batch]
        /\ StartLookups(c, batch \cup price)
        /\ Serve({<<c, "query">>}, LookupsOf(c, batch \cup price))
    /\ ClearCache
    /\ Goto(c, "prefetch")
    /\ UNCHANGED <<procVars, table, earned, todo>>

\* The batch is empty and the loop sleeps, or the query or the indexer has
\* failed and the error is caught with no event in hand.
NothingFetched(c) ==
    /\ pc[c] = "reading" /\ Fails(<<c, "query">>)
    /\ Goto(c, "loop")
    /\ Serve({<<c, "query">>}, {})
    /\ UNCHANGED <<loopVars, lookup, queue>>

Prefetched(c) == NoLookups(c)

Enqueue(c) ==
    /\ pc[c] = "prefetch" /\ Prefetched(c)
    /\ Goto(c, "loop")
    /\ UNCHANGED <<loopVars, poolVars, lookup, queue>>

Pop(c) ==
    /\ pc[c] = "loop" /\ ~ShuttingDown /\ queue[c] # {}
    /\ Goto(c, "attempt")
    /\ UNCHANGED <<loopVars, poolVars, lookup, queue>>

\* The handler of the event looks its document and its price up.
Handle(c) ==
    /\ pc[c] = "attempt" /\ ~ShuttingDown
    /\ \E k \in queue[c], price \in Priced :
        /\ queue' = [queue EXCEPT ![c] = @ \ {k}]
        /\ StartLookups(c, {k} \cup price)
        /\ Serve({}, LookupsOf(c, {k} \cup price))
    /\ todo' = [todo EXCEPT ![c] = @ - 1]
    /\ Goto(c, "handling")
    /\ UNCHANGED <<procVars, cacheVars>>

\* The handler asks the database about rounds, projects or applications; one
\* query stands for those it makes, one after the other.
Ask(c) ==
    /\ pc[c] = "handling" /\ NoLookups(c)
    /\ Goto(c, "asking")
    /\ Serve({}, {<<c, "query">>})
    /\ UNCHANGED <<loopVars, lookup, queue>>

\* The handler has failed with an error worth a retry, which those of the
\* database are not, and is run again (Orchestrator counts the attempts).  What
\* it looked up is in memory by now, but for the price.
Retry(c) ==
    /\ \/ pc[c] = "handling" /\ NoLookups(c)
       \/ pc[c] = "asking" /\ <<c, "query">> \in lent
    /\ ~ShuttingDown
    /\ Goto(c, "handling")
    /\ \E price \in Priced :
        /\ StartLookups(c, price)
        /\ Serve({<<c, "query">>}, LookupsOf(c, price))
    /\ UNCHANGED <<loopVars, queue>>

\* The handler has its changesets: a transaction is begun.
Begin(c) ==
    /\ pc[c] = "asking" /\ <<c, "query">> \in lent
    /\ Goto(c, "begin")
    /\ Serve({<<c, "query">>}, {<<c, "tx">>})
    /\ UNCHANGED <<loopVars, lookup, queue>>

Begun(c) ==
    /\ pc[c] = "begin" /\ <<c, "tx">> \in lent
    /\ Goto(c, "write")
    /\ UNCHANGED <<loopVars, poolVars, lookup, queue>>

(* The changesets are written through the transaction.  The last of them,  *)
(* InsertProcessedEvent, is not: DatabaseEventRegistry leaves the           *)
(* transaction out, and the query asks the pool for a connection of its    *)
(* own while the transaction keeps its one.                                *)
Write(c) ==
    /\ pc[c] = "write"
    /\ Goto(c, "pointer")
    /\ Serve({}, {<<c, "query">>})
    /\ UNCHANGED <<loopVars, lookup, queue>>

PointerConnections(c) == {<<c, "query">>}

SavePointer(c) ==
    /\ pc[c] = "pointer" /\ <<c, "query">> \in lent
    /\ Goto(c, "commit")
    /\ Serve(PointerConnections(c), {})
    /\ UNCHANGED <<loopVars, lookup, queue>>

\* After the commit the retry handler throws if the signal has come.
Commit(c) ==
    /\ pc[c] = "commit"
    /\ IF ShuttingDown
       THEN Goto(c, "catch") /\ Serve({<<c, "tx">>}, {<<c, "query">>})
       ELSE Goto(c, "loop")  /\ Serve({<<c, "tx">>}, {})
    /\ UNCHANGED <<loopVars, lookup, queue>>

\* Aborted before the first attempt: the event is given up.
GiveUp(c) ==
    /\ pc[c] = "attempt" /\ ShuttingDown
    /\ \E k \in queue[c] : queue' = [queue EXCEPT ![c] = @ \ {k}]
    /\ todo' = [todo EXCEPT ![c] = @ - 1]
    /\ Goto(c, "catch")
    /\ Serve({}, {<<c, "query">>})
    /\ UNCHANGED <<procVars, cacheVars, lookup>>

\* Where an attempt can fail for good, whatever its transaction or its
\* query holds or waits for being given back.
Failing(c) ==
    \/ pc[c] = "handling" /\ NoLookups(c)
    \/ pc[c] = "asking"  /\ Fails(<<c, "query">>)
    \/ pc[c] = "begin"   /\ Fails(<<c, "tx">>)
    \/ pc[c] = "pointer" /\ Fails(<<c, "query">>)
    \/ pc[c] \in {"write", "commit"}

\* The connections a failing attempt gives back: the transaction is rolled
\* back.  Mutant: it is left open.
MutantRollback(c) == {<<c, "query">>}
Rollback(c) == {<<c, "tx">>, <<c, "query">>}

(* The attempt has failed, and the catch block of run() saves the pointer  *)
(* by a query of its own.                                                  *)
AttemptFails(c) ==
    /\ Failing(c)
    /\ Goto(c, "catch")
    /\ Serve(Rollback(c), {<<c, "query">>})
    /\ UNCHANGED <<loopVars, lookup, queue>>

Caught(c) ==
    /\ pc[c] = "catch" /\ <<c, "query">> \in lent
    /\ Goto(c, "loop")
    /\ Serve({<<c, "query">>}, {})
    /\ UNCHANGED <<loopVars, lookup, queue>>

\* The catch block throws: run() rejects, and this chain is done for while
\* the others go on.
CatchFails(c) ==
    /\ pc[c] = "catch" /\ Fails(<<c, "query">>)
    /\ Goto(c, "dead")
    /\ Serve({<<c, "query">>}, {})
    /\ UNCHANGED <<loopVars, lookup, queue>>

LoopStep(c) ==
    \/ Stop(c) \/ ReadPointer(c) \/ Prefetch(c) \/ NothingFetched(c)
    \/ Enqueue(c) \/ Pop(c) \/ Handle(c) \/ Ask(c) \/ Retry(c) \/ Begin(c)
    \/ Begun(c) \/ Write(c) \/ SavePointer(c) \/ Commit(c) \/ GiveUp(c) \/ AttemptFails(c)
    \/ Caught(c) \/ CatchFails(c)

InitializeStep(c) == LoadStrategies(c) \/ StrategiesLoaded(c) \/ LoadFails(c)

Next ==
    \/ Misconfigured \/ Start \/ Signal \/ ReleaseResources \/ Exit \/ Crash
    \/ Restart
    \/ \E c \in Chains :
        \/ InitializeStep(c)
        \/ LoopStep(c)
        \/ \E k \in Docs : LookupStep(c, k)
        \/ PriceStep(c)
        \/ \E w \in Writes : WriteEnds(c, w)

Spec == Init /\ [][Next]_vars

(* Every database query and every request is answered, fails, or is given  *)
(* up after its timeout; Node runs every continuation that is due.         *)
Fairness ==
    /\ WF_vars(ReleaseResources) /\ WF_vars(Exit)
    /\ \A c \in Chains :
        /\ WF_vars(LoopStep(c)) /\ WF_vars(PriceStep(c))
        /\ \A k \in Docs : WF_vars(LookupStep(c, k))
        /\ \A w \in Writes : WF_vars(WriteEnds(c, w))

FairSpec == Spec /\ Fairness

-----------------------------------------------------------------------------
(* Properties. *)

\* Every variable has its type.
TypeOK ==
    /\ phase \in {"initialize", "running", "exited"}
    /\ aborted \in BOOLEAN /\ ended \in BOOLEAN
    /\ restarts \in 0..MaxRestarts
    /\ lent \subseteq Clients /\ waiting \subseteq Clients
    /\ pc \in [Chains -> Labels]
    /\ lookup \in [Chains -> [Keys -> Lookups]]
    /\ queue \in [Chains -> SUBSET Docs]
    /\ todo \in [Chains -> 0..MaxEvents]
    /\ memory \in [Docs -> Values] /\ table \in [Docs -> Values]
    /\ earned \subseteq Docs

\* The code of the chain has a use for the connection of the client; a write
\* to the price cache is on its own.
InUse(c, r) ==
    \/ r = "tx"    /\ pc[c] \in {"begin", "write", "pointer", "commit"}
    \/ r = "query" /\ pc[c] \in {"boot", "reading", "asking", "pointer", "catch"}
    \/ r \in Keys  /\ lookup[c][r].at \in {"get", "set", "reply"}
    \/ r \in Writes

\* No connection leaks, on any path through errors, timeouts and shutdown:
\* whoever holds one or waits for one has a use for it, each client is in
\* one of the two sets, and a transaction under way has its connection.
ConnectionsAccounted ==
    /\ lent \cap waiting = {}
    /\ Cardinality(lent) <= PoolSize
    /\ \A c \in Chains, r \in Roles : <<c, r>> \in lent \cup waiting => InUse(c, r)
    /\ \A c \in Chains : pc[c] \in {"write", "pointer", "commit"} => <<c, "tx">> \in lent

\* The transaction of the chain waits for the query of its pointer.
Blocked(x) == x[2] = "tx" /\ <<x[1], "query">> \in waiting

\* The pool is larger than the number of chains, so that chains in the
\* middle of their transactions never wait for each other only: whenever
\* a query waits, some connection is held by a client that waits for none.
\* With as many chains as connections they can, until the timeout of the
\* pool fails them all and their events are skipped.  Once the pool is
\* destroyed a client that waits is refused.
NoCircularWait ==
    Cardinality(Chains) < PoolSize /\ waiting # {} /\ ~ended =>
        \E x \in lent : ~Blocked(x)

\* releaseResources destroys the pool only when no transaction, no query and
\* no lookup is under way and no loop will start one.  The writes to the price
\* cache are left out, rightly: nothing waits for them, and those that have no
\* connection by then are lost.
PoolEndsIdle ==
    ended => /\ lent \cup waiting \subseteq Chains \X Writes
             /\ \A c \in Chains : pc[c] \in {"stopped", "dead", "down"} /\ NoLookups(c)

\* null is kept for a document only after a lookup has failed MaxTry times by
\* itself, whatever the other chains try for the same document meanwhile and
\* whatever was tried before, or after a gateway has answered null.
NullIsEarned ==
    \A k \in Docs : "null" \in {memory[k], table[k]} => k \in earned

\* After a signal every loop stops or dies, the pool is destroyed and the
\* process ends, however many connections and gateways fail on the way.
ShutdownCompletes == aborted ~> (phase = "exited")
=============================================================================
