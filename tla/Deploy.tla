------------------------------- MODULE Deploy -------------------------------
(***************************************************************************)
(* The blue and the green deployment over their databases: the workflows   *)
(* that start, promote and destroy a deployment, the scripts that create,   *)
(* migrate, reset, copy and fill the databases and configure the API, and   *)
(* the processing services that run meanwhile.                              *)
(*                                                                          *)
(* One operator runs one command at a time, from Runbook; a slip is a       *)
(* command skipped, or one more at the wrong time.  The indexer has events  *)
(* 1..N of one pool, its creation first.  An event has rows in the cache    *)
(* tables; a row is <<key, value>>, and a table is the sequence of its rows *)
(* in the order a scan returns them.                                        *)
(***************************************************************************)
EXTENDS Hasura

CONSTANTS Runbook,      \* the commands of the operator, in order
          N,            \* events of the indexer
          FetchBatch,   \* fetchBatchSize of the copy
          InsertBatch,  \* insertBatchSize of the copy
          Cuts,         \* steps at which the connection to Hasura may fail
          MaxSlips      \* bound on slips, interrupted scripts and crashes

Colors  == {"blue", "green"}
Other(c) == IF c = "blue" THEN "green" ELSE "blue"
Folders == {"processing", "processing_cache"}

\* What the workflows and the scripts take as arguments.
Commands ==
    [command : {"create"}] \cup [command : {"deploy-to-aws"}, images : SUBSET BOOLEAN]
    \cup [command : {"deploy"}, color : Colors, images : SUBSET BOOLEAN]
    \cup [command : {"migrate", "reset"}, color : Colors, folder : Folders]
    \cup [command : {"promote", "destroy", "metadata", "pricing", "timings", "copy",
                     "configure"}, color : Colors]

ASSUME DeployAssumption ==
    /\ Runbook \in Seq(Commands)
    /\ N \in Nat \ {0} /\ {FetchBatch, InsertBatch} \subseteq Nat \ {0}
    /\ Cuts \subseteq Nat /\ MaxSlips \in Nat

VARIABLES
    active, state, \* ACTIVE_DEPLOYMENT and DEPLOYMENT_STATE of terraform
    image,         \* whether the image of a colour has a handler for the strategy
    created,       \* the databases that exist
    migrated,      \* the folders of migrations applied to a database
    ledger,        \* what the processing tables of a database hold
    rows,          \* what its cache tables hold
    proc,          \* the processing service of a colour
    script,        \* the script of the operator that is running
    api,           \* the metadata of Hasura of a colour
    next, slips,
    late,          \* tables created while the service held a later event
    blind          \* a bootstrap stored null for want of a handler

deployVars == <<active, state, image>>
dbVars     == <<created, migrated, ledger, rows>>
histVars   == <<late, blind>>
vars == <<deployVars, dbVars, proc, script, api, next, slips, histVars>>

CacheTables == <<"price_cache", "metadata_cache", "strategy_timings">>

\* What is looked up: a price at the time of each event, the document and the
\* timings that the creation of the pool names.
PricesNear   == 1..N
DocumentsOf(events) == events \cap {1}
TimingsOf(events)   == events \cap {1}
KeysOf == [price_cache |-> PricesNear, metadata_cache |-> DocumentsOf(1..N),
           strategy_timings |-> TimingsOf(1..N)]

\* lost holds the events behind the pointer whose open transaction ended with the
\* process.
NoLedger == [pointer |-> 0, handled |-> {}, failed |-> {}, lost |-> {}, times |-> "none"]
NoRows   == [t \in ToSet(CacheTables) |-> <<>>]
Off      == [at |-> "off", event |-> 0, times |-> "none"]
NoScript == [at |-> "idle", color |-> "blue", table |-> 1, total |-> 0, offset |-> 0,
             buffer |-> <<>>, start |-> [i \in DOMAIN CacheTables |-> {}],
             touched |-> FALSE, knows |-> FALSE, missing |-> FALSE]
NoApi    == [done |-> 0, over |-> {}, cut |-> TRUE]

Init ==
    /\ active = "none" /\ state = "single" /\ image = [c \in Colors |-> FALSE]
    /\ created = {} /\ migrated = [c \in Colors |-> {}]
    /\ ledger = [c \in Colors |-> NoLedger] /\ rows = [c \in Colors |-> NoRows]
    /\ proc = [c \in Colors |-> Off] /\ script = NoScript
    /\ api = [c \in Colors |-> NoApi]
    /\ next = 1 /\ slips = 0
    /\ late = [c \in Colors |-> FALSE] /\ blind = FALSE

HasProcessing(c) == "processing" \in migrated[c]
HasCache(c)      == "processing_cache" \in migrated[c]
Keys(c, t)       == {r[1] : r \in ToSet(rows[c][t])}

\* What a table may be once the rows are written to it, in the place of those of
\* their keys: the others keep their order, and the new ones are where there was
\* room.
Written(table, new) ==
    LET keys == {r[1] : r \in ToSet(new)}
        kept == Without(table, keys)
    IN  {t \in [1..(Len(kept) + Len(new)) -> ToSet(kept) \cup ToSet(new)] :
            Without(t, keys) = kept /\ ToSet(new) \subseteq ToSet(t)}

\* A row of the value for each of the keys.
RowsOf(keys, value) == [i \in DOMAIN keys |-> <<keys[i], value>>]

-----------------------------------------------------------------------------
(* The workflows.                                                           *)

\* should_deploy_module
Deployed(a, s, c) == a = c \/ (a # "none" /\ s = "deploying")

\* The processes of these colours end; a transaction that is open is rolled back,
\* and the pointer, written through the pool, stays.
End(colors) ==
    /\ proc' = [c \in Colors |-> IF c \in colors THEN Off ELSE proc[c]]
    /\ ledger' = [c \in Colors |->
                    IF c \in colors /\ proc[c].at = "commit"
                    THEN [ledger[c] EXCEPT !.lost = @ \cup {proc[c].event}] ELSE ledger[c]]

\* terraform apply: services start or end, and a new image is deployed anew; for
\* one deployed anew with the image it has, see Crash.
Apply(a, s, images) ==
    /\ active' = a /\ state' = s /\ image' = images
    /\ End({c \in Colors : ~Deployed(a, s, c) \/ images[c] # image[c]})
    /\ UNCHANGED <<created, migrated, rows, script, api, histVars>>

Nothing == UNCHANGED <<deployVars, dbVars, proc, script, api, histVars>>

DeployToAws(images) ==
    \E known \in images : Apply("green", "single", [image EXCEPT !["green"] = known])

DeployBlueGreen(c, images) ==
    IF active \in {"none", c} THEN Nothing
    ELSE \E known \in images : Apply(active, "deploying", [image EXCEPT ![c] = known])

PromoteBlueGreen(c) == IF active = c THEN Nothing ELSE Apply(c, "deploying", image)

DestroyBlueGreen(c) == IF active \in {"none", c} THEN Nothing ELSE Apply(active, "single", image)

-----------------------------------------------------------------------------
(* The scripts on the databases.                                            *)

\* createDatabaseIfNotExists for blue, then for green; the second may fail.
CreateDatabases(fails) ==
    /\ created' = created \cup IF fails THEN {"blue"} ELSE Colors
    /\ UNCHANGED <<deployVars, migrated, ledger, rows, proc, script, api, histVars>>

\* migrateToLatest: what the folder has not applied yet.
Latest(c, folder) == migrated' = [migrated EXCEPT ![c] = @ \cup {folder}]

Migrate(c, folder) ==
    IF c \notin created \/ folder \in migrated[c] THEN Nothing
    ELSE /\ Latest(c, folder)
         /\ late' = IF folder # "processing" THEN late
                    ELSE [late EXCEPT ![c] = proc[c].event > 1]
         /\ UNCHANGED <<deployVars, created, ledger, rows, proc, script, api, blind>>

\* Mutant: the down migration of the registry of events is forgotten.
MutantDropped(c, folder) == ledger' = [ledger EXCEPT ![c].handled = {}, ![c].failed = {}]

\* The down functions of the folder drop its tables.
Dropped(c, folder) == ledger' = IF folder = "processing" THEN [ledger EXCEPT ![c] = NoLedger]
                                                         ELSE ledger
DroppedRows(c, folder) == rows' = IF folder = "processing_cache" THEN [rows EXCEPT ![c] = NoRows]
                                                                 ELSE rows

\* resetDatabase: migrateTo(NO_MIGRATIONS).
RolledBack(c, folder) == /\ migrated' = [migrated EXCEPT ![c] = @ \ {folder}]
                         /\ Dropped(c, folder) /\ DroppedRows(c, folder)

\* Tables that an open transaction has written to are dropped when it has ended.
Reset(c, folder) ==
    IF c \notin created \/ folder \notin migrated[c] THEN Nothing
    ELSE /\ folder = "processing" => proc[c].at # "commit"
         /\ RolledBack(c, folder)
         /\ UNCHANGED <<deployVars, created, proc, script, api, histVars>>

\* The rows of table t that are missing are looked up through its caching
\* provider; some may fail.
Fill(c, t, fails) ==
    LET missing == KeysOf[t] \ Keys(c, t)
    IN  IF ~HasCache(c) THEN Nothing
        ELSE /\ \E found \in IF fails THEN SUBSET missing ELSE {missing} :
                \E table \in Written(rows[c][t], RowsOf(SetToSeq(found), "doc")) :
                  rows' = [rows EXCEPT ![c][t] = table]
             /\ UNCHANGED <<deployVars, created, migrated, ledger, proc, script, api, histVars>>

BootstrapMetadata(c, fails) == Fill(c, "metadata_cache", fails)
BootstrapPricing(c, fails)  == Fill(c, "price_cache", fails)

\* The timings script looks whether the row exists, and reads the contract if
\* its checkout has a handler for the strategy ...
BootstrapTimings(c) ==
    IF ~HasCache(c) THEN Nothing
    ELSE /\ \E known \in BOOLEAN :
              script' = [NoScript EXCEPT !.at = "timings", !.color = c, !.knows = known,
                                         !.missing = rows[c]["strategy_timings"] = <<>>]
         /\ UNCHANGED <<deployVars, dbVars, proc, api, histVars>>

\* ... then stores what it has.
StoreTimings ==
    /\ script.at = "timings"
    /\ LET c == script.color
           value == IF script.knows THEN "contract" ELSE "null"
       IN  IF script.missing
           THEN /\ \E table \in Written(rows[c]["strategy_timings"], RowsOf(<<1>>, value)) :
                     rows' = [rows EXCEPT ![c]["strategy_timings"] = table]
                /\ blind' = (blind \/ value = "null")
           ELSE UNCHANGED <<rows, blind>>
    /\ script' = NoScript
    /\ UNCHANGED <<deployVars, created, migrated, ledger, proc, api, next, slips, late>>

-----------------------------------------------------------------------------
(* copyCacheData: each table in turn is truncated in the target, counted in *)
(* the source, and copied in batches.                                       *)

CopyCache(from) ==
    /\ script' = [NoScript EXCEPT !.at = "truncate", !.color = from]
    /\ UNCHANGED <<deployVars, dbVars, proc, api, histVars>>

Table    == CacheTables[script.table]
Source   == rows[script.color][Table]
Target   == Other(script.color)
otherVars == <<deployVars, created, migrated, ledger, proc, api, next, slips, histVars>>

\* The next table, or the end.
NextTable(s) == IF s.table = Len(CacheTables)
                THEN [s EXCEPT !.at = "done", !.table = @ + 1]
                ELSE [s EXCEPT !.at = "truncate", !.table = @ + 1]

\* TRUNCATE fails where the table does not exist, and the script with it.
Truncate ==
    /\ script.at = "truncate"
    /\ IF HasCache(Target)
       THEN /\ rows' = [rows EXCEPT ![Target][Table] = <<>>]
            /\ script' = [script EXCEPT !.at = "count"]
       ELSE script' = NoScript /\ UNCHANGED rows
    /\ UNCHANGED otherVars

\* Mutant: an off by one in the number of rows.
MutantCounted(table) == IF table = <<>> THEN 0 ELSE Len(table) - 1

\* SELECT COUNT(*)
Counted(table) == Len(table)

\* A source without the table, or without rows, is skipped.
Count ==
    /\ script.at = "count"
    /\ script' = IF ~HasCache(script.color) \/ Counted(Source) = 0
                 THEN NextTable(script)
                 ELSE [script EXCEPT !.at = "fetch", !.total = Counted(Source), !.offset = 0,
                                     !.start[script.table] = ToSet(Source)]
    /\ UNCHANGED <<otherVars, rows>>

\* The rows of a table from the given place on, at most size of them.
Page(table, from, size) ==
    SubSeq(table, from + 1, IF from + size < Len(table) THEN from + size ELSE Len(table))

\* SELECT * LIMIT fetchBatchSize OFFSET offset, until offset reaches total.
Fetch ==
    /\ script.at = "fetch"
    /\ script' = IF script.offset >= script.total THEN NextTable(script)
                 ELSE [script EXCEPT !.at = "insert", !.offset = @ + FetchBatch,
                         !.buffer = Page(Source, script.offset, FetchBatch)]
    /\ UNCHANGED <<otherVars, rows>>

\* An insertion of a key that is there fails, and the script with it.
Insert ==
    /\ script.at = "insert"
    /\ LET batch == Page(script.buffer, 0, InsertBatch)
           rest  == SubSeq(script.buffer, InsertBatch + 1, Len(script.buffer))
       IN  IF \E r \in ToSet(batch) : r[1] \in Keys(Target, Table)
           THEN script' = NoScript /\ UNCHANGED rows
           ELSE /\ \E table \in Written(rows[Target][Table], batch) :
                     rows' = [rows EXCEPT ![Target][Table] = table]
                /\ script' = IF rest # <<>> THEN [script EXCEPT !.buffer = rest]
                             ELSE [script EXCEPT !.buffer = <<>>, !.at = "fetch"]
    /\ UNCHANGED otherVars

CopyDone ==
    /\ script.at = "done"
    /\ script' = NoScript
    /\ UNCHANGED <<otherVars, rows>>

-----------------------------------------------------------------------------
(* configureHasura                                                          *)

Present(folders) == UNION {TablesOf[f] : f \in folders}
AcceptedOver == [folders \in SUBSET Folders |-> Accepted(Present(folders))]

\* The metadata is cleared first; then the run goes on until the last step,
\* the first refusal or a failure of the connection.
Configure(c, fails) ==
    IF c \notin created \/ ~Deployed(active, state, c) THEN Nothing
    ELSE /\ \E cut \in IF fails THEN Cuts ELSE {AcceptedOver[migrated[c]]} :
              /\ cut <= AcceptedOver[migrated[c]]
              /\ api' = [api EXCEPT ![c] = [done |-> cut, over |-> migrated[c],
                                            cut |-> cut < AcceptedOver[migrated[c]]]]
         /\ UNCHANGED <<deployVars, dbVars, proc, script, histVars>>

-----------------------------------------------------------------------------
(* The processing service of colour c: the loop of one of its chains.       *)

serviceVars == <<deployVars, created, migrated, api, next, late, blind>>

Goto(c, at, event) == proc' = [proc EXCEPT ![c] = [Off EXCEPT !.at = at, !.event = event]]

\* initialize reads strategies_registry; without it the process exits and is
\* started again.
Boot(c) ==
    /\ proc[c].at = "off" /\ Deployed(active, state, c)
    /\ c \in created /\ HasCache(c)
    /\ Goto(c, "idle", 0)
    /\ UNCHANGED <<serviceVars, ledger, rows, script, slips>>

\* getNextEventsBatch; without the tables it throws and is tried again.
ReadPointer(c) ==
    /\ proc[c].at = "idle" /\ HasProcessing(c) /\ ledger[c].pointer < N
    /\ Goto(c, "fetched", ledger[c].pointer + 1)
    /\ UNCHANGED <<serviceVars, ledger, rows, script, slips>>

\* The cache tables after the lookups of event k: where its row is missing it
\* is stored, a price together with the others that came with it; without the
\* tables nothing is.  Lookups that fail are those of Pricing and Service.
Looked(c, k, prices) ==
    LET After(t, keys) == IF HasCache(c) /\ k \in KeysOf[t] \ Keys(c, t)
                          THEN Written(rows[c][t], RowsOf(keys, "doc"))
                          ELSE {rows[c][t]}
    IN  {[rows[c] EXCEPT !["price_cache"] = near, !["metadata_cache"] = documents] :
            near \in After("price_cache", prices), documents \in After("metadata_cache", <<k>>)}

\* A service writes to its cache tables.  The copy is touched if that moves rows
\* of the table that it has counted.
Writes(c, tables) ==
    /\ rows' = [rows EXCEPT ![c] = tables]
    /\ script' = [script EXCEPT !.touched =
                    @ \/ /\ script.at \in {"fetch", "insert"} /\ script.color = c
                         /\ ~IsPrefix(Source, tables[Table])]

\* bulkFetchMetadataAndPricesForBatch, then enqueueEvents: getTokenPrices
\* may write what is near the event again.
Prefetch(c) ==
    LET k == proc[c].event
    IN  /\ proc[c].at = "fetched"
        /\ \E prices \in {<<k>>, [i \in 1..k |-> i]} :
             \E tables \in Looked(c, k, prices) : Writes(c, tables)
        /\ Goto(c, "batch", k)
        /\ UNCHANGED <<serviceVars, ledger, slips>>

\* Mutant: the catch block does not save the pointer.
MutantFailed(l, k) == l

\* The catch block saves the pointer and goes on.
Failed(l, k) == [l EXCEPT !.failed = @ \cup {k}, !.pointer = k]

\* Mutant: the timings are stored for a strategy without a handler too.
MutantStoresTimings(c) == HasCache(c) /\ rows[c]["strategy_timings"] = <<>>

\* Timings that are not in the cache are read from the contract and stored.
StoresTimings(c) == HasCache(c) /\ image[c] /\ rows[c]["strategy_timings"] = <<>>

TimesRead(c) == IF image[c] THEN "contract" ELSE "null"

\* The cache tables after PoolCreated, which looks up and stores before it
\* meets the processing tables.
PoolLooked(c) ==
    IF StoresTimings(c)
    THEN {[tables EXCEPT !["strategy_timings"] = timings] : tables \in Looked(c, 1, <<1>>),
            timings \in Written(rows[c]["strategy_timings"], RowsOf(<<1>>, TimesRead(c)))}
    ELSE Looked(c, 1, <<1>>)

\* PoolCreated: the round gets the timings of the cache, null included, or
\* those of the contract; without a handler, null.
PoolTimes(c) ==
    LET table == rows[c]["strategy_timings"]
    IN  IF ~image[c] THEN "unhandled" ELSE IF table = <<>> THEN TimesRead(c) ELSE Head(table)[2]

\* A handler fails without the cache tables, and a later event needs the round
\* and a handler.
Handles(c, k) ==
    IF k = 1 THEN image[c] => HasCache(c)
             ELSE image[c] /\ HasProcessing(c) /\ 1 \in ledger[c].handled

\* The event is handled and its changes are in an open transaction, with the
\* pointer written behind them through the pool; or it fails.  Without the
\* processing tables the catch block throws as well and the loop ends.
Handle(c) ==
    LET k == proc[c].event
    IN  /\ proc[c].at = "batch"
        /\ \E tables \in IF k = 1 THEN PoolLooked(c)
                         ELSE IF Handles(c, k) THEN Looked(c, k, <<k>>)
                         ELSE {rows[c]} : Writes(c, tables)
        /\ \/ ~HasProcessing(c) /\ Goto(c, "dead", 0) /\ UNCHANGED ledger
           \/ /\ HasProcessing(c) /\ ~Handles(c, k)
              /\ Goto(c, "idle", 0) /\ ledger' = [ledger EXCEPT ![c] = Failed(@, k)]
           \/ /\ HasProcessing(c) /\ Handles(c, k)
              /\ proc' = [proc EXCEPT ![c].at = "commit",
                            ![c].times = IF k = 1 THEN PoolTimes(c) ELSE ledger[c].times]
              /\ ledger' = [ledger EXCEPT ![c].pointer = k]
        /\ UNCHANGED <<serviceVars, slips>>

Commit(c) ==
    /\ proc[c].at = "commit" /\ Goto(c, "idle", 0)
    /\ ledger' = [ledger EXCEPT ![c].handled = @ \cup {proc[c].event}, ![c].times = proc[c].times]
    /\ UNCHANGED <<serviceVars, rows, script, slips>>

\* The transaction is rolled back, and the event reported.
CommitFails(c) ==
    /\ proc[c].at = "commit" /\ Goto(c, "idle", 0)
    /\ slips < MaxSlips /\ slips' = slips + 1
    /\ ledger' = [ledger EXCEPT ![c] = Failed(@, proc[c].event)]
    /\ UNCHANGED <<serviceVars, rows, script>>

\* The process ends once the loops of its other chains have ended as well, which
\* may be never, and is started again.
Settle(c) ==
    /\ proc[c].at = "dead" /\ End({c})
    /\ UNCHANGED <<serviceVars, rows, script, slips>>

\* The process ends, for whatever reason, and is started again.
Crash(c) ==
    /\ proc[c].at # "off" /\ slips < MaxSlips /\ slips' = slips + 1
    /\ End({c})
    /\ UNCHANGED <<serviceVars, rows, script>>

-----------------------------------------------------------------------------
Run(k, fails) ==
    \/ k.command = "create" /\ CreateDatabases(fails)
    \/ k.command = "deploy-to-aws" /\ DeployToAws(k.images)
    \/ k.command = "deploy" /\ DeployBlueGreen(k.color, k.images)
    \/ k.command = "promote" /\ PromoteBlueGreen(k.color)
    \/ k.command = "destroy" /\ DestroyBlueGreen(k.color)
    \/ k.command = "migrate" /\ Migrate(k.color, k.folder)
    \/ k.command = "reset" /\ Reset(k.color, k.folder)
    \/ k.command = "metadata" /\ BootstrapMetadata(k.color, fails)
    \/ k.command = "pricing" /\ BootstrapPricing(k.color, fails)
    \/ k.command = "timings" /\ BootstrapTimings(k.color)
    \/ k.command = "copy" /\ CopyCache(k.color)
    \/ k.command = "configure" /\ Configure(k.color, fails)

Slip == slips < MaxSlips /\ slips' = slips + 1

FollowRunbook == /\ next <= Len(Runbook) /\ next' = next + 1
                 /\ \/ Run(Runbook[next], FALSE) /\ UNCHANGED slips
                    \/ Run(Runbook[next], TRUE) /\ Slip
                    \/ Nothing /\ Slip
ExtraCommand  == Slip /\ (\E k \in ToSet(Runbook) : Run(k, FALSE)) /\ UNCHANGED next

Operator == /\ script.at = "idle"
            /\ FollowRunbook \/ ExtraCommand

ScriptStep == StoreTimings \/ Truncate \/ Count \/ Fetch \/ Insert \/ CopyDone

\* The script is interrupted.
CutScript == script.at # "idle" /\ Slip /\ script' = NoScript
             /\ UNCHANGED <<deployVars, dbVars, proc, api, next, histVars>>

ServiceStep(c) == Boot(c) \/ ReadPointer(c) \/ Prefetch(c) \/ Handle(c) \/ Commit(c)

Next == \/ Operator \/ ScriptStep \/ CutScript
        \/ \E c \in Colors : ServiceStep(c) \/ CommitFails(c) \/ Settle(c) \/ Crash(c)

\* The services run on their own; the operator may stop at any time, and the other
\* chains of a process may go on for ever.
Spec == Init /\ [][Next]_vars /\ \A c \in Colors : WF_vars(ServiceStep(c))

-----------------------------------------------------------------------------

\* The event whose changes are in a transaction that is open.
Open(c) == IF proc[c].at = "commit" THEN {proc[c].event} ELSE {}

\* Whatever resets, migrations, promotions and restarts came before, the pointer
\* of a database has gone past no event, from the first on, whose changes are not
\* stored and which was not reported, with two exceptions: a process that ends
\* between the write of the pointer and the commit loses the event it was in, and
\* a service that was in a later event while its tables were created anew leaves
\* out those before.
AppliedFromStart ==
    \A c \in Colors : ~late[c] =>
        1..ledger[c].pointer =
            ledger[c].handled \cup ledger[c].failed \cup ledger[c].lost \cup Open(c)

\* What db:copy-cache has finished is in the target, every row that the source
\* had when it was counted, with the services of both colours writing, as long as
\* no write moves the rows of a table between its count and its last batch.  The
\* script claims it of every copy that ends ("Successfully copied cache data"),
\* but it pages without an order (theorem CopyMayMiss).
CopyFollowsSource ==
    script.at \in {"truncate", "count", "fetch", "insert", "done"} /\ ~script.touched =>
        \A i \in 1..(script.table - 1) :
            script.start[i] \subseteq ToSet(rows[Target][CacheTables[i]])

AllSteps == Steps(Present(Folders))

\* Whether the metadata after k steps is whole.
CompleteAfter ==
    [k \in 0..Len(AllSteps) |->
        LET done == ToSet(SubSeq(AllSteps, 1, k))
        IN  /\ k = Len(AllSteps) /\ Tracked(done) = Permitted(done)
            /\ \A fk \in ToSet(ForeignKeys) :
                 /\ Relationship(fk[2], fk[1], fk[1]) \in done
                 /\ Relationship(fk[1], Singular[fk[2]], fk[2]) \in done]

\* api:configure over a database with both folders runs to its end unless the
\* connection fails, and then every foreign key can be followed both ways and
\* every table it tracks can be read.
ApiComplete ==
    \A c \in Colors : api[c].over = Folders /\ ~api[c].cut => CompleteAfter[api[c].done]

\* A round whose image has a handler has the times of its contract, whatever
\* wrote and copied the cached timings, unless a bootstrap from a checkout
\* without the handler stored null for them.
TimesFromContract == \A c \in Colors : ledger[c].times = "null" => blind

\* A deployed service whose tables exist catches up with the indexer, however
\* often its tables were reset or it was started again, unless the loop met the
\* reset in its catch block and has ended, in a process that has not.
CatchesUp ==
    \A c \in Colors : []<>(\/ ~Deployed(active, state, c) \/ migrated[c] # Folders
                           \/ proc[c].at = "dead" \/ ledger[c].pointer = N)
=============================================================================
