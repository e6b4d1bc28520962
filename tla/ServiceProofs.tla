--------------------------- MODULE ServiceProofs ---------------------------
(***************************************************************************)
(* Theorems of Service, for every set of chains and of documents and every *)
(* size of the pool, number of tries, gateways, events and restarts.       *)
(***************************************************************************)
EXTENDS Service, FiniteSetTheorems, FunctionTheorems, TLAPS

TxLabels    == {"begin", "write", "pointer", "commit"}
QueryLabels == {"boot", "reading", "asking", "pointer", "catch"}

VarTypes ==
    /\ phase \in {"initialize", "running", "exited"}
    /\ aborted \in BOOLEAN /\ ended \in BOOLEAN
    /\ restarts \in 0..MaxRestarts
    /\ pc \in [Chains -> Labels]
    /\ lookup \in [Chains -> [Keys -> Lookups]]
    /\ queue \in [Chains -> SUBSET Docs]
    /\ todo \in [Chains -> 0..MaxEvents]
    /\ memory \in [Docs -> Values] /\ table \in [Docs -> Values]
    /\ earned \subseteq Docs

\* What is in a queue is still to be handled.
QueueOK == \A c \in Chains : Cardinality(queue[c]) <= todo[c]

\* Nobody waits while a connection is free, until the pool is destroyed.
PoolOK ==
    /\ lent \subseteq Clients /\ waiting \subseteq Clients
    /\ lent \cap waiting = {}
    /\ Cardinality(lent) <= PoolSize
    /\ waiting # {} /\ ~ended => Cardinality(lent) = PoolSize

\* InUse, one conjunct for each role of a client; and a transaction under way
\* has its connection.
UseOK ==
    /\ \A c \in Chains : <<c, "tx">> \in lent \cup waiting => pc[c] \in TxLabels
    /\ \A c \in Chains : <<c, "query">> \in lent \cup waiting => pc[c] \in QueryLabels
    /\ \A c \in Chains, k \in Keys :
          <<c, k>> \in lent \cup waiting => lookup[c][k].at \in {"get", "set", "reply"}
    /\ \A c \in Chains : pc[c] \in {"write", "pointer", "commit"} => <<c, "tx">> \in lent

\* The loop of a chain goes on only when its lookups have come back, and the
\* pool ends only when the loops have.
AwaitOK ==
    /\ \A c \in Chains, k \in Keys :
          lookup[c][k].at # "idle" => pc[c] \in {"prefetch", "handling"}
    /\ ended => \A c \in Chains : pc[c] \in {"stopped", "dead", "down"}
    /\ phase = "exited" => \A c \in Chains : pc[c] = "down"
    /\ phase = "exited" => lent = {} /\ waiting = {}

\* A lookup has failed as often as it counts, and null comes from one that has
\* given up or found it.
NullOK ==
    /\ NullIsEarned
    /\ \A c \in Chains, k \in Docs :
          /\ lookup[c][k].at = "fetch" =>
                /\ lookup[c][k].tries = lookup[c][k].failed
                /\ lookup[c][k].failed < MaxTry
          /\ lookup[c][k].value = "null" => k \in earned

IInv == VarTypes /\ QueueOK /\ PoolOK /\ UseOK /\ AwaitOK /\ NullOK
-----------------------------------------------------------------------------
(* Lemmas about the pool. *)

LEMMA RolesApart ==
    /\ Docs \subseteq Keys /\ "price" \in Keys
    /\ "tx" \notin Keys /\ "query" \notin Keys /\ Keys \cap Writes = {}
    /\ "tx" \notin Writes /\ "query" \notin Writes
    /\ Roles = Keys \cup Writes \cup {"tx", "query"}
    /\ {"tx", "query"} \cup Keys \cup Writes \subseteq Roles
BY ServiceAssumption DEF Keys, Roles

\* Giving back, asking and getting connections keeps the pool in order: clients
\* keep what they do not give back, and nobody appears who has not asked.
LEMMA ServeKeeps ==
  ASSUME PoolOK, NEW freed, NEW asked, asked \subseteq Clients,
         asked \cap (lent \ freed) = {}, Serve(freed, asked)
  PROVE  /\ PoolOK'
         /\ lent' \cup waiting' = ((lent \cup waiting) \ freed) \cup asked
         /\ lent \ freed \subseteq lent'
         /\ ended' = ended
<1>. DEFINE kept   == lent \ freed
            demand == (waiting \ freed) \cup asked
<1>1. PICK served \in SUBSET demand :
        /\ Cardinality(kept \cup served) <= PoolSize
        /\ ~ended => served = demand \/ Cardinality(kept \cup served) = PoolSize
        /\ lent' = kept \cup served
        /\ waiting' = demand \ served
        /\ ended' = ended
  BY DEF Serve, Capacity
<1>2. kept \cap demand = {}
  BY DEF PoolOK
<1>3. lent' \subseteq Clients /\ waiting' \subseteq Clients
  BY <1>1 DEF PoolOK
<1>4. lent' \cap waiting' = {}
  BY <1>1, <1>2
<1>5. waiting' # {} /\ ~ended' => Cardinality(lent') = PoolSize
  BY <1>1
<1>. QED
  BY <1>1, <1>3, <1>4, <1>5 DEF PoolOK

-----------------------------------------------------------------------------
(* The invariant is inductive. *)

\* The lookups the actions write, and what writing one does.
LEMMA LookupKinds ==
    /\ NoLookup \in Lookups
    /\ [NoLookup EXCEPT !.at = "get"] \in Lookups
    /\ [NoLookup EXCEPT !.at = "fetch"] \in Lookups
    /\ \A v \in Values : [NoLookup EXCEPT !.at = "reply", !.value = v] \in Lookups
    /\ \A v \in Values : [NoLookup EXCEPT !.at = "set", !.value = v] \in Lookups
    /\ \A l \in Lookups : [l EXCEPT !.at = "reply"] \in Lookups /\ l.value \in Values
    /\ \A l \in Lookups, n, m \in 0..MaxTry :
          [l EXCEPT !.tries = n, !.failed = m] \in Lookups
<1>1. 0 \in 0..MaxTry
  BY ServiceAssumption
<1>. QED
  BY <1>1 DEF Lookups, NoLookup, Stages, Values

LEMMA OneMore == \A n \in 0..MaxTry : n < MaxTry => n + 1 \in 0..MaxTry
BY ServiceAssumption

LookupType == lookup \in [Chains -> [Keys -> Lookups]]

LEMMA StageType ==
  ASSUME LookupType, NEW c \in Chains, NEW k \in Keys, NEW l \in Lookups, Stage(c, k, l)
  PROVE  LookupType'
BY DEF Stage, LookupType

LEMMA StartType ==
  ASSUME LookupType, NEW c \in Chains, NEW K, StartLookups(c, K)
  PROVE  LookupType'
<1>1. [k \in Keys |-> IF k \in Misses(K) THEN [NoLookup EXCEPT !.at = "get"]
                                      ELSE lookup[c][k]] \in [Keys -> Lookups]
  BY LookupKinds DEF LookupType
<1>. QED
  BY <1>1 DEF StartLookups, LookupType

\* Taking a document off the queue leaves the chain something to do before, and
\* the rest of the queue after.
LEMMA QueueAhead ==
  ASSUME VarTypes, QueueOK, NEW c \in Chains, NEW k \in queue[c]
  PROVE  /\ todo[c] - 1 \in 0..MaxEvents
         /\ Cardinality(queue[c] \ {k}) <= todo[c] - 1
<1>1. IsFiniteSet(queue[c])
  BY FS_Subset, ServiceAssumption DEF VarTypes
<1>2. Cardinality(queue[c] \ {k}) = Cardinality(queue[c]) - 1
  BY <1>1, FS_RemoveElement
<1>3. Cardinality(queue[c] \ {k}) \in Nat /\ Cardinality(queue[c]) \in Nat
  BY <1>1, FS_RemoveElement, FS_CardinalityType
<1>4. todo[c] \in 0..MaxEvents /\ Cardinality(queue[c]) <= todo[c]
  BY DEF VarTypes, QueueOK
<1>. QED
  BY <1>2, <1>3, <1>4, ServiceAssumption

\* What a try that does not decide writes, and one that does.
LEMMA TryKinds ==
  ASSUME VarTypes, NullOK, NEW c \in Chains, NEW k \in Docs, Try(c, k)
  PROVE  /\ \E l \in Lookups : Stage(c, k, l)
         /\ \/ /\ Stage(c, k, [NoLookup EXCEPT !.at = "set", !.value = "doc"])
               /\ Serve({}, {<<c, k>>})
            \/ /\ Stage(c, k, [NoLookup EXCEPT !.at = "set", !.value = "null"])
               /\ Serve({}, {<<c, k>>})
               /\ k \in earned'
            \/ /\ Stage(c, k, [lookup[c][k] EXCEPT !.tries = @ + 1, !.failed = @ + 1])
               /\ UNCHANGED poolVars
               /\ lookup[c][k].tries + 1 # MaxTry
         /\ earned \subseteq earned'
<1>. DEFINE now == lookup[c][k]
<1>1. now \in Lookups /\ now.tries = now.failed /\ now.failed < MaxTry
  BY RolesApart DEF VarTypes, NullOK, Try
<1>2. now.failed + 1 \in 0..MaxTry
  BY <1>1, OneMore DEF Lookups
<1>3. PICK answers \in [1..Gateways -> {"doc", "null", "garbage", "error"}] :
        LET content == FromGateways(answers)
            found   == content \in {"doc", "null"}
        IN  /\ earned' = IF content = "null" \/ (~found /\ now.failed + 1 = MaxTry)
                         THEN earned \cup {k} ELSE earned
            /\ IF found \/ GivesUp(c, k)
               THEN /\ Stage(c, k, [NoLookup EXCEPT !.at = "set",
                              !.value = IF found THEN content ELSE "null"])
                    /\ Serve({}, {<<c, k>>})
               ELSE /\ Stage(c, k, [now EXCEPT !.tries = @ + 1, !.failed = @ + 1])
                    /\ UNCHANGED poolVars
  BY DEF Try
<1>. DEFINE content == FromGateways(answers)
            found   == content \in {"doc", "null"}
<1>4. /\ earned' = IF content = "null" \/ (~found /\ now.failed + 1 = MaxTry)
                   THEN earned \cup {k} ELSE earned
      /\ found \/ now.failed + 1 = MaxTry =>
            /\ Stage(c, k, [NoLookup EXCEPT !.at = "set", !.value = IF found THEN content ELSE "null"])
            /\ Serve({}, {<<c, k>>})
      /\ ~(found \/ now.failed + 1 = MaxTry) =>
            /\ Stage(c, k, [now EXCEPT !.tries = @ + 1, !.failed = @ + 1])
            /\ UNCHANGED poolVars
  BY <1>1, <1>3 DEF GivesUp
<1>5. [now EXCEPT !.tries = @ + 1, !.failed = @ + 1] \in Lookups
  BY <1>1, <1>2, LookupKinds
<1>. HIDE DEF content
<1>6. CASE content = "doc"
  BY <1>4, <1>6, LookupKinds DEF Values
<1>7. CASE content = "null"
  BY <1>4, <1>7, LookupKinds DEF Values
<1>8. CASE ~found /\ now.failed + 1 = MaxTry
  BY <1>4, <1>8, LookupKinds DEF Values
<1>9. CASE ~found /\ now.failed + 1 # MaxTry
  BY <1>1, <1>4, <1>5, <1>9
<1>. QED
  BY <1>6, <1>7, <1>8, <1>9

LEMMA TypeStep == IInv /\ [Next]_vars => VarTypes'
<1>. SUFFICES ASSUME IInv, [Next]_vars PROVE VarTypes'
  OBVIOUS
<1>. USE DEF IInv, VarTypes, procVars, poolVars, cacheVars
<1>1. CASE Misconfigured
  BY <1>1, LookupKinds DEF Misconfigured, Down, Labels
<1>2. CASE Start
  BY <1>2 DEF Start, Labels
<1>3. CASE Signal
  BY <1>3 DEF Signal
<1>4. CASE ReleaseResources
  BY <1>4 DEF ReleaseResources
<1>5. CASE Exit
  BY <1>5, LookupKinds DEF Exit, Down, Labels
<1>6. CASE Crash
  BY <1>6, LookupKinds DEF Crash, Down, Labels
<1>7. CASE Restart
  <2>1. restarts' \in 0..MaxRestarts
    BY <1>7, ServiceAssumption DEF Restart
  <2>. QED
    BY <1>7, <2>1 DEF Restart, Labels, Values
<1>8. ASSUME NEW c \in Chains, InitializeStep(c) PROVE VarTypes'
  <2>1. CASE LoadStrategies(c) \/ StrategiesLoaded(c)
    BY <2>1 DEF LoadStrategies, StrategiesLoaded, Serve, Goto, Labels
  <2>2. CASE LoadFails(c)
    BY <2>2, LookupKinds DEF LoadFails, Down, Labels
  <2>. QED
    BY <1>8, <2>1, <2>2 DEF InitializeStep
<1>9. ASSUME NEW c \in Chains, LoopStep(c) PROVE VarTypes'
  <2>1. CASE Prefetch(c)
    <3>1. LookupType'
      BY <2>1, StartType DEF Prefetch, LookupType
    <3>2. queue' \in [Chains -> SUBSET Docs]
      BY <2>1 DEF Prefetch
    <3>. QED
      BY <2>1, <3>1, <3>2 DEF Prefetch, Serve, ClearCache, Goto, Labels, LookupType
  <2>2. CASE Handle(c)
    <3>1. LookupType'
      BY <2>2, StartType DEF Handle, LookupType
    <3>2. PICK k \in queue[c] : queue' = [queue EXCEPT ![c] = @ \ {k}]
      BY <2>2 DEF Handle
    <3>3. todo' = [todo EXCEPT ![c] = @ - 1]
      BY <2>2 DEF Handle
    <3>4. queue' \in [Chains -> SUBSET Docs]
      BY <3>2
    <3>5. todo' \in [Chains -> 0..MaxEvents]
      BY <3>2, <3>3, QueueAhead
    <3>. QED
      BY <2>2, <3>1, <3>4, <3>5 DEF Handle, Serve, Goto, Labels, LookupType
  <2>3. CASE GiveUp(c)
    <3>2. PICK k \in queue[c] : queue' = [queue EXCEPT ![c] = @ \ {k}]
      BY <2>3 DEF GiveUp
    <3>3. todo' = [todo EXCEPT ![c] = @ - 1]
      BY <2>3 DEF GiveUp
    <3>. QED
      BY <2>3, <3>2, <3>3, QueueAhead DEF GiveUp, Serve, Goto, Labels
  <2>4. CASE Stop(c) \/ ReadPointer(c) \/ NothingFetched(c) \/ Enqueue(c) \/ Pop(c)
    BY <2>4 DEF Stop, ReadPointer, NothingFetched, Enqueue, Pop, Serve, loopVars, Goto, Labels
  <2>5. CASE Ask(c) \/ Begin(c) \/ Begun(c) \/ Write(c) \/ SavePointer(c) \/ Commit(c)
    BY <2>5 DEF Ask, Begin, Begun, Write, SavePointer, Commit, Serve, loopVars, Goto, Labels
  <2>6. CASE AttemptFails(c) \/ Caught(c) \/ CatchFails(c)
    BY <2>6 DEF AttemptFails, Caught, CatchFails, Serve, loopVars, Goto, Labels
  <2>7. CASE Retry(c)
    <3>1. LookupType'
      BY <2>7, StartType DEF Retry, LookupType
    <3>. QED
      BY <2>7, <3>1 DEF Retry, Serve, loopVars, Goto, Labels, LookupType
  <2>. QED
    BY <1>9, <2>1, <2>2, <2>3, <2>4, <2>5, <2>6, <2>7 DEF LoopStep
<1>10. ASSUME NEW c \in Chains, NEW k \in Docs, LookupStep(c, k) PROVE VarTypes'
  <2>. USE DEF lookupVars, Serve
  <2>0. k \in Keys
    BY RolesApart
  <2>1. CASE GetRow(c, k) \/ GetFails(c, k)
    <3>1. LookupType'
      BY <2>0, <2>1, StageType, LookupKinds DEF GetRow, GetFails, LookupType
    <3>. QED
      BY <2>1, <3>1 DEF GetRow, GetFails, LookupType
  <2>2. CASE Try(c, k)
    <3>1. PICK l \in Lookups : Stage(c, k, l)
      BY <2>2, TryKinds
    <3>2. LookupType'
      BY <2>0, <3>1, StageType DEF LookupType
    <3>3. earned' \subseteq Docs
      BY <2>2 DEF Try
    <3>. QED
      BY <2>2, <3>2, <3>3 DEF Try, LookupType
  <2>3. CASE SetRow(c, k) \/ Reply(c, k) \/ SetFails(c, k)
    <3>1. lookup[c][k] \in Lookups /\ lookup[c][k].value \in Values
      BY <2>0 DEF Lookups
    <3>2. LookupType'
      BY <2>0, <2>3, <3>1, StageType, LookupKinds DEF SetRow, Reply, SetFails, LookupType
    <3>. QED
      BY <2>3, <3>1, <3>2 DEF SetRow, Reply, SetFails, LookupType
  <2>. QED
    BY <1>10, <2>1, <2>2, <2>3 DEF LookupStep
<1>11. ASSUME NEW c \in Chains, PriceStep(c) PROVE VarTypes'
  <2>1. LookupType'
    BY <1>11, StageType, LookupKinds, RolesApart
    DEF PriceStep, GetPrices, GetFails, PricesFetched, LookupType
  <2>. QED
    BY <1>11, <2>1 DEF PriceStep, GetPrices, GetFails, PricesFetched, lookupVars, Serve, LookupType
<1>12. ASSUME NEW c \in Chains, NEW w \in Writes, WriteEnds(c, w) PROVE VarTypes'
  BY <1>12 DEF WriteEnds, lookupVars, Serve
<1>13. CASE UNCHANGED vars
  BY <1>13 DEF vars
<1>. QED
  BY <1>1, <1>2, <1>3, <1>4, <1>5, <1>6, <1>7, <1>8, <1>9, <1>10, <1>11, <1>12, <1>13 DEF Next

LEMMA QueueStep == IInv /\ [Next]_vars => QueueOK'
<1>. SUFFICES ASSUME IInv, [Next]_vars PROVE QueueOK'
  OBVIOUS
<1>. USE DEF IInv, QueueOK
<1>1. ASSUME Down, UNCHANGED todo PROVE QueueOK'
  <2>1. Cardinality({}) = 0
    BY FS_EmptySet
  <2>. QED
    BY <1>1, <2>1, ServiceAssumption DEF Down, VarTypes
<1>2. CASE Misconfigured \/ Exit \/ Crash
  BY <1>1, <1>2 DEF Misconfigured, Exit, Crash
<1>3. CASE Start \/ Signal \/ ReleaseResources \/ Restart
  BY <1>3 DEF Start, Signal, ReleaseResources, Restart
<1>4. ASSUME NEW c \in Chains, InitializeStep(c) PROVE QueueOK'
  BY <1>1, <1>4 DEF InitializeStep, LoadStrategies, StrategiesLoaded, LoadFails
<1>5. ASSUME NEW c \in Chains, LoopStep(c) PROVE QueueOK'
  <2>1. CASE Prefetch(c)
    <3>1. PICK batch \in SUBSET Docs : /\ Cardinality(batch) <= todo[c]
                                       /\ queue' = [queue EXCEPT ![c] = batch]
      BY <2>1 DEF Prefetch
    <3>. QED
      BY <2>1, <3>1 DEF Prefetch, VarTypes
  <2>2. CASE Handle(c) \/ GiveUp(c)
    <3>1. PICK k \in queue[c] : queue' = [queue EXCEPT ![c] = @ \ {k}]
      BY <2>2 DEF Handle, GiveUp
    <3>2. todo' = [todo EXCEPT ![c] = @ - 1]
      BY <2>2 DEF Handle, GiveUp
    <3>3. Cardinality(queue[c] \ {k}) <= todo[c] - 1
      BY <3>1, QueueAhead
    <3>. QED
      BY <3>1, <3>2, <3>3 DEF VarTypes
  <2>3. ASSUME UNCHANGED <<queue, todo>> PROVE QueueOK'
    BY <2>3
  <2>. QED
    BY <1>5, <2>1, <2>2, <2>3 DEF LoopStep, Stop, ReadPointer, NothingFetched, Enqueue, Pop,
       Ask, Retry, Begin, Begun, Write, SavePointer, Commit, AttemptFails, Caught, CatchFails, loopVars
<1>6. ASSUME NEW c \in Chains, NEW k \in Docs, LookupStep(c, k) PROVE QueueOK'
  BY <1>6 DEF LookupStep, GetRow, GetFails, Try, SetRow, Reply, SetFails, lookupVars
<1>7. ASSUME NEW c \in Chains, PriceStep(c) \/ \E w \in Writes : WriteEnds(c, w) PROVE QueueOK'
  BY <1>7 DEF PriceStep, GetPrices, GetFails, PricesFetched, WriteEnds, lookupVars
<1>8. CASE UNCHANGED vars
  BY <1>8 DEF vars
<1>. QED
  BY <1>2, <1>3, <1>4, <1>5, <1>6, <1>7, <1>8 DEF Next

\* A step of the loop of c that changes only what c itself holds.
LEMMA LoopServe ==
  ASSUME PoolOK, UseOK, VarTypes, UNCHANGED lookup,
         NEW c \in Chains, NEW l \in Labels, Goto(c, l),
         NEW freed \in SUBSET {<<c, "tx">>, <<c, "query">>},
         NEW asked \in SUBSET {<<c, "tx">>, <<c, "query">>},
         asked \cap (lent \ freed) = {},
         Serve(freed, asked),
         <<c, "tx">> \in ((lent \cup waiting) \ freed) \cup asked => l \in TxLabels,
         <<c, "query">> \in ((lent \cup waiting) \ freed) \cup asked => l \in QueryLabels,
         l \in {"write", "pointer", "commit"} => <<c, "tx">> \in lent \ freed
  PROVE  PoolOK' /\ UseOK'
<1>1. asked \subseteq Clients
  BY RolesApart DEF Clients
<1>2. /\ PoolOK'
      /\ lent' \cup waiting' = ((lent \cup waiting) \ freed) \cup asked
      /\ lent \ freed \subseteq lent'
  BY <1>1, ServeKeeps
<1>3. \A d \in Chains : d # c => pc'[d] = pc[d]
  BY DEF Goto, VarTypes
<1>4. pc'[c] = l
  BY DEF Goto, VarTypes
<1>5. \A d \in Chains : d # c => <<d, "tx">> \notin freed \cup asked /\ <<d, "query">> \notin freed \cup asked
  OBVIOUS
<1>6. \A d \in Chains, k \in Keys : <<d, k>> \notin asked
  BY RolesApart
<1>. QED
  BY <1>2, <1>3, <1>4, <1>5, <1>6 DEF UseOK

\* A step of a lookup changes only what it holds itself and what the writes to
\* the price cache hold.
LEMMA LookupServe ==
  ASSUME PoolOK, UseOK, VarTypes, UNCHANGED pc,
         NEW c \in Chains, NEW k \in Keys, NEW l \in Lookups, Stage(c, k, l),
         NEW freed \in SUBSET {<<c, k>>},
         NEW asked \in SUBSET ({<<c, k>>} \cup ({c} \X Writes)),
         asked \cap (lent \ freed) = {},
         Serve(freed, asked),
         <<c, k>> \in ((lent \cup waiting) \ freed) \cup asked => l.at \in {"get", "set", "reply"}
  PROVE  PoolOK' /\ UseOK'
<1>1. asked \subseteq Clients
  BY RolesApart DEF Clients
<1>2. /\ PoolOK'
      /\ lent' \cup waiting' = ((lent \cup waiting) \ freed) \cup asked
      /\ lent \ freed \subseteq lent'
  BY <1>1, ServeKeeps
<1>3. \A d \in Chains, m \in Keys : <<d, m>> # <<c, k>> => lookup'[d][m] = lookup[d][m]
  BY DEF Stage, VarTypes
<1>4. lookup'[c][k] = l
  BY DEF Stage, VarTypes
<1>5. \A d \in Chains : <<d, "tx">> \notin freed \cup asked /\ <<d, "query">> \notin freed \cup asked
  BY RolesApart
<1>6. \A d \in Chains, m \in Keys : <<d, m>> \in asked => <<d, m>> = <<c, k>>
  BY RolesApart
<1>7. ASSUME NEW d \in Chains, NEW m \in Keys, <<d, m>> \in lent' \cup waiting'
      PROVE  lookup'[d][m].at \in {"get", "set", "reply"}
  <2>1. CASE <<d, m>> = <<c, k>>
    BY <1>2, <1>4, <1>7, <2>1
  <2>2. CASE <<d, m>> # <<c, k>>
    BY <1>2, <1>3, <1>6, <1>7, <2>2 DEF UseOK
  <2>. QED
    BY <2>1, <2>2
<1>8. /\ \A d \in Chains : <<d, "tx">> \in lent' \cup waiting' => pc'[d] \in TxLabels
      /\ \A d \in Chains : <<d, "query">> \in lent' \cup waiting' => pc'[d] \in QueryLabels
      /\ \A d \in Chains : pc'[d] \in {"write", "pointer", "commit"} => <<d, "tx">> \in lent'
  BY <1>2, <1>5 DEF UseOK
<1>. QED
  BY <1>2, <1>7, <1>8 DEF UseOK

\* A lookup gives its connection or its place in the queue back, or asks.
LEMMA LookupFrees ==
  ASSUME PoolOK, UseOK, VarTypes, UNCHANGED pc, NEW c \in Chains, NEW k \in Keys,
         NEW l \in Lookups, Stage(c, k, l), Serve({<<c, k>>}, {})
  PROVE  PoolOK' /\ UseOK'
<1>1. {} \cap (lent \ {<<c, k>>}) = {} /\ <<c, k>> \notin ((lent \cup waiting) \ {<<c, k>>}) \cup {}
  OBVIOUS
<1>2. {<<c, k>>} \in SUBSET {<<c, k>>} /\ {} \in SUBSET ({<<c, k>>} \cup ({c} \X Writes))
  OBVIOUS
<1>. QED
  BY <1>1, <1>2, LookupServe, Zenon

LEMMA LookupAsks ==
  ASSUME PoolOK, UseOK, VarTypes, UNCHANGED pc, NEW c \in Chains, NEW k \in Keys,
         NEW l \in Lookups, Stage(c, k, l), l.at \in {"get", "set", "reply"},
         <<c, k>> \notin lent, Serve({}, {<<c, k>>})
  PROVE  PoolOK' /\ UseOK'
<1>1. {<<c, k>>} \cap (lent \ {}) = {}
  OBVIOUS
<1>2. {} \in SUBSET {<<c, k>>} /\ {<<c, k>>} \in SUBSET ({<<c, k>>} \cup ({c} \X Writes))
  OBVIOUS
<1>. QED
  BY <1>1, <1>2, LookupServe, Zenon

LEMMA StageOnly ==
  ASSUME PoolOK, UseOK, VarTypes, UNCHANGED <<pc, poolVars>>,
         NEW c \in Chains, NEW k \in Keys, NEW l \in Lookups, Stage(c, k, l),
         <<c, k>> \in lent \cup waiting => l.at \in {"get", "set", "reply"}
  PROVE  PoolOK' /\ UseOK'
<1>1. ASSUME NEW d \in Chains, NEW m \in Keys, <<d, m>> \in lent \cup waiting
      PROVE  lookup'[d][m].at \in {"get", "set", "reply"}
  <2>1. CASE d = c /\ m = k
    BY <1>1, <2>1 DEF Stage, VarTypes
  <2>2. CASE ~(d = c /\ m = k)
    BY <1>1, <2>2 DEF Stage, VarTypes, UseOK
  <2>. QED
    BY <2>1, <2>2
<1>. QED
  BY <1>1 DEF PoolOK, UseOK, poolVars

\* A write to the price cache ends: it gives back only what it held itself.
LEMMA WriteServe ==
  ASSUME PoolOK, UseOK, UNCHANGED <<pc, lookup>>, NEW c \in Chains, NEW w \in Writes,
         Serve({<<c, w>>}, {})
  PROVE  PoolOK' /\ UseOK'
<1>1. /\ PoolOK'
      /\ lent' \cup waiting' = (lent \cup waiting) \ {<<c, w>>}
      /\ lent \ {<<c, w>>} \subseteq lent'
  <2>1. {} \subseteq Clients /\ {} \cap (lent \ {<<c, w>>}) = {}
    OBVIOUS
  <2>2. ((lent \cup waiting) \ {<<c, w>>}) \cup {} = (lent \cup waiting) \ {<<c, w>>}
    OBVIOUS
  <2>. QED
    BY <2>1, <2>2, ServeKeeps, Zenon
<1>2. \A d \in Chains : <<d, "tx">> # <<c, w>>
  BY RolesApart
<1>. QED
  BY <1>1, <1>2 DEF UseOK

\* Starting lookups asks for a connection for each that misses the memory.
LEMMA StartServe ==
  ASSUME PoolOK, UseOK, VarTypes,
         NEW c \in Chains, NEW l \in {"prefetch", "handling"}, Goto(c, l),
         pc[c] \in {"reading", "attempt", "handling", "asking"},
         \A k \in Keys : lookup[c][k].at = "idle",
         NEW K \in SUBSET Keys, StartLookups(c, K),
         NEW freed \in SUBSET {<<c, "query">>},
         pc[c] \in {"reading", "asking"} => freed = {<<c, "query">>},
         Serve(freed, LookupsOf(c, K))
  PROVE  PoolOK' /\ UseOK'
<1>1. LookupsOf(c, K) \subseteq Clients
  BY RolesApart DEF LookupsOf, Misses, Clients
<1>2. \A k \in Keys : <<c, k>> \notin lent \cup waiting
  BY DEF UseOK
<1>3. LookupsOf(c, K) \cap (lent \ freed) = {}
  BY <1>2 DEF LookupsOf, Misses
<1>4. /\ PoolOK'
      /\ lent' \cup waiting' = ((lent \cup waiting) \ freed) \cup LookupsOf(c, K)
      /\ lent \ freed \subseteq lent'
  BY <1>1, <1>3, ServeKeeps
<1>5. \A d \in Chains : d # c => pc'[d] = pc[d]
  BY DEF Goto, VarTypes
<1>6. pc'[c] = l
  BY DEF Goto, VarTypes
<1>7. \A d \in Chains : d # c => lookup'[d] = lookup[d]
  BY DEF StartLookups, VarTypes
<1>8. \A k \in Misses(K) : lookup'[c][k].at = "get"
  BY DEF StartLookups, VarTypes, Misses, NoLookup
<1>9. /\ \A d \in Chains : <<d, "tx">> \notin LookupsOf(c, K) /\ <<d, "query">> \notin LookupsOf(c, K)
      /\ \A d \in Chains, k \in Keys : <<d, k>> \in LookupsOf(c, K) => d = c /\ k \in Misses(K)
  BY RolesApart DEF LookupsOf, Misses
<1>10. <<c, "query">> \notin (lent \cup waiting) \ freed
  BY DEF UseOK, QueryLabels
<1>11. <<c, "tx">> \notin lent \cup waiting
  BY DEF UseOK, TxLabels
<1>12. \A d \in Chains : <<d, "tx">> \notin freed
  OBVIOUS
<1>13. \A d \in Chains : <<d, "tx">> \in lent' \cup waiting' => pc'[d] \in TxLabels
  BY <1>4, <1>5, <1>9, <1>11 DEF UseOK
<1>14. \A d \in Chains : <<d, "query">> \in lent' \cup waiting' => pc'[d] \in QueryLabels
  BY <1>4, <1>5, <1>9, <1>10 DEF UseOK
<1>15. \A d \in Chains, k \in Keys :
          <<d, k>> \in lent' \cup waiting' => lookup'[d][k].at \in {"get", "set", "reply"}
  BY <1>2, <1>4, <1>7, <1>8, <1>9 DEF UseOK
<1>16. \A d \in Chains : pc'[d] \in {"write", "pointer", "commit"} => <<d, "tx">> \in lent'
  BY <1>4, <1>5, <1>6, <1>12 DEF UseOK
<1>. QED
  BY <1>4, <1>13, <1>14, <1>15, <1>16 DEF UseOK

\* The process is down: nobody holds anything.
LEMMA DownServe == ASSUME Down PROVE PoolOK' /\ UseOK'
<1>1. Cardinality({}) = 0
  BY FS_EmptySet
<1>. QED
  BY <1>1, ServiceAssumption DEF Down, PoolOK, UseOK

LEMMA PoolStep == IInv /\ [Next]_vars => PoolOK' /\ UseOK'
<1>. SUFFICES ASSUME IInv, [Next]_vars PROVE PoolOK' /\ UseOK'
  OBVIOUS
<1>. USE DEF IInv
<1>1. CASE Misconfigured \/ Exit \/ Crash
  BY <1>1, DownServe DEF Misconfigured, Exit, Crash
<1>2. CASE Start
  BY <1>2 DEF Start, poolVars, PoolOK, UseOK, TxLabels, QueryLabels, VarTypes
<1>3. CASE Signal \/ ReleaseResources
  BY <1>3 DEF Signal, ReleaseResources, procVars, poolVars, PoolOK, UseOK
<1>4. CASE Restart
  <2>1. lent = {} /\ waiting = {}
    BY <1>4 DEF Restart, AwaitOK
  <2>. QED
    BY <1>4, <2>1 DEF Restart, PoolOK, UseOK
<1>5. ASSUME NEW c \in Chains, InitializeStep(c) PROVE PoolOK' /\ UseOK'
  <2>1. CASE LoadFails(c)
    BY <2>1, DownServe DEF LoadFails
  <2>2. CASE LoadStrategies(c)
    <3>1. <<c, "tx">> \notin lent \cup waiting /\ <<c, "query">> \notin lent \cup waiting
      BY <2>2 DEF LoadStrategies, UseOK, TxLabels, QueryLabels
    <3>. QED
      BY <2>2, <3>1, LoopServe, ZenonT(60) DEF LoadStrategies, Labels, QueryLabels
  <2>3. CASE StrategiesLoaded(c)
    <3>1. <<c, "tx">> \notin lent \cup waiting
      BY <2>3 DEF StrategiesLoaded, UseOK, TxLabels
    <3>. QED
      BY <2>3, <3>1, LoopServe DEF StrategiesLoaded, Labels
  <2>. QED
    BY <1>5, <2>1, <2>2, <2>3 DEF InitializeStep
<1>6. ASSUME NEW c \in Chains, LoopStep(c) PROVE PoolOK' /\ UseOK'
  <2>. DEFINE tx == <<c, "tx">>
              query == <<c, "query">>
  <2>. USE DEF Labels, TxLabels, QueryLabels
  <2>1. tx \in lent \cup waiting => pc[c] \in TxLabels
    BY DEF UseOK
  <2>2. query \in lent \cup waiting => pc[c] \in QueryLabels
    BY DEF UseOK
  <2>3. pc[c] \in {"write", "pointer", "commit"} => tx \in lent
    BY DEF UseOK
  <2>4. CASE Stop(c) \/ Enqueue(c) \/ Pop(c) \/ Begun(c)
    BY <2>1, <2>2, <2>4
    DEF Stop, Enqueue, Pop, Begun, Goto, poolVars, PoolOK, UseOK, VarTypes
  <2>5. CASE ReadPointer(c)
    <3>1. tx \notin lent \cup waiting /\ query \notin lent \cup waiting
      BY <2>1, <2>2, <2>5 DEF ReadPointer
    <3>2. UNCHANGED lookup /\ Serve({}, {query})
      BY <2>5 DEF ReadPointer
    <3>3. Goto(c, "reading")
      BY <2>5 DEF ReadPointer
    <3>. QED
      BY <3>1, <3>2, <3>3, LoopServe, ZenonT(60)
  <2>6. CASE Prefetch(c)
    <3>1. PICK batch \in SUBSET Docs, price \in Priced :
            /\ StartLookups(c, batch \cup price)
            /\ Serve({query}, LookupsOf(c, batch \cup price))
      BY <2>6 DEF Prefetch
    <3>2. batch \cup price \in SUBSET Keys
      BY RolesApart DEF Priced
    <3>3. \A k \in Keys : lookup[c][k].at = "idle"
      BY <2>6 DEF Prefetch, AwaitOK
    <3>4. Goto(c, "prefetch") /\ pc[c] = "reading"
      BY <2>6 DEF Prefetch
    <3>. QED
      BY <3>1, <3>2, <3>3, <3>4, StartServe
  <2>7. CASE NothingFetched(c)
    BY <2>1, <2>2, <2>7, LoopServe DEF NothingFetched
  <2>8. CASE Handle(c)
    <3>1. PICK k \in queue[c], price \in Priced :
            /\ StartLookups(c, {k} \cup price)
            /\ Serve({}, LookupsOf(c, {k} \cup price))
      BY <2>8 DEF Handle
    <3>2. {k} \cup price \in SUBSET Keys
      BY RolesApart DEF Priced, VarTypes
    <3>3. \A m \in Keys : lookup[c][m].at = "idle"
      BY <2>8 DEF Handle, AwaitOK
    <3>4. Goto(c, "handling") /\ pc[c] = "attempt"
      BY <2>8 DEF Handle
    <3>. QED
      BY <3>1, <3>2, <3>3, <3>4, StartServe
  <2>9. CASE Begin(c)
    BY <2>1, <2>2, <2>9, LoopServe, ZenonT(60) DEF Begin
  <2>10. CASE Write(c)
    BY <2>1, <2>2, <2>3, <2>10, LoopServe, ZenonT(60) DEF Write
  <2>11. CASE SavePointer(c)
    BY <2>1, <2>2, <2>3, <2>11, LoopServe DEF SavePointer, PointerConnections
  <2>12. CASE Commit(c)
    BY <2>1, <2>2, <2>3, <2>12, LoopServe, ZenonT(60) DEF Commit
  <2>13. CASE GiveUp(c)
    <3>1. tx \notin lent \cup waiting /\ query \notin lent \cup waiting
      BY <2>1, <2>2, <2>13 DEF GiveUp
    <3>2. UNCHANGED lookup /\ Serve({}, {query})
      BY <2>13 DEF GiveUp
    <3>3. Goto(c, "catch")
      BY <2>13 DEF GiveUp
    <3>. QED
      BY <3>1, <3>2, <3>3, LoopServe, ZenonT(60)
  <2>14. CASE AttemptFails(c)
    BY <2>14, LoopServe DEF AttemptFails, Rollback
  <2>15. CASE Caught(c) \/ CatchFails(c)
    BY <2>1, <2>2, <2>15, LoopServe DEF Caught, CatchFails
  <2>16. CASE Ask(c)
    <3>1. tx \notin lent \cup waiting /\ query \notin lent \cup waiting
      BY <2>1, <2>2, <2>16 DEF Ask
    <3>2. UNCHANGED lookup /\ Serve({}, {query})
      BY <2>16 DEF Ask
    <3>3. Goto(c, "asking")
      BY <2>16 DEF Ask
    <3>. QED
      BY <3>1, <3>2, <3>3, LoopServe, ZenonT(60)
  <2>17. CASE Retry(c)
    <3>1. PICK price \in Priced :
            StartLookups(c, price) /\ Serve({query}, LookupsOf(c, price))
      BY <2>17 DEF Retry
    <3>2. price \in SUBSET Keys
      BY RolesApart DEF Priced
    <3>3. \A k \in Keys : lookup[c][k].at = "idle"
      BY <2>17 DEF Retry, AwaitOK, NoLookups
    <3>4. Goto(c, "handling") /\ pc[c] \in {"handling", "asking"}
      BY <2>17 DEF Retry
    <3>. QED
      BY <3>1, <3>2, <3>3, <3>4, StartServe
  <2>. QED
    BY <1>6, <2>4, <2>5, <2>6, <2>7, <2>8, <2>9, <2>10, <2>11, <2>12, <2>13, <2>14, <2>15,
       <2>16, <2>17
    DEF LoopStep
<1>7. ASSUME NEW c \in Chains, NEW k \in Docs, LookupStep(c, k) PROVE PoolOK' /\ UseOK'
  <2>0. k \in Keys
    BY RolesApart
  <2>1. <<c, k>> \in lent \cup waiting => lookup[c][k].at \in {"get", "set", "reply"}
    BY <2>0 DEF UseOK
  <2>2. lookup[c][k] \in Lookups
    BY <2>0 DEF VarTypes
  <2>. USE <2>0, LookupKinds DEF lookupVars
  <2>3. CASE GetRow(c, k)
    <3>1. CASE Cached(table[k])
      <4>1. [NoLookup EXCEPT !.at = "reply", !.value = table[k]] \in Lookups
        BY DEF VarTypes
      <4>. QED
        <5>. DEFINE l == [NoLookup EXCEPT !.at = "reply", !.value = table[k]]
        <5>1. l \in Lookups /\ l.at = "reply" /\ Stage(c, k, l) /\ UNCHANGED <<pc, poolVars>>
          BY <2>3, <3>1, <4>1 DEF GetRow, NoLookup
        <5>. HIDE DEF l
        <5>. QED
          BY <5>1, StageOnly
    <3>2. CASE ~Cached(table[k])
      BY <2>3, <3>2, LookupFrees DEF GetRow
    <3>. QED
      BY <3>1, <3>2
  <2>4. CASE GetFails(c, k)
    BY <2>4, LookupFrees DEF GetFails
  <2>5. CASE Try(c, k)
    <3>1. <<c, k>> \notin lent \cup waiting
      BY <2>1, <2>5 DEF Try
    <3>2. UNCHANGED pc
      BY <2>5 DEF Try, lookupVars
    <3>3. ASSUME NEW v \in Values, Stage(c, k, [NoLookup EXCEPT !.at = "set", !.value = v]),
                 Serve({}, {<<c, k>>})
          PROVE  PoolOK' /\ UseOK'
      <4>. DEFINE l == [NoLookup EXCEPT !.at = "set", !.value = v]
      <4>1. l \in Lookups /\ l.at = "set" /\ Stage(c, k, l)
        BY <3>3 DEF NoLookup
      <4>. HIDE DEF l
      <4>. QED
        BY <3>1, <3>2, <3>3, <4>1, LookupAsks
    <3>4. CASE UNCHANGED poolVars
      <4>1. PICK l \in Lookups : Stage(c, k, l)
        BY <2>5, TryKinds
      <4>. QED
        BY <3>1, <3>2, <3>4, <4>1, StageOnly
    <3>5. "doc" \in Values /\ "null" \in Values
      BY DEF Values
    <3>. QED
      BY <2>5, <3>3, <3>4, <3>5, TryKinds
  <2>6. CASE SetRow(c, k)
    BY <2>2, <2>6, StageOnly DEF SetRow, Lookups
  <2>7. CASE Reply(c, k) \/ SetFails(c, k)
    <3>1. UNCHANGED pc /\ Stage(c, k, NoLookup) /\ Serve({<<c, k>>}, {})
      BY <2>7 DEF Reply, SetFails
    <3>. QED
      BY <3>1, LookupFrees
  <2>. QED
    BY <1>7, <2>3, <2>4, <2>5, <2>6, <2>7 DEF LookupStep
<1>8. ASSUME NEW c \in Chains, PriceStep(c) PROVE PoolOK' /\ UseOK'
  <2>. DEFINE price == <<c, "price">>
              fetch == [NoLookup EXCEPT !.at = "fetch"]
  <2>1. "price" \in Keys
    BY RolesApart
  <2>2. UNCHANGED pc
    BY <1>8 DEF PriceStep, GetPrices, GetFails, PricesFetched, lookupVars
  <2>3. fetch \in Lookups /\ NoLookup \in Lookups
    BY LookupKinds
  <2>4. CASE GetPrices(c) \/ GetFails(c, "price")
    <3>1. PICK l \in {NoLookup, fetch} : Stage(c, "price", l)
      BY <2>4 DEF GetPrices, GetFails
    <3>2. Serve({price}, {})
      BY <2>4 DEF GetPrices, GetFails
    <3>3. l \in Lookups
      BY <2>3
    <3>. HIDE DEF fetch
    <3>. QED
      BY <2>1, <2>2, <3>1, <3>2, <3>3, LookupFrees
  <2>5. CASE PricesFetched(c)
    <3>1. Stage(c, "price", NoLookup) /\ lookup[c]["price"].at = "fetch"
      BY <2>5 DEF PricesFetched
    <3>2. PICK W \in SUBSET FreeWrites(c) : Serve({}, {<<c, w>> : w \in W})
      BY <2>5 DEF PricesFetched
    <3>. DEFINE asked == {<<c, w>> : w \in W}
    <3>3. asked \in SUBSET ({c} \X Writes) /\ asked \cap lent = {}
      BY DEF FreeWrites
    <3>4. price \notin lent \cup waiting
      BY <2>1, <3>1 DEF UseOK
    <3>5. price \notin asked
      BY <3>3, RolesApart
    <3>6. Serve({}, asked) /\ asked \cap (lent \ {}) = {}
      BY <3>2, <3>3
    <3>7. asked \in SUBSET ({price} \cup ({c} \X Writes))
      BY <3>3
    <3>8. price \notin ((lent \cup waiting) \ {}) \cup asked
      BY <3>4, <3>5
    <3>. HIDE DEF asked
    <3>. QED
      BY <2>1, <2>2, <2>3, <3>1, <3>6, <3>7, <3>8, LookupServe
  <2>. QED
    BY <1>8, <2>4, <2>5 DEF PriceStep
<1>9. ASSUME NEW c \in Chains, NEW w \in Writes, WriteEnds(c, w) PROVE PoolOK' /\ UseOK'
  BY <1>9, WriteServe DEF WriteEnds, lookupVars
<1>10. CASE UNCHANGED vars
  BY <1>10 DEF vars, poolVars, PoolOK, UseOK
<1>. QED
  BY <1>1, <1>2, <1>3, <1>4, <1>5, <1>6, <1>7, <1>8, <1>9, <1>10 DEF Next

LEMMA AwaitStep == IInv /\ [Next]_vars => AwaitOK'
<1>. SUFFICES ASSUME IInv, [Next]_vars PROVE AwaitOK'
  OBVIOUS
<1>. USE DEF IInv
<1>1. CASE Misconfigured \/ Exit \/ Crash
  BY <1>1 DEF Misconfigured, Exit, Crash, Down, AwaitOK, NoLookup
<1>2. CASE Start
  <2>1. PICK d \in Chains : pc[d] = "ready"
    BY <1>2, ServiceAssumption DEF Start
  <2>2. ~ended
    BY <2>1 DEF AwaitOK
  <2>3. \A c \in Chains, k \in Keys : lookup[c][k].at = "idle"
    BY <1>2 DEF Start, AwaitOK
  <2>. QED
    BY <1>2, <2>2, <2>3 DEF Start, poolVars, AwaitOK
<1>3. CASE Signal
  BY <1>3 DEF Signal, poolVars, AwaitOK
<1>4. CASE ReleaseResources
  BY <1>4 DEF ReleaseResources, AllSettled, Settled, procVars, AwaitOK
<1>5. CASE Restart
  <2>1. \A c \in Chains, k \in Keys : lookup[c][k].at = "idle"
    BY <1>5 DEF Restart, AwaitOK
  <2>. QED
    BY <1>5, <2>1 DEF Restart, AwaitOK
\* A chain that moves is not one of an ended process.
<1>6. ASSUME NEW c \in Chains, pc[c] \notin {"stopped", "dead", "down"},
             UNCHANGED <<ended, phase>>,
             \A d \in Chains, k \in Keys : lookup'[d][k].at # "idle" => pc'[d] \in {"prefetch", "handling"}
      PROVE  AwaitOK'
  BY <1>6 DEF AwaitOK
<1>7. ASSUME NEW c \in Chains, InitializeStep(c) PROVE AwaitOK'
  <2>1. CASE LoadFails(c)
    BY <2>1 DEF LoadFails, Down, AwaitOK, NoLookup
  <2>2. CASE LoadStrategies(c) \/ StrategiesLoaded(c)
    <3>1. /\ pc[c] \in {"init", "boot"} /\ UNCHANGED <<ended, phase, lookup>>
          /\ \A d \in Chains : d # c => pc'[d] = pc[d]
      BY <2>2 DEF LoadStrategies, StrategiesLoaded, Serve, Goto, procVars, VarTypes
    <3>. QED
      BY <1>6, <3>1 DEF AwaitOK
  <2>. QED
    BY <1>7, <2>1, <2>2 DEF InitializeStep
<1>8. ASSUME NEW c \in Chains, LoopStep(c) PROVE AwaitOK'
  <2>1. /\ pc[c] \notin {"stopped", "dead", "down"} /\ UNCHANGED <<ended, phase>>
        /\ \A d \in Chains : d # c => pc'[d] = pc[d]
    <3>1. CASE Stop(c) \/ ReadPointer(c) \/ NothingFetched(c) \/ Enqueue(c) \/ Pop(c)
      BY <3>1 DEF Stop, ReadPointer, NothingFetched, Enqueue, Pop, Serve, Goto, loopVars,
                  procVars, poolVars, VarTypes
    <3>2. CASE Prefetch(c) \/ Handle(c) \/ GiveUp(c)
      BY <3>2 DEF Prefetch, Handle, GiveUp, Serve, Goto, procVars, VarTypes
    <3>3. CASE Ask(c) \/ Retry(c) \/ Begin(c) \/ Begun(c) \/ Write(c) \/ SavePointer(c) \/ Commit(c)
      BY <3>3 DEF Ask, Retry, Begin, Begun, Write, SavePointer, Commit, Serve, Goto, loopVars,
                  procVars, poolVars, VarTypes
    <3>4. CASE AttemptFails(c) \/ Caught(c) \/ CatchFails(c)
      BY <3>4 DEF AttemptFails, Failing, Caught, CatchFails, Serve, Goto, loopVars,
                  procVars, VarTypes
    <3>. QED
      BY <1>8, <3>1, <3>2, <3>3, <3>4 DEF LoopStep
  <2>2. CASE Prefetch(c) \/ Handle(c) \/ Retry(c)
    <3>1. pc'[c] \in {"prefetch", "handling"}
      BY <2>2 DEF Prefetch, Handle, Retry, Goto, VarTypes
    <3>2. \A d \in Chains : d # c => lookup'[d] = lookup[d]
      BY <2>2 DEF Prefetch, Handle, Retry, StartLookups, VarTypes
    <3>. QED
      BY <1>6, <2>1, <3>1, <3>2 DEF AwaitOK
  <2>3. CASE UNCHANGED lookup /\ \A k \in Keys : lookup[c][k].at = "idle"
    BY <1>6, <2>1, <2>3 DEF AwaitOK
  <2>4. pc[c] \notin {"prefetch", "handling"} \/ NoLookups(c)
        => \A k \in Keys : lookup[c][k].at = "idle"
    BY DEF AwaitOK, NoLookups
  <2>5. ~(Prefetch(c) \/ Handle(c) \/ Retry(c)) =>
          UNCHANGED lookup /\ (pc[c] \notin {"prefetch", "handling"} \/ NoLookups(c))
    BY <1>8 DEF LoopStep, Stop, ReadPointer, NothingFetched, Enqueue, Prefetched, Pop, GiveUp,
       Ask, Begin, Begun, Write, SavePointer, Commit, AttemptFails, Failing, Caught, CatchFails
  <2>. QED
    BY <2>2, <2>3, <2>4, <2>5
<1>9. ASSUME NEW c \in Chains, NEW k \in Keys, LookupStep(c, k) \/ (k = "price" /\ PriceStep(c))
      PROVE  AwaitOK'
  <2>1. lookup[c][k].at # "idle" /\ UNCHANGED <<ended, phase, pc>>
    BY <1>9 DEF LookupStep, GetRow, GetFails, Try, SetRow, Reply, SetFails,
                PriceStep, GetPrices, PricesFetched, Serve, lookupVars, procVars, poolVars
  <2>2. \A d \in Chains : d # c => lookup'[d] = lookup[d]
    BY <1>9 DEF LookupStep, GetRow, GetFails, Try, SetRow, Reply, SetFails,
                PriceStep, GetPrices, PricesFetched, Stage, VarTypes
  <2>3. pc[c] \in {"prefetch", "handling"}
    BY <2>1 DEF AwaitOK
  <2>. QED
    BY <1>6, <2>1, <2>2, <2>3 DEF AwaitOK
<1>10. ASSUME NEW c \in Chains, NEW w \in Writes, WriteEnds(c, w) PROVE AwaitOK'
  <2>1. lent \cup waiting # {} /\ UNCHANGED <<phase, ended, pc, lookup>>
    BY <1>10 DEF WriteEnds, Fails, Serve, lookupVars, procVars
  <2>. QED
    BY <2>1 DEF AwaitOK
<1>11. CASE UNCHANGED vars
  BY <1>11 DEF vars, procVars, poolVars, AwaitOK
<1>. QED
  BY <1>1, <1>2, <1>3, <1>4, <1>5, <1>7, <1>8, <1>9, <1>10, <1>11, RolesApart DEF Next

\* Where no document changes, null comes from nowhere.
LEMMA NullFrame ==
  ASSUME NullOK, UNCHANGED <<table, earned>>,
         \A k \in Docs : memory'[k] = "null" => memory[k] = "null",
         \A c \in Chains, k \in Docs :
            \/ lookup'[c][k] = lookup[c][k]
            \/ lookup'[c][k].value = "none" /\ lookup'[c][k].at # "fetch"
  PROVE  NullOK'
BY DEF NullOK, NullIsEarned

\* Where one lookup goes on, the others are as good as before.
LEMMA NullOne ==
  ASSUME VarTypes, NullOK, NEW c \in Chains, NEW k \in Docs,
         \A d \in Chains, m \in Docs : ~(d = c /\ m = k) => lookup'[d][m] = lookup[d][m],
         earned \subseteq earned',
         NullIsEarned',
         lookup'[c][k].at = "fetch" =>
            /\ lookup'[c][k].tries = lookup'[c][k].failed
            /\ lookup'[c][k].failed < MaxTry,
         lookup'[c][k].value = "null" => k \in earned'
  PROVE  NullOK'
<1>1. ASSUME NEW d \in Chains, NEW m \in Docs, ~(d = c /\ m = k)
      PROVE  /\ lookup'[d][m].at = "fetch" => /\ lookup'[d][m].tries = lookup'[d][m].failed
                                              /\ lookup'[d][m].failed < MaxTry
             /\ lookup'[d][m].value = "null" => m \in earned'
  <2>1. lookup'[d][m] = lookup[d][m]
    BY <1>1
  <2>. QED
    BY <2>1 DEF NullOK
<1>. QED
  BY <1>1 DEF NullOK

LEMMA NullStep == IInv /\ [Next]_vars => NullOK'
<1>. SUFFICES ASSUME IInv, [Next]_vars PROVE NullOK'
  OBVIOUS
<1>. USE DEF IInv
<1>1. CASE Misconfigured \/ Exit \/ Crash
  BY <1>1, NullFrame, RolesApart DEF Misconfigured, Exit, Crash, Down, NoLookup, cacheVars
<1>2. CASE Start \/ Signal \/ ReleaseResources
  BY <1>2, NullFrame DEF Start, Signal, ReleaseResources, cacheVars
<1>3. CASE Restart
  BY <1>3, NullFrame DEF Restart
<1>4. ASSUME NEW c \in Chains, InitializeStep(c) PROVE NullOK'
  BY <1>4, NullFrame, RolesApart DEF InitializeStep, LoadStrategies, StrategiesLoaded, LoadFails, Down,
                         NoLookup, cacheVars
<1>5. ASSUME NEW c \in Chains, LoopStep(c) PROVE NullOK'
  <2>1. UNCHANGED cacheVars
    BY <1>5 DEF LoopStep, Stop, ReadPointer, Prefetch, NothingFetched, Enqueue, Pop, Handle,
       Ask, Retry, Begin, Begun, Write, SavePointer, Commit, GiveUp, AttemptFails, Caught,
       CatchFails, loopVars, cacheVars, ClearCache
  <2>2. ASSUME NEW K, StartLookups(c, K) PROVE NullOK'
    <3>1. \A d \in Chains, k \in Docs :
            \/ lookup'[d][k] = lookup[d][k]
            \/ lookup'[d][k].value = "none" /\ lookup'[d][k].at # "fetch"
      BY <2>2, RolesApart DEF StartLookups, NoLookup, VarTypes
    <3>. QED
      BY <2>1, <3>1, NullFrame DEF cacheVars
  <2>3. CASE Prefetch(c) \/ Handle(c) \/ Retry(c)
    BY <2>2, <2>3 DEF Prefetch, Handle, Retry
  <2>4. CASE UNCHANGED lookup
    BY <2>1, <2>4, NullFrame DEF cacheVars
  <2>. QED
    BY <1>5, <2>3, <2>4 DEF LoopStep, Stop, ReadPointer, NothingFetched, Enqueue, Pop,
       Ask, Begin, Begun, Write, SavePointer, Commit, GiveUp, AttemptFails, Caught, CatchFails
<1>6. ASSUME NEW c \in Chains, NEW k \in Docs, LookupStep(c, k) PROVE NullOK'
  <2>0. k \in Keys /\ Docs \subseteq Keys
    BY RolesApart
  <2>1. \A d \in Chains, m \in Docs : ~(d = c /\ m = k) => lookup'[d][m] = lookup[d][m]
    <3>1. \E l : Stage(c, k, l)
      BY <1>6, TryKinds DEF LookupStep, GetRow, GetFails, SetRow, Reply, SetFails
    <3>. QED
      BY <2>0, <3>1 DEF Stage, VarTypes
  <2>2. CASE GetRow(c, k) \/ GetFails(c, k)
    <3>1. UNCHANGED cacheVars
      BY <2>2 DEF GetRow, GetFails
    <3>2. \/ lookup'[c][k] = [NoLookup EXCEPT !.at = "fetch"]
          \/ lookup'[c][k] = [NoLookup EXCEPT !.at = "reply", !.value = table[k]]
      BY <2>0, <2>2 DEF GetRow, GetFails, Stage, VarTypes
    <3>3. lookup'[c][k].at = "fetch" => lookup'[c][k].tries = 0 /\ lookup'[c][k].failed = 0
      BY <3>2 DEF NoLookup
    <3>4. lookup'[c][k].value = "null" => table[k] = "null"
      BY <3>2 DEF NoLookup
    <3>. QED
      BY <2>1, <3>1, <3>3, <3>4, NullOne, ServiceAssumption DEF NullOK, NullIsEarned, cacheVars
  <2>3. CASE Try(c, k)
    <3>1. earned \subseteq earned'
      BY <2>3, TryKinds
    <3>2. NullIsEarned'
      BY <2>3, <3>1 DEF Try, NullOK, NullIsEarned
    <3>3. \A l : Stage(c, k, l) => lookup'[c][k] = l
      BY <2>0 DEF Stage, VarTypes
    <3>4. CASE \E v \in {"doc", "null"} :
                 /\ Stage(c, k, [NoLookup EXCEPT !.at = "set", !.value = v])
                 /\ v = "null" => k \in earned'
      <4>1. lookup'[c][k].at = "set" /\ (lookup'[c][k].value = "null" => k \in earned')
        BY <3>3, <3>4 DEF NoLookup
      <4>. QED
        BY <2>1, <3>1, <3>2, <4>1, NullOne
    <3>5. CASE /\ Stage(c, k, [lookup[c][k] EXCEPT !.tries = @ + 1, !.failed = @ + 1])
               /\ lookup[c][k].tries + 1 # MaxTry
      <4>1. lookup[c][k] \in Lookups
        BY <2>0 DEF VarTypes
      <4>2. /\ lookup'[c][k].tries = lookup[c][k].tries + 1
            /\ lookup'[c][k].failed = lookup[c][k].failed + 1
            /\ lookup'[c][k].value = lookup[c][k].value
        BY <3>3, <3>5, <4>1 DEF Lookups
      <4>3. lookup[c][k].tries = lookup[c][k].failed /\ lookup[c][k].failed < MaxTry
        BY <2>3 DEF Try, NullOK
      <4>4. lookup'[c][k].tries = lookup'[c][k].failed /\ lookup'[c][k].failed < MaxTry
        BY <3>5, <4>1, <4>2, <4>3, ServiceAssumption DEF Lookups
      <4>5. lookup'[c][k].value = "null" => k \in earned'
        BY <3>1, <4>2 DEF NullOK
      <4>. QED
        BY <2>1, <3>1, <3>2, <4>4, <4>5, NullOne
    <3>. QED
      BY <2>3, <3>4, <3>5, TryKinds
  <2>4. CASE SetRow(c, k) \/ Reply(c, k) \/ SetFails(c, k)
    <3>1. \A m \in Docs : \/ memory'[m] = memory[m] /\ table'[m] = table[m]
                          \/ /\ m = k
                             /\ memory'[m] \in {memory[m], lookup[c][k].value}
                             /\ table'[m] \in {table[m], lookup[c][k].value}
      BY <2>4 DEF SetRow, Reply, SetFails, VarTypes
    <3>2. UNCHANGED earned
      BY <2>4 DEF SetRow, Reply, SetFails
    <3>3. lookup'[c][k] = NoLookup \/ lookup'[c][k] = [lookup[c][k] EXCEPT !.at = "reply"]
      BY <2>0, <2>4 DEF SetRow, Reply, SetFails, Stage, VarTypes
    <3>4. lookup'[c][k].at # "fetch" /\ lookup'[c][k].value \in {"none", lookup[c][k].value}
      BY <2>0, <3>3 DEF NoLookup, VarTypes, Lookups
    <3>. QED
      BY <2>1, <3>1, <3>2, <3>4 DEF NullOK, NullIsEarned
  <2>. QED
    BY <1>6, <2>2, <2>3, <2>4 DEF LookupStep
<1>7. ASSUME NEW c \in Chains, PriceStep(c) PROVE NullOK'
  <2>1. \A d \in Chains, k \in Docs : lookup'[d][k] = lookup[d][k]
    BY <1>7, ServiceAssumption, RolesApart
    DEF PriceStep, GetPrices, GetFails, PricesFetched, Stage, VarTypes
  <2>2. UNCHANGED cacheVars
    BY <1>7 DEF PriceStep, GetPrices, GetFails, PricesFetched
  <2>. QED
    BY <2>1, <2>2, NullFrame DEF cacheVars
<1>8. ASSUME NEW c \in Chains, NEW w \in Writes, WriteEnds(c, w) PROVE NullOK'
  BY <1>8, NullFrame DEF WriteEnds, cacheVars
<1>9. CASE UNCHANGED vars
  BY <1>9, NullFrame DEF vars, cacheVars
<1>. QED
  BY <1>1, <1>2, <1>3, <1>4, <1>5, <1>6, <1>7, <1>8, <1>9 DEF Next

LEMMA Initially == Init => IInv
<1>1. Cardinality({}) = 0
  BY FS_EmptySet
<1>2. ASSUME Init PROVE VarTypes
  <2>1. 0 \in 0..MaxRestarts /\ MaxEvents \in 0..MaxEvents /\ 0 \in 0..MaxTry
    BY ServiceAssumption
  <2>. QED
    BY <1>2, <2>1, LookupKinds DEF Init, VarTypes, Labels, Values
<1>3. ASSUME Init PROVE QueueOK
  BY <1>1, <1>3, ServiceAssumption DEF Init, QueueOK
<1>4. ASSUME Init PROVE PoolOK /\ UseOK /\ AwaitOK
  BY <1>1, <1>4, ServiceAssumption DEF Init, PoolOK, UseOK, AwaitOK, NoLookup
<1>5. ASSUME Init PROVE NullOK
  BY <1>5, RolesApart DEF Init, NullOK, NullIsEarned, NoLookup
<1>. QED
  BY <1>2, <1>3, <1>4, <1>5 DEF IInv

LEMMA Inductive == Spec => []IInv
<1>1. Init => IInv
  BY Initially
<1>2. IInv /\ [Next]_vars => IInv'
  BY TypeStep, QueueStep, PoolStep, AwaitStep, NullStep DEF IInv
<1>. QED
  BY <1>1, <1>2, PTL DEF Spec
-----------------------------------------------------------------------------
(* The theorems. *)

\* Every variable of the process keeps its type.
THEOREM TypeCorrect == Spec => []TypeOK
<1>1. IInv => TypeOK
  BY DEF IInv, VarTypes, PoolOK, TypeOK
<1>. QED
  BY <1>1, Inductive, PTL

\* However queries fail, time out or come back late, every connection lent or
\* waited for is one the code of its chain has a use for, and a transaction
\* under way has its connection.
THEOREM ConnectionsKept == Spec => []ConnectionsAccounted
<1>1. ASSUME IInv PROVE ConnectionsAccounted
  <2>1. ASSUME NEW c \in Chains, NEW r \in Roles, <<c, r>> \in lent \cup waiting
        PROVE  InUse(c, r)
    <3>1. CASE r = "tx"
      BY <1>1, <2>1, <3>1 DEF IInv, UseOK, InUse, TxLabels
    <3>2. CASE r = "query"
      BY <1>1, <2>1, <3>2 DEF IInv, UseOK, InUse, QueryLabels
    <3>3. CASE r \in Keys
      BY <1>1, <2>1, <3>3 DEF IInv, UseOK, InUse
    <3>4. CASE r \in Writes
      BY <3>4 DEF InUse
    <3>. QED
      BY <3>1, <3>2, <3>3, <3>4 DEF Roles
  <2>. QED
    BY <1>1, <2>1 DEF IInv, PoolOK, UseOK, ConnectionsAccounted
<1>. QED
  BY <1>1, Inductive, PTL

\* With more connections than chains the transactions never wait for each
\* other only, however many chains and documents there are.
THEOREM NoDeadlockOfPool == Spec => []NoCircularWait
<1>1. ASSUME IInv PROVE NoCircularWait
  <2>. SUFFICES ASSUME Cardinality(Chains) < PoolSize, waiting # {}, ~ended, \A x \in lent : Blocked(x)
                PROVE  FALSE
    BY DEF NoCircularWait
  <2>. DEFINE f == [x \in lent |-> x[1]]
  <2>1. lent \subseteq Clients
    BY <1>1 DEF IInv, PoolOK
  <2>2. \A x \in lent : x = <<x[1], "tx">> /\ x[1] \in Chains
    <3>1. TAKE x \in lent
    <3>2. PICK c \in Chains, r \in Roles : x = <<c, r>>
      BY <2>1 DEF Clients
    <3>. QED
      BY <3>2 DEF Blocked
  <2>3. f \in Injection(lent, Chains)
    <3>1. f \in [lent -> Chains]
      BY <2>2
    <3>2. \A x, y \in lent : f[x] = f[y] => x = y
      BY <2>2
    <3>. QED
      BY <3>1, <3>2, Fun_IsInj
  <2>4. Cardinality(lent) <= Cardinality(Chains)
    BY <2>3, FS_Injection, ServiceAssumption
  <2>5. Cardinality(lent) = PoolSize
    BY <1>1 DEF IInv, PoolOK
  <2>6. Cardinality(Chains) \in Nat
    BY FS_CardinalityType, ServiceAssumption
  <2>. QED
    BY <2>4, <2>5, <2>6, ServiceAssumption
<1>. QED
  BY <1>1, Inductive, PTL

\* The pool is destroyed only when no query, transaction or lookup is left: what
\* still holds or wants a connection is a write to the price cache.
THEOREM PoolEndsUnused == Spec => []PoolEndsIdle
<1>1. ASSUME IInv, ended PROVE PoolEndsIdle
  <2>1. \A c \in Chains : pc[c] \in {"stopped", "dead", "down"}
    BY <1>1 DEF IInv, AwaitOK
  <2>2. \A c \in Chains, k \in Keys : lookup[c][k].at = "idle"
    BY <1>1, <2>1 DEF IInv, AwaitOK
  <2>3. ASSUME NEW x \in lent \cup waiting PROVE x \in Chains \X Writes
    <3>1. PICK c \in Chains, r \in Roles : x = <<c, r>>
      BY <1>1, <2>3 DEF IInv, PoolOK, Clients
    <3>2. r \notin {"tx", "query"}
      BY <1>1, <2>1, <2>3, <3>1 DEF IInv, UseOK, TxLabels, QueryLabels
    <3>3. r \notin Keys
      BY <1>1, <2>2, <2>3, <3>1 DEF IInv, UseOK
    <3>. QED
      BY <3>1, <3>2, <3>3 DEF Roles
  <2>. QED
    BY <2>1, <2>2, <2>3 DEF PoolEndsIdle, NoLookups
<1>2. IInv => PoolEndsIdle
  BY <1>1 DEF PoolEndsIdle
<1>. QED
  BY <1>2, Inductive, PTL

\* However many chains look the same document up at once, null is kept for it
\* only after one lookup has used up all its own tries, or has found null.
THEOREM NullEarned == Spec => []NullIsEarned
<1>1. IInv => NullIsEarned
  BY DEF IInv, NullOK
<1>. QED
  BY <1>1, Inductive, PTL

\* What one step may do to a loop that has thrown and to the events of its chain.
StaysDead(c) == pc[c] = "dead" => phase' = "exited" \/ (pc'[c] = "dead" /\ todo'[c] = todo[c])

\* "The processor runs indefinitely until it is terminated", says the comment of
\* start.  A loop whose catch block throws has ended, allSettled waits for the
\* loops of the other chains, and nothing starts it again or handles another
\* event of its chain before the whole process has gone.
THEOREM DeadLoopStays == Spec => [][\A c \in Chains : StaysDead(c)]_vars
<1>1. ASSUME IInv, Next, NEW c \in Chains PROVE StaysDead(c)
  <2> SUFFICES ASSUME pc[c] = "dead", phase' # "exited"
               PROVE  pc'[c] = "dead" /\ todo'[c] = todo[c]
    BY DEF StaysDead
  <2> USE DEF IInv, VarTypes
  <2>1. CASE Misconfigured \/ Start \/ Signal \/ ReleaseResources \/ Exit \/ Crash
    BY <1>1, <2>1 DEF Misconfigured, Start, Signal, ReleaseResources, Exit, Crash, Down
  <2>2. CASE Restart
    BY <1>1, <2>2 DEF Restart, AwaitOK
  <2>3. ASSUME NEW d \in Chains, InitializeStep(d) PROVE pc'[c] = "dead" /\ todo'[c] = todo[c]
    BY <1>1, <2>3 DEF InitializeStep, LoadStrategies, StrategiesLoaded, LoadFails, Down, Goto
  <2>4. ASSUME NEW d \in Chains, LoopStep(d) PROVE pc'[c] = "dead" /\ todo'[c] = todo[c]
    <3>1. d # c
      BY <2>4 DEF LoopStep, Stop, ReadPointer, Prefetch, NothingFetched, Enqueue, Pop, Handle,
         Ask, Retry, Begin, Begun, Write, SavePointer, Commit, GiveUp, AttemptFails, Failing,
         Caught, CatchFails
    <3>2. (\E l : Goto(d, l)) /\ (UNCHANGED todo \/ todo' = [todo EXCEPT ![d] = @ - 1])
      BY <2>4 DEF LoopStep, Stop, ReadPointer, Prefetch, NothingFetched, Enqueue, Pop, Handle,
         Ask, Retry, Begin, Begun, Write, SavePointer, Commit, GiveUp, AttemptFails, Caught,
         CatchFails, loopVars
    <3>. QED BY <1>1, <3>1, <3>2 DEF Goto
  <2>5. ASSUME NEW d \in Chains, NEW k \in Docs, LookupStep(d, k)
        PROVE  pc'[c] = "dead" /\ todo'[c] = todo[c]
    <3>1. CASE Try(d, k)
      <4>1. UNCHANGED lookupVars
        BY <3>1, Zenon DEF Try
      <4>. QED BY <1>1, <4>1 DEF lookupVars
    <3>. QED BY <1>1, <2>5, <3>1
         DEF LookupStep, GetRow, GetFails, SetRow, Reply, SetFails, lookupVars
  <2>6. ASSUME NEW d \in Chains, PriceStep(d) \/ \E w \in Writes : WriteEnds(d, w)
        PROVE  pc'[c] = "dead" /\ todo'[c] = todo[c]
    BY <2>6 DEF PriceStep, GetPrices, GetFails, PricesFetched, WriteEnds, lookupVars
  <2>. QED
    BY <1>1, <2>1, <2>2, <2>3, <2>4, <2>5, <2>6 DEF Next
<1>2. IInv /\ [Next]_vars => [\A c \in Chains : StaysDead(c)]_vars
  BY <1>1
<1>. QED
  BY <1>2, Inductive, PTL DEF Spec
=============================================================================
