------------------------------- MODULE Pools -------------------------------
(***************************************************************************)
(* The round of one pool, whatever the kind of its strategy: the handlers  *)
(* of the Allo events PoolCreated, PoolFunded and PoolMetadataUpdated and  *)
(* of the strategy events about times, applications, distributions and     *)
(* direct allocations, the changesets they return and the transaction that *)
(* applies those.                                                          *)
(*                                                                         *)
(* The handler of PoolCreated reads the times from the contract as it is   *)
(* at that moment, which may be many blocks later than the event, and      *)
(* stores them in the table strategy_timings before its transaction: an    *)
(* attempt that fails leaves that row behind for the next one.             *)
(*                                                                         *)
(* A build without a handler for the strategy passes over its events; the  *)
(* first build that has one handles them first (Retroactive models how).   *)
(***************************************************************************)
EXTENDS Naturals, Sequences, FiniteSets, SequencesExt

CONSTANTS
    Kinds,       \* kinds of strategies
    Recipients,  \* profiles that register with the pool
    Donors,      \* senders of direct allocations
    Unbounded,   \* a time past the range of dates
    Nil,         \* no value
    MaxEvents,   \* bound: events after the creation of the pool
    MaxFailed,   \* bound: failed attempts at PoolCreated
    MaxLost      \* bound: events that are given up

KindsWithHandler == {"DVMD", "ERF", "DGLite", "DGSimple", "DirectAllocation"}

ASSUME PoolsAssumption ==
    /\ Kinds \subseteq KindsWithHandler
    /\ Unbounded \notin Nat /\ Nil \notin Nat
    /\ Recipients \cap Nat = {}
    /\ MaxEvents \in Nat /\ MaxFailed \in Nat /\ MaxLost \in Nat

VARIABLES
    pool,     \* contract: the pool and its strategy
    feed,     \* events not taken yet, in the order of the chain
    handled,  \* whether the build has a handler for the strategy
    skipped,  \* strategy events earlier builds passed over
    half,     \* the first times, read before the others
    cache,    \* the row of strategy_timings, Nil without one
    db,       \* the round with its applications, payouts and donations
    early,    \* history: whether the build had the handler at the creation
    damaged,  \* history: columns an event was lost of
    emitted, failed, lost

workVars == <<handled, skipped, half, cache, db, early, damaged, failed, lost>>
vars     == <<pool, feed, workVars, emitted>>

Times    == Nat \cup {Unbounded}
Dates    == Nat \cup {Nil}
Statuses == {"PENDING", "APPROVED"}
Timing   == [applications : Dates, donations : Dates]
NoTimings == [applications |-> Nil, donations |-> Nil]

AlloEvent ==
    [type : {"PoolCreated"}, amount : Nat, meta : Nat]
    \cup [type : {"PoolFunded"}, amount : Nat]
    \cup [type : {"PoolMetadataUpdated"}, meta : Nat]

StrategyEvent ==
    [type : {"TimestampsUpdated"}, times : Times]
    \cup [type : {"Registered"}, recipient : Recipients, counter : Nat \ {0}]
    \cup [type : {"UpdatedRegistration"}, recipient : Recipients, status : Statuses]
    \cup [type : {"RecipientStatusUpdated"}, row : Seq(Statuses)]
    \cup [type : {"DistributionUpdated"}, final : Nat, readable : BOOLEAN]
    \cup [type : {"FundsDistributed", "Distributed", "Allocated"},
          recipient : Recipients, amount : Nat]
    \cup [type : {"DirectAllocated"}, id : Nat, donor : Donors]

Round ==
    [timings : Timing, match : Nat, funded : Nat, distributed : Nat,
     final : Nat \cup {Nil}, count : Nat, donors : Nat]

Application == [recipient : Recipients, status : Statuses, distribution : BOOLEAN]

ASSUME NilAssumption == Nil \notin Timing \cup Round

Init ==
    /\ pool \in [kind : Kinds, known : BOOLEAN, created : {FALSE},
                 times : {Nil}, funds : {0}, meta : {0}, final : {Nil},
                 index : {<<>>}, status : {<<>>}, paid : {{}}, shares : {0}]
    /\ feed = <<>> /\ skipped = <<>>
    /\ handled \in BOOLEAN /\ early = FALSE
    /\ half = Nil /\ cache = Nil
    /\ db = [round |-> Nil, apps |-> <<>>, payouts |-> <<>>, donations |-> {}]
    /\ damaged = {}
    /\ emitted = 0 /\ failed = 0 /\ lost = 0

-----------------------------------------------------------------------------
(* The contracts. *)

Timed == pool.kind # "DirectAllocation"

\* The strategy is initialised and funded before the pool is announced.
Create ==
    /\ ~pool.created
    /\ \E f \in 0..1, m \in 0..1 :
          /\ pool' = [pool EXCEPT !.created = TRUE, !.funds = f, !.meta = m,
                                  !.times = IF Timed THEN 1 ELSE Nil]
          /\ feed' = (IF Timed THEN <<[type |-> "TimestampsUpdated", times |-> 1]>> ELSE <<>>)
                     \o (IF f > 0 THEN <<[type |-> "PoolFunded", amount |-> f]>> ELSE <<>>)
                     \o <<[type |-> "PoolCreated", amount |-> f, meta |-> m]>>
    /\ UNCHANGED <<workVars, emitted>>

\* The contract becomes `new' and announces it with `event'.
Emit(new, event) ==
    /\ pool.created
    /\ emitted < MaxEvents /\ emitted' = emitted + 1
    /\ pool' = new
    /\ feed' = Append(feed, event)
    /\ UNCHANGED workVars

SetsTimes ==
    \E t \in {emitted + 2, Unbounded} :
       /\ Timed
       /\ Emit([pool EXCEPT !.times = t], [type |-> "TimestampsUpdated", times |-> t])

Funds == Emit([pool EXCEPT !.funds = @ + 1], [type |-> "PoolFunded", amount |-> 1])

\* 0 is a document that is no metadata of a round.
SetsMetadata ==
    \E m \in 0..2 :
        Emit([pool EXCEPT !.meta = IF m = 0 THEN @ ELSE m],
             [type |-> "PoolMetadataUpdated", meta |-> m])

\* The recipients are numbered in the order they register.
Registers ==
    \E r \in Recipients \ ToSet(pool.index) :
        /\ Timed
        /\ Emit([pool EXCEPT !.index = Append(@, r), !.status = Append(@, "PENDING")],
                [type |-> "Registered", recipient |-> r, counter |-> Len(pool.index) + 1])

Updates ==
    \E i \in DOMAIN pool.index, s \in Statuses :
        /\ pool.kind \in {"DVMD", "ERF", "DGLite"}
        /\ Emit([pool EXCEPT !.status[i] = s],
                [type |-> "UpdatedRegistration", recipient |-> pool.index[i], status |-> s])

\* The row of the bitmap says the status of every recipient by its number.
Reviews ==
    \E row \in [DOMAIN pool.index -> Statuses] :
        /\ pool.kind \in {"DVMD", "ERF", "DGLite"}
        /\ row # pool.status
        /\ Emit([pool EXCEPT !.status = row], [type |-> "RecipientStatusUpdated", row |-> row])

\* The document of the distribution may be missing or of another form.
Finalizes ==
    \E readable \in BOOLEAN :
        /\ pool.kind \in {"DVMD", "ERF"}
        /\ Emit([pool EXCEPT !.final = IF readable THEN emitted ELSE @],
                [type |-> "DistributionUpdated", final |-> emitted, readable |-> readable])

\* DVMD and ERF pay a recipient once; the direct grants in any number of
\* payments, a payment of nothing included.
Pays ==
    \E i \in DOMAIN pool.index, amount \in 0..1 :
        /\ pool.kind \in {"DVMD", "ERF"} => i \notin pool.paid /\ amount = 1
        /\ Emit([pool EXCEPT !.paid = @ \cup {i}, !.shares = @ + amount],
                [type |-> CASE pool.kind = "DGLite" -> "Allocated"
                            [] pool.kind = "DGSimple" -> "Distributed"
                            [] OTHER -> "FundsDistributed",
                 recipient |-> pool.index[i], amount |-> amount])

Allocates ==
    \E d \in Donors :
        /\ pool.kind = "DirectAllocation"
        /\ Emit(pool, [type |-> "DirectAllocated", id |-> emitted, donor |-> d])

-----------------------------------------------------------------------------
(* What is read. *)

\* Mutant: a time past the range of dates is taken for a date.
MutantDateOf(t) == t

\* getDateFromTimestamp
DateOf(t) == IF t = Unbounded THEN Nil ELSE t

\* The times are read at once, or one after the other.
FirstTimes == IF half = Nil THEN DateOf(pool.times) ELSE half

\* fetchStrategyTimings of each kind
BaseTimings == NoTimings
DVMDTimings == [applications |-> FirstTimes, donations |-> DateOf(pool.times)]
ERFTimings == [applications |-> FirstTimes, donations |-> DateOf(pool.times)]
DGLiteTimings == [applications |-> DateOf(pool.times), donations |-> Nil]

FetchedTimings ==
    CASE pool.kind = "DVMD" -> DVMDTimings
      [] pool.kind = "ERF" -> ERFTimings
      [] pool.kind = "DGLite" -> DGLiteTimings
      [] OTHER -> BaseTimings

\* Mutant: only a row that is there is used.
MutantTimings == IF cache # Nil THEN cache ELSE NoTimings

Stored == cache # Nil

Timings ==
    IF ~handled THEN NoTimings
    ELSE IF Stored THEN cache ELSE FetchedTimings

\* fetchMatchAmount of each kind
BaseMatch(m) == 0
DVMDMatch(m) == m
ERFMatch(m) == m

FetchedMatch(m) ==
    IF ~handled \/ ~pool.known THEN 0
    ELSE CASE pool.kind = "DVMD" -> DVMDMatch(m)
           [] pool.kind = "ERF" -> ERFMatch(m)
           [] OTHER -> BaseMatch(m)

Ids == DOMAIN db.apps

\* The application of a recipient, by its anchor address.
ApplicationIds(r) == {id \in Ids : db.apps[id].recipient = r}

-----------------------------------------------------------------------------
(* The handlers: the changesets of an event. *)

InsertRound(row) == [type |-> "InsertRound", round |-> row]
UpdateRound(columns) == [type |-> "UpdateRound", round |-> columns]
FundedBy(n) == [type |-> "IncrementRoundFundedAmount", n |-> n]
DistributedBy(n) == [type |-> "IncrementRoundTotalDistributed", n |-> n]
UpdateApplication(id, columns) ==
    [type |-> "UpdateApplication", id |-> id, application |-> columns]

\* Mutant: the round starts with nothing funded.
MutantPoolCreated(e) ==
    <<InsertRound([timings |-> Timings, match |-> FetchedMatch(e.meta),
                   funded |-> 0, distributed |-> 0, final |-> Nil,
                   count |-> 0, donors |-> 0])>>

PoolCreated(e) ==
    <<InsertRound([timings |-> Timings, match |-> FetchedMatch(e.meta),
                   funded |-> e.amount, distributed |-> 0, final |-> Nil,
                   count |-> 0, donors |-> 0])>>

PoolFunded(e) == <<FundedBy(e.amount)>>

\* Mutant: a document that does not parse clears the amount.
MutantPoolMetadataUpdated(e) == <<UpdateRound([match |-> e.meta])>>

PoolMetadataUpdated(e) ==
    IF e.meta > 0 /\ pool.known THEN <<UpdateRound([match |-> e.meta])>> ELSE <<>>

DVMDTimestampsUpdated(e) ==
    <<UpdateRound([timings |-> [applications |-> DateOf(e.times), donations |-> DateOf(e.times)]])>>
ERFTimestampsUpdated(e) ==
    <<UpdateRound([timings |-> [applications |-> DateOf(e.times), donations |-> DateOf(e.times)]])>>
DGLiteTimestampsUpdated(e) ==
    <<UpdateRound([timings |-> [db.round.timings EXCEPT !.applications = DateOf(e.times)]])>>
DGSimpleTimestampsUpdated(e) ==
    <<UpdateRound([timings |-> [db.round.timings EXCEPT !.applications = DateOf(e.times)]])>>

NewApplication(id, r) ==
    <<[type |-> "InsertApplication", id |-> id,
       application |-> [recipient |-> r, status |-> "PENDING", distribution |-> FALSE]]>>

\* Mutant: the id is the counter itself.
MutantRecipientId(e) == e.counter

\* The event carries the counter after the registration.
RecipientId(e) == e.counter - 1

DVMDRegistered(e) == NewApplication(RecipientId(e), e.recipient)
ERFRegistered(e) == NewApplication(RecipientId(e), e.recipient)
DGLiteRegistered(e) == NewApplication(RecipientId(e), e.recipient)
DGSimpleRegistered(e) == NewApplication(e.recipient, e.recipient)

WithStatus(e) ==
    SetToSeq({UpdateApplication(id, [status |-> e.status]) : id \in ApplicationIds(e.recipient)})

DVMDUpdatedRegistration(e) == WithStatus(e)
ERFUpdatedRegistration(e) == WithStatus(e)
DGLiteUpdatedRegistration(e) == WithStatus(e)

\* Numbers without an application are passed over.
BaseRecipientStatusUpdated(e) ==
    SetToSeq({UpdateApplication(i - 1, [status |-> e.row[i]]) :
                 i \in {j \in DOMAIN e.row : j - 1 \in Ids}})

BaseDistributionUpdated(e) == <<UpdateRound([final |-> e.final])>>
ERFDistributionUpdated(e) == <<UpdateRound([final |-> e.final])>>

BaseFundsDistributed(e) ==
    SetToSeq({UpdateApplication(id, [distribution |-> TRUE]) : id \in ApplicationIds(e.recipient)})
    \o <<DistributedBy(e.amount)>>

\* A round that is not there is passed over.
BaseDistributed(e) == IF db.round = Nil THEN <<>> ELSE <<DistributedBy(e.amount)>>

\* Mutant: a payment is recorded and not added up.
MutantDGLiteAllocated(e) ==
    <<[type |-> "InsertApplicationPayout", recipient |-> e.recipient, amount |-> e.amount]>>

DGLiteAllocated(e) ==
    <<[type |-> "InsertApplicationPayout", recipient |-> e.recipient, amount |-> e.amount],
      DistributedBy(e.amount)>>

DirectAllocated(e) ==
    <<[type |-> "InsertDonation", id |-> e.id, donor |-> e.donor],
      [type |-> "IncrementRoundDonationStats"]>>

\* handle of each strategy
DVMDHandle(e) ==
    CASE e.type = "Registered" -> DVMDRegistered(e)
      [] e.type = "FundsDistributed" -> BaseFundsDistributed(e)
      [] e.type = "TimestampsUpdated" -> DVMDTimestampsUpdated(e)
      [] e.type = "DistributionUpdated" -> BaseDistributionUpdated(e)
      [] e.type = "UpdatedRegistration" -> DVMDUpdatedRegistration(e)
      [] e.type = "RecipientStatusUpdated" -> BaseRecipientStatusUpdated(e)
      [] e.type = "Distributed" -> BaseDistributed(e)
ERFHandle(e) ==
    CASE e.type = "Registered" -> ERFRegistered(e)
      [] e.type = "UpdatedRegistration" -> ERFUpdatedRegistration(e)
      [] e.type = "RecipientStatusUpdated" -> BaseRecipientStatusUpdated(e)
      [] e.type = "TimestampsUpdated" -> ERFTimestampsUpdated(e)
      [] e.type = "DistributionUpdated" -> ERFDistributionUpdated(e)
      [] e.type = "FundsDistributed" -> BaseFundsDistributed(e)
DGLiteHandle(e) ==
    CASE e.type = "RecipientStatusUpdated" -> BaseRecipientStatusUpdated(e)
      [] e.type = "Registered" -> DGLiteRegistered(e)
      [] e.type = "UpdatedRegistration" -> DGLiteUpdatedRegistration(e)
      [] e.type = "TimestampsUpdated" -> DGLiteTimestampsUpdated(e)
      [] e.type = "Allocated" -> DGLiteAllocated(e)
DGSimpleHandle(e) ==
    CASE e.type = "TimestampsUpdated" -> DGSimpleTimestampsUpdated(e)
      [] e.type = "Registered" -> DGSimpleRegistered(e)
      [] e.type = "Distributed" -> BaseDistributed(e)
DirectAllocationHandle(e) ==
    CASE e.type = "DirectAllocated" -> DirectAllocated(e)

\* createHandler
StrategyHandle(e) ==
    CASE pool.kind = "DVMD" -> DVMDHandle(e)
      [] pool.kind = "ERF" -> ERFHandle(e)
      [] pool.kind = "DGLite" -> DGLiteHandle(e)
      [] pool.kind = "DGSimple" -> DGSimpleHandle(e)
      [] pool.kind = "DirectAllocation" -> DirectAllocationHandle(e)

AlloEvents == {"PoolCreated", "PoolFunded", "PoolMetadataUpdated"}

Changes(e) ==
    CASE e.type = "PoolCreated" -> PoolCreated(e)
      [] e.type = "PoolFunded" -> PoolFunded(e)
      [] e.type = "PoolMetadataUpdated" -> PoolMetadataUpdated(e)
      [] OTHER -> StrategyHandle(e)

RoundMissing(e) ==
    e.type \notin {"PoolCreated", "Distributed", "DistributionUpdated"} /\ db.round = Nil

ApplicationMissing(e) ==
    /\ e.type \in {"UpdatedRegistration", "FundsDistributed", "Allocated"}
    /\ ApplicationIds(e.recipient) = {}

TokenUnknown(e) ==
    e.type \in {"PoolFunded", "Allocated", "DirectAllocated"} /\ ~pool.known

\* Mutant: a document that cannot be read is a distribution of nothing.
MutantUnreadable(e) == FALSE

Unreadable(e) == e.type = "DistributionUpdated" /\ ~e.readable

\* The handler throws for good.
Throws(e) == RoundMissing(e) \/ ApplicationMissing(e) \/ TokenUnknown(e) \/ Unreadable(e)

-----------------------------------------------------------------------------
(* The data loader: the changesets it takes, and the rows after one. *)

IsRoundChangeset(ch) ==
    \/ ch.type = "InsertRound" /\ ch.round \in Round
    \/ /\ ch.type = "UpdateRound"
       /\ db.round # Nil => \A k \in DOMAIN ch.round : [db.round EXCEPT ![k] = ch.round[k]] \in Round
    \/ /\ ch.type \in {"IncrementRoundFundedAmount", "IncrementRoundTotalDistributed"}
       /\ ch.n \in Nat
    \/ ch.type = "IncrementRoundDonationStats"

IsApplicationChangeset(ch) ==
    \/ ch.type = "InsertApplication" /\ ch.application \in Application
    \/ ch.type = "UpdateApplication" /\ ch.id \in Ids

IsDonationChangeset(ch) == ch.type = "InsertDonation" /\ ch.donor \in Donors
IsPayoutChangeset(ch) == ch.type = "InsertApplicationPayout" /\ ch.amount \in Nat

IsChangeset(ch) ==
    \/ IsRoundChangeset(ch) \/ IsApplicationChangeset(ch)
    \/ IsDonationChangeset(ch) \/ IsPayoutChangeset(ch)

\* The columns of `new' in the row.
Overwritten(row, new) == [k \in DOMAIN row |-> IF k \in DOMAIN new THEN new[k] ELSE row[k]]

WithRound(d, row) == [d EXCEPT !.round = row]

\* An update of a round that is not there changes no row.
WithColumns(d, new) ==
    IF d.round = Nil THEN d ELSE [d EXCEPT !.round = Overwritten(@, new)]

WithFunds(d, n) == [d EXCEPT !.round.funded = @ + n]
WithDistributed(d, n) == [d EXCEPT !.round.distributed = @ + n]

WithDonationStats(d) ==
    [d EXCEPT !.round.count = @ + 1,
              !.round.donors = Cardinality({n.donor : n \in d.donations})]

RoundChange(d, ch) ==
    CASE ch.type = "InsertRound" -> WithRound(d, ch.round)
      [] ch.type = "UpdateRound" -> WithColumns(d, ch.round)
      [] ch.type = "IncrementRoundFundedAmount" -> WithFunds(d, ch.n)
      [] ch.type = "IncrementRoundTotalDistributed" -> WithDistributed(d, ch.n)
      [] ch.type = "IncrementRoundDonationStats" -> WithDonationStats(d)

WithApplication(d, id, row) ==
    [d EXCEPT !.apps = [i \in DOMAIN @ \cup {id} |-> IF i = id THEN row ELSE @[i]]]
WithApplicationColumns(d, id, new) == [d EXCEPT !.apps[id] = Overwritten(@, new)]

ApplicationChange(d, ch) ==
    CASE ch.type = "InsertApplication" -> WithApplication(d, ch.id, ch.application)
      [] ch.type = "UpdateApplication" -> WithApplicationColumns(d, ch.id, ch.application)

PayoutChange(d, ch) ==
    [d EXCEPT !.payouts = Append(@, [recipient |-> ch.recipient, amount |-> ch.amount])]

DonationChange(d, ch) ==
    [d EXCEPT !.donations = @ \cup {[id |-> ch.id, donor |-> ch.donor]}]

Applied(d, ch) ==
    CASE ch.type \in {"InsertApplication", "UpdateApplication"} -> ApplicationChange(d, ch)
      [] ch.type = "InsertApplicationPayout" -> PayoutChange(d, ch)
      [] ch.type = "InsertDonation" -> DonationChange(d, ch)
      [] OTHER -> RoundChange(d, ch)

\* All changes of an event, one after the other.
ApplyChanges(d, changes) ==
    LET after[i \in 0..Len(changes)] ==
            IF i = 0 THEN d ELSE Applied(after[i - 1], changes[i])
    IN  after[Len(changes)]

-----------------------------------------------------------------------------
(* The loop of the chain. *)

\* Columns an event is about.
Column(e) ==
    CASE e.type \in {"PoolCreated"} -> {"timings", "funded", "match", "distributed", "final", "apps"}
      [] e.type = "PoolFunded" -> {"funded"}
      [] e.type = "PoolMetadataUpdated" -> {"match"}
      [] e.type = "TimestampsUpdated" -> {"timings"}
      [] e.type \in {"Registered", "UpdatedRegistration", "RecipientStatusUpdated"} ->
            {"apps", "distributed"}
      [] e.type = "DistributionUpdated" -> {"final"}
      [] OTHER -> {"distributed"}

Takes(e) == feed # <<>> /\ e = Head(feed) /\ feed' = Tail(feed)

NeedsHandler(e) == e.type \notin AlloEvents

\* The row of strategy_timings after the handler has run.
CacheAfter(e) == IF e.type = "PoolCreated" /\ handled THEN Timings ELSE cache

\* On a chain without multicall the first times are read, the others not yet.
ReadHalf ==
    /\ feed # <<>> /\ Head(feed).type = "PoolCreated"
    /\ handled /\ cache = Nil /\ half = Nil
    /\ pool.kind \in {"DVMD", "ERF"}
    /\ half' = DateOf(pool.times)
    /\ UNCHANGED <<pool, feed, handled, skipped, cache, db, early, damaged, failed, lost, emitted>>

\* The event is handled and its changesets are applied.
Handle(e) ==
    /\ Takes(e)
    /\ NeedsHandler(e) => handled
    /\ ~Throws(e)
    /\ cache' = CacheAfter(e)
    /\ db' = ApplyChanges(db, Changes(e))
    /\ half' = Nil
    /\ early' = (early \/ (e.type = "PoolCreated" /\ handled))
    /\ UNCHANGED <<pool, handled, skipped, damaged, failed, lost, emitted>>

\* The handler throws for good: the event is passed over.
Refuse(e) ==
    /\ Takes(e)
    /\ NeedsHandler(e) => handled
    /\ Throws(e)
    /\ UNCHANGED <<pool, workVars, emitted>>

\* No handler for the strategy: the event is left for a later build.
Skip(e) ==
    /\ Takes(e)
    /\ NeedsHandler(e) /\ ~handled
    /\ skipped' = Append(skipped, e)
    /\ UNCHANGED <<pool, handled, half, cache, db, early, damaged, failed, lost, emitted>>

\* An attempt at PoolCreated fails after the times were stored, and is retried.
Fail(e) ==
    /\ feed # <<>> /\ e = Head(feed) /\ e.type = "PoolCreated"
    /\ failed < MaxFailed /\ failed' = failed + 1
    /\ cache' = CacheAfter(e)
    /\ half' = Nil
    /\ UNCHANGED <<pool, feed, handled, skipped, db, early, damaged, lost, emitted>>

\* All attempts fail: the event is given up.
GiveUp(e) ==
    /\ Takes(e)
    /\ NeedsHandler(e) => handled
    /\ lost < MaxLost /\ lost' = lost + 1
    /\ damaged' = damaged \cup Column(e)
    /\ half' = Nil
    /\ UNCHANGED <<pool, handled, skipped, cache, db, early, failed, emitted>>

\* The script of the bootstrap stores the times of pools it finds; a row stored
\* after PoolCreated is not read any more.
Bootstrap ==
    /\ pool.created /\ db.round = Nil /\ cache = Nil /\ handled
    /\ cache' = FetchedTimings
    /\ UNCHANGED <<pool, feed, handled, skipped, half, db, early, damaged, failed, lost, emitted>>

\* A build with the handler handles what was passed over first.
NewBuild ==
    /\ ~handled /\ handled' = TRUE
    /\ feed' = skipped \o feed /\ skipped' = <<>>
    /\ UNCHANGED <<pool, half, cache, db, early, damaged, failed, lost, emitted>>

Step(e) == Handle(e) \/ Refuse(e) \/ Skip(e) \/ Fail(e) \/ GiveUp(e)

Next ==
    \/ Create \/ SetsTimes \/ Funds \/ SetsMetadata \/ Registers \/ Updates \/ Reviews
    \/ Finalizes \/ Pays \/ Allocates
    \/ ReadHalf \/ Bootstrap \/ NewBuild
    \/ \E e \in ToSet(feed) : Step(e)

Spec == Init /\ [][Next]_vars
-----------------------------------------------------------------------------
(* Properties. *)

\* Every event is handled, the ones of earlier builds too.
Settled == feed = <<>> /\ skipped = <<>> /\ db.round # Nil

Intact(column) == Settled /\ column \notin damaged

\* The times the round should have.
ExpectedTimings ==
    [applications |-> DateOf(pool.times),
     donations |-> IF pool.kind \in {"DVMD", "ERF"} THEN DateOf(pool.times) ELSE Nil]

\* The sum of the payouts.
Paid ==
    LET sum[i \in 0..Len(db.payouts)] ==
            IF i = 0 THEN 0 ELSE sum[i - 1] + db.payouts[i].amount
    IN  sum[Len(db.payouts)]

\* Every variable stays in its domain, every change the next event asks for is
\* one the data loader has a handler for, and applications and payouts are of
\* rounds that are there.
TypeOK ==
    /\ pool.kind \in Kinds /\ pool.times \in Times \cup {Nil}
    /\ \A i \in DOMAIN feed : feed[i] \in AlloEvent \cup StrategyEvent
    /\ \A i \in DOMAIN skipped : skipped[i] \in StrategyEvent
    /\ cache \in Timing \cup {Nil}
    /\ db.round \in Round \cup {Nil}
    /\ \A id \in Ids : db.apps[id] \in Application
    /\ db.round = Nil => db.apps = <<>> /\ db.payouts = <<>> /\ db.donations = {}
    /\ \A e \in ToSet(feed) :
          e = Head(feed) /\ (NeedsHandler(e) => handled) /\ ~Throws(e)
              => \A ch \in ToSet(Changes(e)) : IsChangeset(ch)

\* Once its events are handled a round has the times of the contract, although
\* they are read from a later state of the chain than the event's, perhaps half
\* before and half after a change, stored by an attempt that failed or by the
\* bootstrap script, and the updates since are applied again on top.  A direct
\* grants round (simple) has them only if its pool was created before the build
\* with the handlers.
TimingsFollowContract ==
    Intact("timings") /\ (pool.kind = "DGSimple" => ~early)
        => db.round.timings = ExpectedTimings

\* The funds a pool is created with are announced by PoolFunded, which comes
\* before PoolCreated and finds no round, and by PoolCreated: they are counted
\* once, and later funds once.
FundsCountedOnce ==
    Intact("funded") /\ pool.known => db.round.funded = pool.funds

\* The match amount is that of the last metadata that are metadata of a round,
\* if the build that created the round had a handler.
MatchFollowsMetadata ==
    Intact("match") /\ pool.known /\ early /\ pool.kind \in {"DVMD", "ERF"}
        => db.round.match = pool.meta

\* The totals of a round are those of the rows they count: what it has
\* distributed is what its contract has paid, and in direct grants (lite) the sum
\* of the payouts at every moment; its donations, of a round of direct
\* allocations, are those stored.
TotalsMatchRows ==
    /\ Intact("distributed") /\ (pool.kind = "DGLite" => pool.known)
          => db.round.distributed = pool.shares
    /\ pool.kind = "DGLite" /\ db.round # Nil => db.round.distributed = Paid
    /\ db.round # Nil =>
          /\ db.round.count = Cardinality(db.donations)
          /\ db.round.donors = Cardinality({d.donor : d \in db.donations})

\* The application with the number of a recipient in the contract is that
\* recipient's, with its status: the counter of the registration and the place
\* in the bitmap of a review agree, whatever was lost of other recipients.
ApplicationsFollowRecipients ==
    /\ \A id \in Ids : id \in Nat =>
          /\ id + 1 \in DOMAIN pool.index
          /\ db.apps[id].recipient = pool.index[id + 1]
    /\ Intact("apps") =>
          \A i \in DOMAIN pool.index :
             LET id == IF pool.kind = "DGSimple" THEN pool.index[i] ELSE i - 1
             IN id \in Ids /\ db.apps[id].status = pool.status[i]

\* The round is ready for payout with the last distribution that could be read.
FinalFollowsContract == Intact("final") => db.round.final = pool.final

(***************************************************************************)
(* What a comment in the code says and the code does not do.               *)
(***************************************************************************)

\* The error of a TimestampsUpdated event that comes before the PoolCreated of
\* its block can safely be ignored: the round gets the times all the same.
IgnoredIsSafe == Intact("timings") => db.round.timings = ExpectedTimings
=============================================================================
