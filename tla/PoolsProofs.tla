---------------------------- MODULE PoolsProofs ----------------------------
(***************************************************************************)
(* The properties of Pools, for every set of recipients and donors and any *)
(* number of events, failed attempts and events given up.                  *)
(*                                                                         *)
(* All events still to be handled, the passed over ones first, are one     *)
(* queue Q.  The invariant says for every column what is missing in it:    *)
(* the last event of the queue about it carries what the contract has, and *)
(* without such an event the table has it; sums run from the table's value *)
(* over the queue to the contract's.  A contract's call adds an event at   *)
(* the end of Q; a handler removes one, either the first or an Allo event  *)
(* behind strategy events that await a build.  What a handler does to the  *)
(* tables is worked out once for each event (After), through the sequence  *)
(* of changes it returns.                                                  *)
(***************************************************************************)
EXTENDS Pools, Integers, FunctionTheorems, FiniteSetTheorems, SequenceTheorems, WellFoundedInduction, TLAPS

\* What is still to be handled, in the order of the chain.
Q == skipped \o feed
N == Len(Q)

Events == AlloEvent \cup StrategyEvent
AllColumns == {"timings", "funded", "match", "distributed", "final", "apps"}

PoolType ==
    [kind : Kinds, known : BOOLEAN, created : BOOLEAN, times : Times \cup {Nil},
     funds : Nat, meta : Nat, final : Nat \cup {Nil}, index : Seq(Recipients),
     status : Seq(Statuses), paid : SUBSET Nat, shares : Nat]

VarTypes ==
    /\ pool \in PoolType
    /\ feed \in Seq(Events) /\ skipped \in Seq(StrategyEvent)
    /\ handled \in BOOLEAN /\ early \in BOOLEAN
    /\ half \in Dates /\ cache \in Timing \cup {Nil}
    /\ damaged \subseteq AllColumns
    /\ emitted \in Nat /\ failed \in Nat /\ lost \in Nat

DbOK ==
    /\ db = [round |-> db.round, apps |-> db.apps, payouts |-> db.payouts, donations |-> db.donations]
    /\ db.round \in Round \cup {Nil}
    /\ db.apps = [id \in Ids |-> db.apps[id]]
    /\ IsFiniteSet(Ids)
    /\ \A id \in Ids : db.apps[id] \in Application
    /\ db.payouts \in Seq([recipient : Recipients, amount : Nat])
    /\ IsFiniteSet(db.donations)
    /\ db.donations \subseteq [id : Nat, donor : Donors]
    /\ db.round = Nil => db.apps = <<>> /\ db.payouts = <<>> /\ db.donations = {}

\* The contract, before it is created and after.
PoolOK ==
    /\ ~pool.created =>
          /\ Q = <<>> /\ db.round = Nil /\ cache = Nil /\ half = Nil /\ damaged = {} /\ ~early
          /\ pool.times = Nil /\ pool.funds = 0 /\ pool.meta = 0 /\ pool.final = Nil /\ pool.shares = 0
    /\ ~pool.created \/ ~Timed => pool.index = <<>>
    /\ pool.created /\ Timed => pool.times \in Times
    /\ ~Timed => pool.times = Nil
    /\ Len(pool.status) = Len(pool.index)
    /\ \A i, j \in DOMAIN pool.index : pool.index[i] = pool.index[j] => i = j
    /\ pool.kind = "DGSimple" => \A i \in DOMAIN pool.index : pool.status[i] = "PENDING"

\* A build without the handler leaves the strategy's events for a later one.
BuildOK ==
    /\ handled => skipped = <<>>
    /\ ~handled => cache = Nil /\ half = Nil /\ ~early
    /\ early => db.round # Nil

\* An event is one the strategy of the pool has, about what is registered.
Fits(e) ==
    /\ e.type = "TimestampsUpdated" => Timed
    /\ e.type = "Registered" =>
          Timed /\ e.counter \in DOMAIN pool.index /\ pool.index[e.counter] = e.recipient
    /\ e.type = "UpdatedRegistration" => pool.kind \in {"DVMD", "ERF", "DGLite"}
    /\ e.type = "RecipientStatusUpdated" =>
          pool.kind \in {"DVMD", "ERF", "DGLite"} /\ Len(e.row) <= Len(pool.index)
    /\ e.type \in {"DistributionUpdated", "FundsDistributed"} => pool.kind \in {"DVMD", "ERF"}
    /\ e.type = "Distributed" => pool.kind = "DGSimple"
    /\ e.type = "Allocated" => pool.kind = "DGLite"
    /\ e.type \in {"UpdatedRegistration", "FundsDistributed", "Distributed", "Allocated"} =>
          \E i \in DOMAIN pool.index : pool.index[i] = e.recipient
    /\ e.type = "DirectAllocated" => pool.kind = "DirectAllocation" /\ e.id < emitted

EventsFit == \A k \in 1..N : Fits(Q[k])

\* Classes of events: the last one of a class decides.
IsLast(k, C) == Q[k] \in C /\ \A j \in 1..N : k < j => Q[j] \notin C
Without(C) == \A k \in 1..N : Q[k] \notin C

Creations   == {e \in Events : e.type = "PoolCreated"}
TimesEvents == {e \in Events : e.type = "TimestampsUpdated"}
Documents   == Creations \cup {e \in Events : e.type = "PoolMetadataUpdated" /\ e.meta > 0}
Finals      == {e \in Events : e.type = "DistributionUpdated" /\ e.readable}

\* The creation comes once, after times and funds only; without it ahead, the
\* round is there or the creation was lost.
CreationOK ==
    /\ \A j, k \in 1..N : Q[j] \in Creations /\ Q[k] \in Creations => j = k
    /\ \A j, k \in 1..N : Q[k] \in Creations /\ j < k => Q[j].type \in {"TimestampsUpdated", "PoolFunded"}
    /\ db.round # Nil => Without(Creations)
    /\ pool.created /\ db.round = Nil /\ Without(Creations) => AllColumns \subseteq damaged

\* Recipients and their applications.
IdOf(i) == IF pool.kind = "DGSimple" THEN pool.index[i] ELSE i - 1

AppsOK ==
    /\ \A id \in Ids : \E i \in DOMAIN pool.index : id = IdOf(i) /\ db.apps[id].recipient = pool.index[i]
    /\ "apps" \in damaged => "distributed" \in damaged

\* The registration with a number, and the events after it about that recipient.
Registrations(i) == {e \in Events : e.type = "Registered" /\ e.counter = i}
Changers(i, r) ==
    {e \in Events : (e.type = "UpdatedRegistration" /\ e.recipient = r)
                   \/ (e.type = "RecipientStatusUpdated" /\ i \in DOMAIN e.row)}
Payments(r) == {e \in Events : e.type \in {"FundsDistributed", "Allocated"} /\ e.recipient = r}

Arrives ==
    \A i \in DOMAIN pool.index :
        /\ \A j, k \in 1..N : Q[j] \in Registrations(i) /\ Q[k] \in Registrations(i) => j = k
        /\ \A j, k \in 1..N :
              Q[k] \in Registrations(i) /\ Q[j] \in Changers(i, pool.index[i]) \cup Payments(pool.index[i])
                  => k < j
        /\ "apps" \notin damaged /\ Without(Registrations(i)) => IdOf(i) \in Ids
        /\ IdOf(i) \in Ids => Without(Registrations(i))

\* What gives an application its status, and the status it gives.
Givers(i, r) == Registrations(i) \cup Changers(i, r)
Given(e, i) ==
    IF e.type = "Registered" THEN "PENDING"
    ELSE IF e.type = "UpdatedRegistration" THEN e.status ELSE e.row[i]

StatusOK ==
    \A i \in DOMAIN pool.index :
        /\ \A k \in 1..N : IsLast(k, Givers(i, pool.index[i])) => Given(Q[k], i) = pool.status[i]
        /\ "apps" \notin damaged /\ Without(Givers(i, pool.index[i]))
              => IdOf(i) \in Ids /\ db.apps[IdOf(i)].status = pool.status[i]

\* The last distribution that can be read.
FinalNow == IF db.round = Nil THEN Nil ELSE db.round.final
FinalOK ==
    /\ \A k \in 1..N : IsLast(k, Finals) => Q[k].final = pool.final
    /\ "final" \notin damaged /\ Without(Finals) => FinalNow = pool.final

\* The last metadata.
Matched == "match" \notin damaged /\ pool.known /\ early /\ pool.kind \in {"DVMD", "ERF"}
MatchOK ==
    /\ \A k \in 1..N : IsLast(k, Documents) => Q[k].meta = pool.meta
    /\ Matched /\ db.round # Nil /\ Without(Documents) => db.round.match = pool.meta

\* The last times; after them, and only then, what is read or stored for the
\* creation is what the contract has.
Reread == "timings" \notin damaged /\ (pool.kind = "DGSimple" => ~early)
ReadsLast(k) == Q[k] \in Creations /\ \A j \in 1..N : k < j => Q[j] \notin TimesEvents
TimesOK ==
    /\ \A k \in 1..N : IsLast(k, TimesEvents) => Q[k].times = pool.times
    /\ db.round # Nil /\ Reread /\ Without(TimesEvents) => db.round.timings = ExpectedTimings
    /\ Timed /\ ~handled /\ Without(TimesEvents) => Without(Creations)
StoredOK ==
    /\ db.round # Nil /\ pool.kind \notin {"DVMD", "ERF"} => db.round.timings.donations = Nil
    /\ cache # Nil /\ pool.kind \notin {"DVMD", "ERF"} => cache.donations = Nil
    /\ cache # Nil /\ ~Timed => cache = NoTimings
    /\ handled /\ pool.kind # "DGSimple" =>
          \A k \in 1..N : ReadsLast(k) =>
              cache \in {Nil, ExpectedTimings} /\ half \in {Nil, ExpectedTimings.applications}

\* Funds and payments add up: a value before the queue, and one after each event.
FundedAfter(n, e) == IF e.type = "PoolCreated" THEN e.amount
                     ELSE IF e.type = "PoolFunded" THEN n + e.amount ELSE n
FundsRun(h) ==
    /\ h \in [0..N -> Nat]
    /\ h[N] = pool.funds
    /\ db.round # Nil => h[0] = db.round.funded
    /\ \A k \in 1..N : h[k] = FundedAfter(h[k - 1], Q[k])
FundsOK == "funded" \notin damaged /\ pool.known => \E h : FundsRun(h)

ShareOf(e) == IF e.type \in {"FundsDistributed", "Distributed", "Allocated"} THEN e.amount ELSE 0
DistributedNow == IF db.round = Nil THEN 0 ELSE db.round.distributed
SharesRun(h) ==
    /\ h \in [0..N -> Nat]
    /\ h[N] = pool.shares
    /\ h[0] = DistributedNow
    /\ \A k \in 1..N : h[k] = h[k - 1] + ShareOf(Q[k])
SharesOK == "distributed" \notin damaged /\ (pool.kind = "DGLite" => pool.known) => \E h : SharesRun(h)

PayoutsOK == pool.kind = "DGLite" /\ db.round # Nil => db.round.distributed = Paid

\* Direct allocations have ids of their own.
Directs == {e \in Events : e.type = "DirectAllocated"}
DonationsOK ==
    /\ \A d \in db.donations : d.id < emitted
    /\ \A k \in 1..N : Q[k] \in Directs =>
          /\ \A d \in db.donations : d.id < Q[k].id
          /\ \A j \in 1..N : k < j /\ Q[j] \in Directs => Q[k].id < Q[j].id
    /\ db.round # Nil =>
          /\ db.round.count = Cardinality(db.donations)
          /\ db.round.donors = Cardinality({d.donor : d \in db.donations})

IInv ==
    /\ VarTypes /\ DbOK /\ PoolOK /\ BuildOK /\ EventsFit /\ CreationOK /\ AppsOK /\ Arrives /\ StatusOK
    /\ FinalOK /\ MatchOK /\ TimesOK /\ StoredOK /\ FundsOK /\ SharesOK /\ PayoutsOK /\ DonationsOK
-----------------------------------------------------------------------------
(* What applying a sequence of changes does. *)

\* A set of numbers that is not empty has a least one.
LEMMA LeastElement ==
    ASSUME NEW S \in SUBSET Nat, S # {}
    PROVE  \E m \in S : \A n \in S : m <= n
<1>. DEFINE R == OpToRel(<, Nat)
<1>1. IsWellFoundedOn(R, Nat)
  BY NatLessThanWellFounded
<1>2. \A x, y \in Nat : <<x, y>> \in R <=> x < y
  BY DEF OpToRel
<1>. HIDE DEF R
<1>3. PICK m \in S : \A n \in S : ~(<<n, m>> \in R)
  BY <1>1, WFMin
<1>4. ASSUME NEW n \in S PROVE m <= n
  <2>1. m \in Nat /\ n \in Nat
    OBVIOUS
  <2>2. ~(n < m)
    BY <1>2, <1>3, <2>1, Zenon
  <2>. QED BY <2>1, <2>2
<1>. QED BY <1>4

\* The tables after each of the changes.
Applies(d, chs, n, f) == f = [i \in 0..n |-> IF i = 0 THEN d ELSE Applied(f[i - 1], chs[i])]

\* They exist for every number of changes.
LEMMA AppliesExists ==
    ASSUME NEW d, NEW chs, NEW n \in Nat
    PROVE  \E f : Applies(d, chs, n, f)
<1> DEFINE Bad == {k \in Nat : ~\E f : Applies(d, chs, k, f)}
<1> SUFFICES ASSUME Bad # {} PROVE FALSE
  OBVIOUS
<1>1. PICK k \in Bad : \A j \in Bad : k <= j
  BY LeastElement
<1>2. CASE k = 0
  <2>1. Applies(d, chs, 0, [i \in 0..0 |-> d])
    BY DEF Applies
  <2>. QED BY <1>2, <2>1
<1>3. CASE k # 0
  <2>1. k - 1 \in Nat /\ k - 1 \notin Bad
    BY <1>1, <1>3
  <2>2. PICK f : Applies(d, chs, k - 1, f)
    BY <2>1
  <2> DEFINE g == [i \in 0..k |-> IF i < k THEN f[i] ELSE Applied(f[k - 1], chs[k])]
  <2>3. ASSUME NEW i \in 0..k
        PROVE  g[i] = IF i = 0 THEN d ELSE Applied(g[i - 1], chs[i])
    <3>1. CASE i = k
      BY <1>3, <2>1, <3>1
    <3>2. CASE i # k
      <4>1. i \in 0..(k - 1) /\ i < k
        BY <1>3, <2>1, <3>2
      <4>2. f[i] = IF i = 0 THEN d ELSE Applied(f[i - 1], chs[i])
        BY <2>2, <4>1 DEF Applies
      <4>3. i # 0 => i - 1 \in 0..k /\ i - 1 < k
        BY <4>1
      <4>. QED BY <4>1, <4>2, <4>3
    <3>. QED BY <3>1, <3>2
  <2>4. g = [i \in 0..k |-> g[i]]
    OBVIOUS
  <2> HIDE DEF g
  <2>5. Applies(d, chs, k, g)
    BY <2>3, <2>4 DEF Applies
  <2>. QED BY <1>1, <2>5
<1>. QED BY <1>2, <1>3

\* The result is the last of them.
RunOf(d, chs, f) ==
    /\ f[0] = d
    /\ \A i \in 1..Len(chs) : f[i] = Applied(f[i - 1], chs[i])
    /\ ApplyChanges(d, chs) = f[Len(chs)]

\* The changes applied one after the other give such a sequence.
LEMMA ApplyRun ==
    ASSUME NEW d, NEW chs, Len(chs) \in Nat
    PROVE  \E f : RunOf(d, chs, f)
<1> DEFINE f == CHOOSE f : Applies(d, chs, Len(chs), f)
<1>1. Applies(d, chs, Len(chs), f)
  BY AppliesExists
<1>2. ApplyChanges(d, chs) = f[Len(chs)]
  BY DEF ApplyChanges, Applies
<1> HIDE DEF f
<1>3. f[0] = d /\ \A i \in 1..Len(chs) : f[i] = Applied(f[i - 1], chs[i])
  BY <1>1 DEF Applies
<1>. QED BY <1>2, <1>3 DEF RunOf

\* No change, one, and two.
LEMMA ApplyNone == ASSUME NEW d PROVE ApplyChanges(d, <<>>) = d
<1> DEFINE s == <<>>
<1>1. Len(s) = 0 /\ Len(s) \in Nat
  OBVIOUS
<1> HIDE DEF s
<1>2. PICK f : RunOf(d, s, f)
  BY <1>1, ApplyRun
<1>. QED BY <1>1, <1>2 DEF RunOf, s

\* One change is applied to the tables.
LEMMA ApplyOne == ASSUME NEW d, NEW a PROVE ApplyChanges(d, <<a>>) = Applied(d, a)
<1> DEFINE s == <<a>>
<1>1. Len(s) = 1 /\ s[1] = a /\ Len(s) \in Nat
  OBVIOUS
<1> HIDE DEF s
<1>2. PICK f : RunOf(d, s, f)
  BY <1>1, ApplyRun
<1>3. f[1] = Applied(f[0], a)
  BY <1>1, <1>2 DEF RunOf
<1>. QED BY <1>1, <1>2, <1>3 DEF RunOf, s

\* The second of two changes is applied to what the first leaves.
LEMMA ApplyTwo ==
    ASSUME NEW d, NEW a, NEW b
    PROVE  ApplyChanges(d, <<a, b>>) = Applied(Applied(d, a), b)
<1> DEFINE s == <<a, b>>
<1>1. Len(s) = 2 /\ s[1] = a /\ s[2] = b /\ Len(s) \in Nat
  OBVIOUS
<1> HIDE DEF s
<1>2. PICK f : RunOf(d, s, f)
  BY <1>1, ApplyRun
<1>3. f[1] = Applied(f[0], a) /\ f[2] = Applied(f[1], b)
  BY <1>1, <1>2 DEF RunOf
<1>. QED BY <1>1, <1>2, <1>3 DEF RunOf, s

\* One change more.
LEMMA ApplyMore ==
    ASSUME NEW d, NEW s, NEW C, s \in Seq(C), NEW b
    PROVE  ApplyChanges(d, s \o <<b>>) = Applied(ApplyChanges(d, s), b)
<1> DEFINE n == Len(s)
           t == s \o <<b>>
<1>1. n \in Nat /\ Len(t) = n + 1 /\ t[n + 1] = b /\ \A i \in 1..n : t[i] = s[i]
  BY LenProperties
<1>2. Len(t) \in Nat
  BY <1>1
<1> HIDE DEF n, t
<1>3. PICK f : RunOf(d, s, f)
  BY <1>1, ApplyRun DEF n
<1>4. PICK g : RunOf(d, t, g)
  BY <1>2, ApplyRun
<1>5. /\ f[0] = d /\ \A i \in 1..n : f[i] = Applied(f[i - 1], s[i])
      /\ ApplyChanges(d, s) = f[n]
  BY <1>3 DEF RunOf, n
<1>6. /\ g[0] = d /\ \A i \in 1..(n + 1) : g[i] = Applied(g[i - 1], t[i])
      /\ ApplyChanges(d, t) = g[n + 1]
  BY <1>1, <1>4 DEF RunOf
<1> DEFINE Bad == {i \in Nat : i <= n /\ f[i] # g[i]}
<1>7. Bad = {}
  <2> SUFFICES ASSUME Bad # {} PROVE FALSE
    OBVIOUS
  <2>1. PICK k \in Bad : \A j \in Bad : k <= j
    BY LeastElement
  <2>2. k # 0 /\ k \in 1..n
    BY <1>1, <1>5, <1>6, <2>1
  <2>3. k - 1 \in Nat /\ k - 1 \notin Bad
    BY <2>1, <2>2
  <2>4. f[k - 1] = g[k - 1]
    BY <1>1, <2>2, <2>3
  <2>5. f[k] = Applied(f[k - 1], s[k]) /\ g[k] = Applied(g[k - 1], t[k]) /\ t[k] = s[k]
    BY <1>1, <1>5, <1>6, <2>2
  <2>. QED BY <2>1, <2>4, <2>5
<1>8. f[n] = g[n]
  BY <1>1, <1>7
<1>9. g[n + 1] = Applied(g[n], b)
  BY <1>1, <1>6
<1>. QED BY <1>5, <1>6, <1>8, <1>9 DEF t
-----------------------------------------------------------------------------
(* What a change does to the tables. *)

Db(round, apps, payouts, donations) ==
    [round |-> round, apps |-> apps, payouts |-> payouts, donations |-> donations]

\* Overwriting one column of a round.
LEMMA OverwriteMatch ==
    ASSUME NEW r \in Round, NEW m
    PROVE  Overwritten(r, [match |-> m]) = [r EXCEPT !.match = m]
<1>1. DOMAIN [match |-> m] = {"match"} /\ [match |-> m]["match"] = m
  OBVIOUS
<1>2. Overwritten(r, [match |-> m]) = [k \in DOMAIN r |-> IF k = "match" THEN m ELSE r[k]]
  BY <1>1 DEF Overwritten
<1>3. r = [k \in DOMAIN r |-> r[k]]
  BY DEF Round
<1>4. [r EXCEPT !.match = m] = [k \in DOMAIN r |-> IF k = "match" THEN m ELSE r[k]]
  BY <1>3
<1>. QED BY <1>2, <1>4

\* An update of the times replaces them and nothing else.
LEMMA OverwriteTimings ==
    ASSUME NEW r \in Round, NEW m
    PROVE  Overwritten(r, [timings |-> m]) = [r EXCEPT !.timings = m]
<1>1. DOMAIN [timings |-> m] = {"timings"} /\ [timings |-> m]["timings"] = m
  OBVIOUS
<1>2. Overwritten(r, [timings |-> m]) = [k \in DOMAIN r |-> IF k = "timings" THEN m ELSE r[k]]
  BY <1>1 DEF Overwritten
<1>3. r = [k \in DOMAIN r |-> r[k]]
  BY DEF Round
<1>4. [r EXCEPT !.timings = m] = [k \in DOMAIN r |-> IF k = "timings" THEN m ELSE r[k]]
  BY <1>3
<1>. QED BY <1>2, <1>4

\* An update of the distribution replaces it and nothing else.
LEMMA OverwriteFinal ==
    ASSUME NEW r \in Round, NEW m
    PROVE  Overwritten(r, [final |-> m]) = [r EXCEPT !.final = m]
<1>1. DOMAIN [final |-> m] = {"final"} /\ [final |-> m]["final"] = m
  OBVIOUS
<1>2. Overwritten(r, [final |-> m]) = [k \in DOMAIN r |-> IF k = "final" THEN m ELSE r[k]]
  BY <1>1 DEF Overwritten
<1>3. r = [k \in DOMAIN r |-> r[k]]
  BY DEF Round
<1>4. [r EXCEPT !.final = m] = [k \in DOMAIN r |-> IF k = "final" THEN m ELSE r[k]]
  BY <1>3
<1>. QED BY <1>2, <1>4

\* and of an application: once more changes nothing.
LEMMA OverwriteTwice ==
    ASSUME NEW row, NEW new
    PROVE  Overwritten(Overwritten(row, new), new) = Overwritten(row, new)
BY DEF Overwritten

\* An update of an application replaces its status, or marks it.
LEMMA OverwriteApplication ==
    ASSUME NEW row \in Application, NEW st \in Statuses
    PROVE  /\ Overwritten(row, [status |-> st]) \in Application
           /\ Overwritten(row, [status |-> st]).status = st
           /\ Overwritten(row, [status |-> st]).recipient = row.recipient
           /\ Overwritten(row, [distribution |-> TRUE]) \in Application
           /\ Overwritten(row, [distribution |-> TRUE]).status = row.status
           /\ Overwritten(row, [distribution |-> TRUE]).recipient = row.recipient
<1>1. DOMAIN row = {"recipient", "status", "distribution"}
  BY DEF Application
<1>2. DOMAIN [status |-> st] = {"status"} /\ DOMAIN [distribution |-> TRUE] = {"distribution"}
  OBVIOUS
<1>3. Overwritten(row, [status |-> st]) =
        [recipient |-> row.recipient, status |-> st, distribution |-> row.distribution]
  <2>1. Overwritten(row, [status |-> st]) = [k \in {"recipient", "status", "distribution"} |->
                                               IF k = "status" THEN st ELSE row[k]]
    BY <1>1, <1>2 DEF Overwritten
  <2>. QED BY <2>1
<1>4. Overwritten(row, [distribution |-> TRUE]) =
        [recipient |-> row.recipient, status |-> row.status, distribution |-> TRUE]
  <2> DEFINE new == [distribution |-> TRUE]
  <2>1. DOMAIN new = {"distribution"} /\ new["distribution"] = TRUE
    OBVIOUS
  <2> HIDE DEF new
  <2>2. Overwritten(row, new) = [k \in {"recipient", "status", "distribution"} |->
                                  IF k = "distribution" THEN new["distribution"] ELSE row[k]]
    BY <1>1, <2>1 DEF Overwritten
  <2>3. Overwritten(row, new) =
          [recipient |-> row.recipient, status |-> row.status, distribution |-> new["distribution"]]
    BY <2>2
  <2>. QED BY <2>1, <2>3 DEF new
<1>5. row.recipient \in Recipients /\ row.status \in Statuses /\ row.distribution \in BOOLEAN
  BY DEF Application
<1>6. /\ Overwritten(row, [status |-> st]) \in Application
      /\ Overwritten(row, [status |-> st]).status = st
      /\ Overwritten(row, [status |-> st]).recipient = row.recipient
  BY <1>3, <1>5 DEF Application
<1>7. /\ Overwritten(row, [distribution |-> TRUE]) \in Application
      /\ Overwritten(row, [distribution |-> TRUE]).status = row.status
      /\ Overwritten(row, [distribution |-> TRUE]).recipient = row.recipient
  <2>1. ASSUME NEW b \in BOOLEAN
        PROVE  LET new == [recipient |-> row.recipient, status |-> row.status, distribution |-> b]
               IN  new \in Application /\ new.status = row.status /\ new.recipient = row.recipient
    BY <1>5 DEF Application
  <2>. QED BY <1>4, <2>1, Zenon
<1>. QED BY <1>6, <1>7

\* The change of one application.
LEMMA ColumnsChange ==
    ASSUME NEW r, NEW a, NEW p, NEW n, NEW id \in DOMAIN a, a = [i \in DOMAIN a |-> a[i]], NEW new
    PROVE  Applied(Db(r, a, p, n), UpdateApplication(id, new)) =
             Db(r, [i \in DOMAIN a |-> IF i = id THEN Overwritten(a[i], new) ELSE a[i]], p, n)
<1>1. Applied(Db(r, a, p, n), UpdateApplication(id, new)) = WithApplicationColumns(Db(r, a, p, n), id, new)
  BY DEF Applied, ApplicationChange, UpdateApplication
<1>. QED BY <1>1 DEF WithApplicationColumns, Db

\* The elements of a finite set, in some order.
LEMMA SomeOrder ==
    ASSUME NEW S, IsFiniteSet(S)
    PROVE  /\ SetToSeq(S) \in Seq(S)
           /\ Len(SetToSeq(S)) \in Nat
           /\ \A i \in 1..Len(SetToSeq(S)) : SetToSeq(S)[i] \in S
           /\ \A x \in S : \E i \in 1..Len(SetToSeq(S)) : SetToSeq(S)[i] = x
<1> DEFINE n == Cardinality(S)
<1>1. n \in Nat
  BY FS_CardinalityType
<1>2. PICK g : g \in Bijection(1..n, S)
  BY FS_CardinalityType DEF ExistsBijection
<1>3. g \in [1..n -> S] /\ IsInjective(g)
  BY <1>2 DEF Bijection, Injection, IsInjective
<1>4. SetToSeq(S) \in [1..n -> S] /\ IsInjective(SetToSeq(S))
  BY <1>3 DEF SetToSeq
<1> HIDE DEF n
<1> DEFINE s == SetToSeq(S)
<1>5. s \in Injection(1..n, S)
  BY <1>4 DEF Injection, IsInjective
<1>6. Cardinality(1..n) = n
  BY <1>1, FS_Interval
<1>7. s \in Surjection(1..n, S)
  BY <1>5, <1>6, FS_Injection DEF n
<1>8. s \in Seq(S) /\ Len(s) = n
  BY <1>1, <1>4
<1>. QED BY <1>1, <1>4, <1>7, <1>8 DEF Surjection

\* The changes of several applications.
UpdatesOf(X, cols) == {UpdateApplication(id, cols[id]) : id \in X}

\* The changes of several applications, in the order the handler returns them.
LEMMA UpdatesSeq ==
    ASSUME NEW X, IsFiniteSet(X), NEW cols
    PROVE  /\ SetToSeq(UpdatesOf(X, cols)) \in Seq(UpdatesOf(X, cols))
           /\ Len(SetToSeq(UpdatesOf(X, cols))) \in Nat
           /\ \A i \in 1..Len(SetToSeq(UpdatesOf(X, cols))) :
                 \E id \in X : SetToSeq(UpdatesOf(X, cols))[i] = UpdateApplication(id, cols[id])
           /\ \A id \in X : \E i \in 1..Len(SetToSeq(UpdatesOf(X, cols))) :
                 SetToSeq(UpdatesOf(X, cols))[i] = UpdateApplication(id, cols[id])
<1> DEFINE f == [id \in X |-> UpdateApplication(id, cols[id])]
<1>1. f \in Surjection(X, UpdatesOf(X, cols))
  BY DEF Surjection, UpdatesOf
<1>2. IsFiniteSet(UpdatesOf(X, cols))
  BY <1>1, FS_Surjection
<1>. QED BY <1>2, SomeOrder, ZenonT(60) DEF UpdatesOf

\* Applied in any order they give each application its columns.
LEMMA ApplyUpdates ==
    ASSUME NEW r, NEW a, NEW p, NEW n, a = [i \in DOMAIN a |-> a[i]],
           NEW X \in SUBSET DOMAIN a, IsFiniteSet(X), NEW cols
    PROVE  ApplyChanges(Db(r, a, p, n), SetToSeq(UpdatesOf(X, cols))) =
             Db(r, [i \in DOMAIN a |-> IF i \in X THEN Overwritten(a[i], cols[i]) ELSE a[i]], p, n)
<1> DEFINE s == SetToSeq(UpdatesOf(X, cols))
           d == Db(r, a, p, n)
           Done(k) == {id \in DOMAIN a : \E j \in 1..k : s[j].id = id}
           after(k) == [i \in DOMAIN a |-> IF i \in Done(k) THEN Overwritten(a[i], cols[i]) ELSE a[i]]
<1>1. Len(s) \in Nat /\ \A i \in 1..Len(s) : \E id \in X : s[i] = UpdateApplication(id, cols[id])
  BY UpdatesSeq
<1>2. \A id \in X : \E i \in 1..Len(s) : s[i] = UpdateApplication(id, cols[id])
  BY UpdatesSeq
<1> HIDE DEF s, d
<1>3. PICK f : RunOf(d, s, f)
  BY <1>1, ApplyRun
<1> DEFINE Good(k) == f[k] = Db(r, after(k), p, n)
<1> DEFINE Bad == {k \in Nat : k <= Len(s) /\ ~Good(k)}
<1> HIDE DEF Good
<1>4. Bad = {}
  <2> SUFFICES ASSUME Bad # {} PROVE FALSE
    OBVIOUS
  <2>1. PICK k \in Bad : \A j \in Bad : k <= j
    BY LeastElement
  <2>2. CASE k = 0
    <3>1. Done(0) = {}
      OBVIOUS
    <3>2. after(0) = a
      BY <3>1
    <3>. QED BY <1>3, <2>1, <2>2, <3>2 DEF RunOf, d, Good
  <2>3. CASE k # 0
    <3>1. k \in 1..Len(s) /\ k - 1 \in Nat /\ k - 1 \notin Bad /\ k - 1 <= Len(s)
      BY <1>1, <2>1, <2>3
    <3>2. f[k - 1] = Db(r, after(k - 1), p, n)
      BY <3>1 DEF Good
    <3>3. PICK x \in X : s[k] = UpdateApplication(x, cols[x])
      BY <1>1, <3>1
    <3>4. s[k].id = x
      BY <3>3 DEF UpdateApplication
    <3>5. Done(k) = Done(k - 1) \cup {x}
      <4>1. ASSUME NEW j \in 1..k PROVE j = k \/ j \in 1..(k - 1)
        BY <3>1
      <4>2. 1..(k - 1) \subseteq 1..k /\ k \in 1..k
        BY <3>1
      <4>. QED BY <3>4, <4>1, <4>2
    <3> DEFINE b == after(k - 1)
    <3>6. DOMAIN b = DOMAIN a /\ b = [i \in DOMAIN b |-> b[i]] /\ x \in DOMAIN b
      OBVIOUS
    <3>7. b[x] = IF x \in Done(k - 1) THEN Overwritten(a[x], cols[x]) ELSE a[x]
      OBVIOUS
    <3>8. Overwritten(b[x], cols[x]) = Overwritten(a[x], cols[x])
      BY <3>7, OverwriteTwice
    <3>9. \A i \in DOMAIN a : i # x => b[i] = after(k)[i]
      BY <3>5
    <3>10. after(k)[x] = Overwritten(a[x], cols[x])
      BY <3>5
    <3>11. after(k) = [i \in DOMAIN a |-> after(k)[i]]
      OBVIOUS
    <3>12. f[k] = Applied(f[k - 1], s[k])
      BY <1>3, <3>1 DEF RunOf
    <3> HIDE DEF after, b
    <3>13. Applied(Db(r, b, p, n), UpdateApplication(x, cols[x])) =
             Db(r, [i \in DOMAIN b |-> IF i = x THEN Overwritten(b[i], cols[x]) ELSE b[i]], p, n)
      BY <3>6, ColumnsChange
    <3>14. [i \in DOMAIN b |-> IF i = x THEN Overwritten(b[i], cols[x]) ELSE b[i]] = after(k)
      BY <3>6, <3>8, <3>9, <3>10, <3>11
    <3>15. f[k] = Db(r, after(k), p, n)
      BY <3>2, <3>3, <3>12, <3>13, <3>14 DEF b
    <3>. QED BY <2>1, <3>15 DEF Good
  <2>. QED BY <2>2, <2>3
<1>5. Done(Len(s)) = X
  <2>1. ASSUME NEW id \in X PROVE \E j \in 1..Len(s) : s[j].id = id
    <3>1. PICK j \in 1..Len(s) : s[j] = UpdateApplication(id, cols[id])
      BY <1>2
    <3>. QED BY <3>1 DEF UpdateApplication
  <2>2. ASSUME NEW j \in 1..Len(s) PROVE s[j].id \in X
    <3>1. PICK id \in X : s[j] = UpdateApplication(id, cols[id])
      BY <1>1
    <3>. QED BY <3>1 DEF UpdateApplication
  <2>. QED BY <2>1, <2>2
<1>6. after(Len(s)) = [i \in DOMAIN a |-> IF i \in X THEN Overwritten(a[i], cols[i]) ELSE a[i]]
  BY <1>5
<1>7. f[Len(s)] = Db(r, after(Len(s)), p, n)
  <2>1. Good(Len(s))
    BY <1>1, <1>4
  <2>. QED BY <2>1 DEF Good
<1> HIDE DEF after
<1>. QED BY <1>3, <1>6, <1>7 DEF RunOf, s, d
-----------------------------------------------------------------------------
(* What handling an event does to the tables. *)

After(e) == ApplyChanges(db, Changes(e))

\* The tables with another round.
With(round) == Db(round, db.apps, db.payouts, db.donations)

\* The database is the record of its four tables.
LEMMA DbIs ==
    ASSUME DbOK
    PROVE  db = Db(db.round, db.apps, db.payouts, db.donations)
BY DEF DbOK, Db

\* The fields of an event of each type.
LEMMA EventFields ==
    ASSUME NEW e \in Events
    PROVE  /\ e.type = "PoolCreated" => e.amount \in Nat /\ e.meta \in Nat
           /\ e.type = "PoolFunded" => e.amount \in Nat
           /\ e.type = "PoolMetadataUpdated" => e.meta \in Nat
           /\ e.type = "TimestampsUpdated" => e.times \in Times
           /\ e.type = "Registered" => e.recipient \in Recipients /\ e.counter \in Nat \ {0}
           /\ e.type = "UpdatedRegistration" => e.recipient \in Recipients /\ e.status \in Statuses
           /\ e.type = "RecipientStatusUpdated" => e.row \in Seq(Statuses)
           /\ e.type = "DistributionUpdated" => e.final \in Nat /\ e.readable \in BOOLEAN
           /\ e.type \in {"FundsDistributed", "Distributed", "Allocated"} =>
                 e.recipient \in Recipients /\ e.amount \in Nat
           /\ e.type = "DirectAllocated" => e.id \in Nat /\ e.donor \in Donors
BY DEF Events, AlloEvent, StrategyEvent

\* The types of events.
LEMMA EventTypes ==
    ASSUME NEW e \in Events
    PROVE  e.type \in {"PoolCreated", "PoolFunded", "PoolMetadataUpdated", "TimestampsUpdated",
                       "Registered", "UpdatedRegistration", "RecipientStatusUpdated",
                       "DistributionUpdated", "FundsDistributed", "Distributed", "Allocated",
                       "DirectAllocated"}
BY DEF Events, AlloEvent, StrategyEvent

Fresh(e) == [timings |-> Timings, match |-> FetchedMatch(e.meta),
             funded |-> e.amount, distributed |-> 0, final |-> Nil, count |-> 0, donors |-> 0]

\* PoolCreated inserts the round.
LEMMA EffectCreated ==
    ASSUME VarTypes, DbOK, NEW e \in Events, e.type = "PoolCreated"
    PROVE  After(e) = With(Fresh(e))
<1>1. Changes(e) = <<InsertRound(Fresh(e))>>
  BY DEF Changes, PoolCreated, Fresh
<1>2. Applied(db, InsertRound(Fresh(e))) = [db EXCEPT !.round = Fresh(e)]
  BY DEF Applied, RoundChange, WithRound, InsertRound
<1>3. [db EXCEPT !.round = Fresh(e)] = With(Fresh(e))
  BY DbIs DEF With, Db
<1>. QED BY <1>1, <1>2, <1>3, ApplyOne DEF After

\* PoolFunded adds to the funds of the round.
LEMMA EffectFunded ==
    ASSUME VarTypes, DbOK, NEW e \in Events, e.type = "PoolFunded", db.round # Nil
    PROVE  After(e) = With([db.round EXCEPT !.funded = @ + e.amount])
<1>1. Changes(e) = <<FundedBy(e.amount)>>
  BY DEF Changes, PoolFunded
<1>2. Applied(db, FundedBy(e.amount)) = [db EXCEPT !.round.funded = @ + e.amount]
  BY DEF Applied, RoundChange, WithFunds, FundedBy
<1>3. [db EXCEPT !.round.funded = @ + e.amount] = With([db.round EXCEPT !.funded = @ + e.amount])
  BY DbIs DEF With, Db
<1>. QED BY <1>1, <1>2, <1>3, ApplyOne DEF After

\* The change of columns of the round, if it is there.
LEMMA ColumnsOfRound ==
    ASSUME DbOK, NEW new
    PROVE  Applied(db, UpdateRound(new)) =
             IF db.round = Nil THEN db ELSE With(Overwritten(db.round, new))
<1>1. Applied(db, UpdateRound(new)) = WithColumns(db, new)
  BY DEF Applied, RoundChange, UpdateRound
<1>2. [db EXCEPT !.round = Overwritten(@, new)] = With(Overwritten(db.round, new))
  BY DbIs DEF With, Db
<1>. QED BY <1>1, <1>2 DEF WithColumns

\* PoolMetadataUpdated replaces the match amount, if it can be computed.
LEMMA EffectMetadata ==
    ASSUME VarTypes, DbOK, NEW e \in Events, e.type = "PoolMetadataUpdated", db.round # Nil
    PROVE  After(e) = IF e.meta > 0 /\ pool.known THEN With([db.round EXCEPT !.match = e.meta]) ELSE db
<1>1. Changes(e) = PoolMetadataUpdated(e)
  BY DEF Changes
<1>2. db.round \in Round
  BY DEF DbOK
<1>3. CASE e.meta > 0 /\ pool.known
  <2>1. Changes(e) = <<UpdateRound([match |-> e.meta])>>
    BY <1>1, <1>3 DEF PoolMetadataUpdated
  <2>2. Applied(db, UpdateRound([match |-> e.meta])) = With([db.round EXCEPT !.match = e.meta])
    BY <1>2, ColumnsOfRound, OverwriteMatch
  <2>. QED BY <1>3, <2>1, <2>2, ApplyOne DEF After
<1>4. CASE ~(e.meta > 0 /\ pool.known)
  <2>1. Changes(e) = <<>>
    BY <1>1, <1>4 DEF PoolMetadataUpdated
  <2>. QED BY <1>4, <2>1, ApplyNone DEF After
<1>. QED BY <1>3, <1>4

Later(e) ==
    IF pool.kind \in {"DVMD", "ERF"}
    THEN [applications |-> DateOf(e.times), donations |-> DateOf(e.times)]
    ELSE [db.round.timings EXCEPT !.applications = DateOf(e.times)]

\* Later times replace the columns of the strategy.
LEMMA TimesChanges ==
    ASSUME VarTypes, NEW e, e.type = "TimestampsUpdated", Fits(e)
    PROVE  Changes(e) = <<UpdateRound([timings |-> Later(e)])>>
<1>1. pool.kind \in {"DVMD", "ERF", "DGLite", "DGSimple"}
  BY PoolsAssumption DEF VarTypes, PoolType, Fits, Timed, KindsWithHandler
<1>2. Changes(e) = StrategyHandle(e)
  BY DEF Changes
<1>3. StrategyHandle(e) = <<UpdateRound([timings |-> Later(e)])>>
  <2>1. CASE pool.kind = "DVMD"
    BY <2>1 DEF StrategyHandle, DVMDHandle, DVMDTimestampsUpdated, Later
  <2>2. CASE pool.kind = "ERF"
    BY <2>2 DEF StrategyHandle, ERFHandle, ERFTimestampsUpdated, Later
  <2>3. CASE pool.kind = "DGLite"
    BY <2>3 DEF StrategyHandle, DGLiteHandle, DGLiteTimestampsUpdated, Later
  <2>4. CASE pool.kind = "DGSimple"
    BY <2>4 DEF StrategyHandle, DGSimpleHandle, DGSimpleTimestampsUpdated, Later
  <2>. QED BY <1>1, <2>1, <2>2, <2>3, <2>4
<1>. QED BY <1>2, <1>3

\* TimestampsUpdated replaces the times of the round.
LEMMA EffectTimes ==
    ASSUME VarTypes, DbOK, NEW e \in Events, e.type = "TimestampsUpdated", Fits(e), db.round # Nil
    PROVE  After(e) = With([db.round EXCEPT !.timings = Later(e)])
<1>1. db.round \in Round
  BY DEF DbOK
<1>2. Applied(db, UpdateRound([timings |-> Later(e)])) = With([db.round EXCEPT !.timings = Later(e)])
  BY <1>1, ColumnsOfRound, OverwriteTimings
<1>. QED BY <1>2, TimesChanges, ApplyOne DEF After

\* The distribution is a column too.
LEMMA FinalChanges ==
    ASSUME NEW e, e.type = "DistributionUpdated", Fits(e)
    PROVE  Changes(e) = <<UpdateRound([final |-> e.final])>>
<1>1. pool.kind \in {"DVMD", "ERF"}
  BY DEF Fits
<1>2. CASE pool.kind = "DVMD"
  BY <1>2 DEF Changes, StrategyHandle, DVMDHandle, BaseDistributionUpdated
<1>3. CASE pool.kind = "ERF"
  BY <1>3 DEF Changes, StrategyHandle, ERFHandle, ERFDistributionUpdated
<1>. QED BY <1>1, <1>2, <1>3

\* DistributionUpdated makes the round ready for payout, if it is there.
LEMMA EffectFinal ==
    ASSUME VarTypes, DbOK, NEW e \in Events, e.type = "DistributionUpdated", Fits(e)
    PROVE  After(e) = IF db.round = Nil THEN db ELSE With([db.round EXCEPT !.final = e.final])
<1>1. Applied(db, UpdateRound([final |-> e.final])) =
        IF db.round = Nil THEN db ELSE With([db.round EXCEPT !.final = e.final])
  BY ColumnsOfRound, OverwriteFinal DEF DbOK
<1>. QED BY <1>1, FinalChanges, ApplyOne DEF After

\* The application a registration inserts.
NewId(e) == IF pool.kind = "DGSimple" THEN e.recipient ELSE RecipientId(e)
NewRow(e) == [recipient |-> e.recipient, status |-> "PENDING", distribution |-> FALSE]

NewApplicationChange(e) ==
    [type |-> "InsertApplication", id |-> NewId(e), application |-> NewRow(e)]

\* A registration is one change in every strategy.
LEMMA RegisteredChanges ==
    ASSUME VarTypes, NEW e, e.type = "Registered", Fits(e)
    PROVE  Changes(e) = <<NewApplicationChange(e)>>
<1>1. pool.kind \in {"DVMD", "ERF", "DGLite", "DGSimple"}
  BY PoolsAssumption DEF VarTypes, PoolType, Fits, Timed, KindsWithHandler
<1>2. Changes(e) = StrategyHandle(e)
  BY DEF Changes
<1>3. NewApplication(NewId(e), e.recipient) = <<NewApplicationChange(e)>>
  BY DEF NewApplication, NewApplicationChange, NewRow
<1>4. CASE pool.kind = "DVMD"
  BY <1>2, <1>3, <1>4 DEF StrategyHandle, DVMDHandle, DVMDRegistered, NewId
<1>5. CASE pool.kind = "ERF"
  BY <1>2, <1>3, <1>5 DEF StrategyHandle, ERFHandle, ERFRegistered, NewId
<1>6. CASE pool.kind = "DGLite"
  BY <1>2, <1>3, <1>6 DEF StrategyHandle, DGLiteHandle, DGLiteRegistered, NewId
<1>7. CASE pool.kind = "DGSimple"
  BY <1>2, <1>3, <1>7 DEF StrategyHandle, DGSimpleHandle, DGSimpleRegistered, NewId
<1>. QED BY <1>1, <1>4, <1>5, <1>6, <1>7

\* It adds an application.
LEMMA EffectRegistered ==
    ASSUME VarTypes, DbOK, NEW e \in Events, e.type = "Registered", Fits(e)
    PROVE  After(e) = Db(db.round, [i \in Ids \cup {NewId(e)} |-> IF i = NewId(e) THEN NewRow(e) ELSE db.apps[i]],
                         db.payouts, db.donations)
<1>1. Applied(db, NewApplicationChange(e)) = WithApplication(db, NewId(e), NewRow(e))
  BY DEF Applied, ApplicationChange, NewApplicationChange
<1>2. WithApplication(db, NewId(e), NewRow(e)) =
        Db(db.round, [i \in Ids \cup {NewId(e)} |-> IF i = NewId(e) THEN NewRow(e) ELSE db.apps[i]],
           db.payouts, db.donations)
  BY DbIs DEF WithApplication, Db, Ids
<1>. QED BY <1>1, <1>2, RegisteredChanges, ApplyOne DEF After

\* The columns each of several applications is given.
StatusColumns(e) == [id \in ApplicationIds(e.recipient) |-> [status |-> e.status]]

\* An update of a registration is a change of each application of the recipient.
LEMMA UpdatedChanges ==
    ASSUME DbOK, NEW e, e.type = "UpdatedRegistration", Fits(e)
    PROVE  /\ Changes(e) = SetToSeq(UpdatesOf(ApplicationIds(e.recipient), StatusColumns(e)))
           /\ ApplicationIds(e.recipient) \subseteq Ids /\ IsFiniteSet(ApplicationIds(e.recipient))
<1>1. pool.kind \in {"DVMD", "ERF", "DGLite"}
  BY DEF Fits
<1>2. ApplicationIds(e.recipient) \subseteq Ids
  BY DEF ApplicationIds
<1>3. IsFiniteSet(ApplicationIds(e.recipient))
  BY <1>2, FS_Subset DEF DbOK
<1>4. WithStatus(e) = SetToSeq(UpdatesOf(ApplicationIds(e.recipient), StatusColumns(e)))
  <2>1. UpdatesOf(ApplicationIds(e.recipient), StatusColumns(e)) =
          {UpdateApplication(id, [status |-> e.status]) : id \in ApplicationIds(e.recipient)}
    BY DEF UpdatesOf, StatusColumns
  <2>. QED BY <2>1 DEF WithStatus
<1>5. Changes(e) = StrategyHandle(e)
  BY DEF Changes
<1>6. CASE pool.kind = "DVMD"
  BY <1>2, <1>3, <1>4, <1>5, <1>6 DEF StrategyHandle, DVMDHandle, DVMDUpdatedRegistration
<1>7. CASE pool.kind = "ERF"
  BY <1>2, <1>3, <1>4, <1>5, <1>7 DEF StrategyHandle, ERFHandle, ERFUpdatedRegistration
<1>8. CASE pool.kind = "DGLite"
  BY <1>2, <1>3, <1>4, <1>5, <1>8 DEF StrategyHandle, DGLiteHandle, DGLiteUpdatedRegistration
<1>. QED BY <1>1, <1>6, <1>7, <1>8

\* An update of the registration gives the applications of the recipient its status.
LEMMA EffectUpdated ==
    ASSUME VarTypes, DbOK, NEW e \in Events, e.type = "UpdatedRegistration", Fits(e)
    PROVE  After(e) = Db(db.round,
                         [i \in Ids |-> IF i \in ApplicationIds(e.recipient)
                                        THEN Overwritten(db.apps[i], [status |-> e.status])
                                        ELSE db.apps[i]],
                         db.payouts, db.donations)
<1> DEFINE X == ApplicationIds(e.recipient)
           cols == StatusColumns(e)
<1>1. Changes(e) = SetToSeq(UpdatesOf(X, cols)) /\ X \subseteq Ids /\ IsFiniteSet(X)
  BY UpdatedChanges
<1>2. \A i \in X : cols[i] = [status |-> e.status]
  BY DEF StatusColumns
<1> HIDE DEF X, cols
<1>3. ApplyChanges(Db(db.round, db.apps, db.payouts, db.donations), SetToSeq(UpdatesOf(X, cols))) =
        Db(db.round, [i \in Ids |-> IF i \in X THEN Overwritten(db.apps[i], cols[i]) ELSE db.apps[i]],
           db.payouts, db.donations)
  BY <1>1, ApplyUpdates DEF DbOK, Ids
<1>4. [i \in Ids |-> IF i \in X THEN Overwritten(db.apps[i], cols[i]) ELSE db.apps[i]]
        = [i \in Ids |-> IF i \in X THEN Overwritten(db.apps[i], [status |-> e.status]) ELSE db.apps[i]]
  BY <1>2
<1>. QED BY <1>1, <1>3, <1>4, DbIs DEF After, X

\* A review is about the applications with a place in the row.
Reviewed(e) == {id \in Ids : id + 1 \in DOMAIN e.row}
RowColumns(e) == [id \in Reviewed(e) |-> [status |-> e.row[id + 1]]]

\* The handler goes over the row and skips numbers without an application.
LEMMA ReviewedChanges ==
    ASSUME DbOK, NEW e \in Events, e.type = "RecipientStatusUpdated", Fits(e), Ids \subseteq Nat
    PROVE  /\ Changes(e) = SetToSeq(UpdatesOf(Reviewed(e), RowColumns(e)))
           /\ Reviewed(e) \subseteq Ids /\ IsFiniteSet(Reviewed(e))
<1>1. pool.kind \in {"DVMD", "ERF", "DGLite"}
  BY DEF Fits
<1>2. e.row \in Seq(Statuses)
  BY EventFields
<1>3. Reviewed(e) \subseteq Ids
  BY DEF Reviewed
<1>4. IsFiniteSet(Reviewed(e))
  BY <1>3, FS_Subset DEF DbOK
<1>5. BaseRecipientStatusUpdated(e) = SetToSeq(UpdatesOf(Reviewed(e), RowColumns(e)))
  <2> DEFINE X == {id \in Ids : id + 1 \in DOMAIN e.row}
             cols == [id \in X |-> [status |-> e.row[id + 1]]]
  <2> DEFINE Y == {j \in DOMAIN e.row : j - 1 \in Ids}
             U == {UpdateApplication(i - 1, [status |-> e.row[i]]) : i \in Y}
  <2>1. DOMAIN e.row \subseteq Nat /\ 0 \notin DOMAIN e.row
    BY <1>2
  <2>2. ASSUME NEW i \in Y PROVE i - 1 \in X /\ (i - 1) + 1 = i
    BY <2>1
  <2>3. ASSUME NEW id \in X PROVE id + 1 \in Y /\ (id + 1) - 1 = id
    <3>1. id \in Nat /\ (id + 1) - 1 = id
      OBVIOUS
    <3>. QED BY <3>1
  <2>4. \A id \in X : UpdateApplication(id, cols[id]) = UpdateApplication((id + 1) - 1, [status |-> e.row[id + 1]])
    BY <2>3
  <2>5. \A i \in Y : UpdateApplication(i - 1, [status |-> e.row[i]]) = UpdateApplication(i - 1, cols[i - 1])
    BY <2>2
  <2> HIDE DEF X, Y, cols
  <2>6. ASSUME NEW id \in X PROVE UpdateApplication(id, cols[id]) \in U
    <3>1. id + 1 \in Y /\ UpdateApplication(id, cols[id]) = UpdateApplication((id + 1) - 1, [status |-> e.row[id + 1]])
      BY <2>3, <2>4
    <3>. QED BY <3>1
  <2>7. ASSUME NEW i \in Y PROVE UpdateApplication(i - 1, [status |-> e.row[i]]) \in UpdatesOf(X, cols)
    <3>1. i - 1 \in X /\ UpdateApplication(i - 1, [status |-> e.row[i]]) = UpdateApplication(i - 1, cols[i - 1])
      BY <2>2, <2>5
    <3>. QED BY <3>1 DEF UpdatesOf
  <2>8. UpdatesOf(X, cols) = U
    BY <2>6, <2>7 DEF UpdatesOf
  <2>. QED BY <2>8 DEF BaseRecipientStatusUpdated, Reviewed, RowColumns, X, Y, cols
<1>6. Changes(e) = StrategyHandle(e)
  BY DEF Changes
<1>7. CASE pool.kind = "DVMD"
  BY <1>3, <1>4, <1>5, <1>6, <1>7 DEF StrategyHandle, DVMDHandle
<1>8. CASE pool.kind = "ERF"
  BY <1>3, <1>4, <1>5, <1>6, <1>8 DEF StrategyHandle, ERFHandle
<1>9. CASE pool.kind = "DGLite"
  BY <1>3, <1>4, <1>5, <1>6, <1>9 DEF StrategyHandle, DGLiteHandle
<1>. QED BY <1>1, <1>7, <1>8, <1>9

\* It gives each of them its status.
LEMMA EffectReviewed ==
    ASSUME VarTypes, DbOK, NEW e \in Events, e.type = "RecipientStatusUpdated", Fits(e),
           Ids \subseteq Nat
    PROVE  After(e) = Db(db.round,
                         [i \in Ids |-> IF i + 1 \in DOMAIN e.row
                                        THEN Overwritten(db.apps[i], [status |-> e.row[i + 1]])
                                        ELSE db.apps[i]],
                         db.payouts, db.donations)
<1> DEFINE X == Reviewed(e)
           cols == RowColumns(e)
<1>1. Changes(e) = SetToSeq(UpdatesOf(X, cols)) /\ X \subseteq Ids /\ IsFiniteSet(X)
  BY ReviewedChanges
<1>2. \A i \in X : cols[i] = [status |-> e.row[i + 1]]
  BY DEF RowColumns
<1>3. \A i \in Ids : i \in X <=> i + 1 \in DOMAIN e.row
  BY DEF Reviewed
<1> HIDE DEF X, cols
<1>4. ApplyChanges(Db(db.round, db.apps, db.payouts, db.donations), SetToSeq(UpdatesOf(X, cols))) =
        Db(db.round, [i \in Ids |-> IF i \in X THEN Overwritten(db.apps[i], cols[i]) ELSE db.apps[i]],
           db.payouts, db.donations)
  BY <1>1, ApplyUpdates DEF DbOK, Ids
<1>5. [i \in Ids |-> IF i \in X THEN Overwritten(db.apps[i], cols[i]) ELSE db.apps[i]]
        = [i \in Ids |-> IF i + 1 \in DOMAIN e.row
                         THEN Overwritten(db.apps[i], [status |-> e.row[i + 1]]) ELSE db.apps[i]]
  BY <1>2, <1>3
<1>. QED BY <1>1, <1>4, <1>5, DbIs DEF After

\* A payment marks the applications of the recipient and is added up.
MarkColumns(e) == [id \in ApplicationIds(e.recipient) |-> [distribution |-> TRUE]]

\* FundsDistributed changes the applications first, the round last.
LEMMA PaidChanges ==
    ASSUME DbOK, NEW e, e.type = "FundsDistributed", Fits(e)
    PROVE  /\ Changes(e) = SetToSeq(UpdatesOf(ApplicationIds(e.recipient), MarkColumns(e)))
                             \o <<DistributedBy(e.amount)>>
           /\ ApplicationIds(e.recipient) \subseteq Ids /\ IsFiniteSet(ApplicationIds(e.recipient))
<1>1. pool.kind \in {"DVMD", "ERF"}
  BY DEF Fits
<1>2. ApplicationIds(e.recipient) \subseteq Ids
  BY DEF ApplicationIds
<1>3. IsFiniteSet(ApplicationIds(e.recipient))
  BY <1>2, FS_Subset DEF DbOK
<1>4. BaseFundsDistributed(e) = SetToSeq(UpdatesOf(ApplicationIds(e.recipient), MarkColumns(e)))
                                \o <<DistributedBy(e.amount)>>
  <2> DEFINE new == [distribution |-> TRUE]
             cols == [id \in ApplicationIds(e.recipient) |-> new]
  <2> HIDE DEF new
  <2>1. UpdatesOf(ApplicationIds(e.recipient), cols) =
          {UpdateApplication(id, new) : id \in ApplicationIds(e.recipient)}
    BY DEF UpdatesOf
  <2>. QED BY <2>1 DEF BaseFundsDistributed, MarkColumns, new, cols
<1>5. Changes(e) = StrategyHandle(e)
  BY DEF Changes
<1>6. CASE pool.kind = "DVMD"
  BY <1>2, <1>3, <1>4, <1>5, <1>6 DEF StrategyHandle, DVMDHandle
<1>7. CASE pool.kind = "ERF"
  BY <1>2, <1>3, <1>4, <1>5, <1>7 DEF StrategyHandle, ERFHandle
<1>. QED BY <1>1, <1>6, <1>7

\* The applications of the recipient are marked and the amount is added.
LEMMA EffectPaid ==
    ASSUME VarTypes, DbOK, NEW e \in Events, e.type = "FundsDistributed", Fits(e), db.round # Nil
    PROVE  After(e) = Db([db.round EXCEPT !.distributed = @ + e.amount],
                         [i \in Ids |-> IF i \in ApplicationIds(e.recipient)
                                        THEN Overwritten(db.apps[i], [distribution |-> TRUE])
                                        ELSE db.apps[i]],
                         db.payouts, db.donations)
<1> DEFINE X == ApplicationIds(e.recipient)
           new == [distribution |-> TRUE]
           cols == MarkColumns(e)
           s == SetToSeq(UpdatesOf(X, cols))
           apps == [i \in Ids |-> IF i \in X THEN Overwritten(db.apps[i], new) ELSE db.apps[i]]
<1>1. Changes(e) = s \o <<DistributedBy(e.amount)>> /\ X \subseteq Ids /\ IsFiniteSet(X)
  BY PaidChanges
<1>2. \A i \in X : cols[i] = new
  BY Zenon DEF MarkColumns
<1> HIDE DEF X, cols, new
<1>3. ApplyChanges(Db(db.round, db.apps, db.payouts, db.donations), s) =
        Db(db.round, [i \in Ids |-> IF i \in X THEN Overwritten(db.apps[i], cols[i]) ELSE db.apps[i]],
           db.payouts, db.donations)
  BY <1>1, ApplyUpdates DEF DbOK, Ids
<1>4. [i \in Ids |-> IF i \in X THEN Overwritten(db.apps[i], cols[i]) ELSE db.apps[i]] = apps
  BY <1>2
<1>5. s \in Seq(UpdatesOf(X, cols))
  BY <1>1, UpdatesSeq
<1> HIDE DEF s, apps
<1>6. After(e) = Applied(Db(db.round, apps, db.payouts, db.donations), DistributedBy(e.amount))
  <2>1. ApplyChanges(db, s \o <<DistributedBy(e.amount)>>) = Applied(ApplyChanges(db, s), DistributedBy(e.amount))
    BY <1>5, ApplyMore
  <2>. QED BY <1>1, <1>3, <1>4, <2>1, DbIs DEF After, s
<1>7. Applied(Db(db.round, apps, db.payouts, db.donations), DistributedBy(e.amount)) =
        Db([db.round EXCEPT !.distributed = @ + e.amount], apps, db.payouts, db.donations)
  <2>1. Applied(Db(db.round, apps, db.payouts, db.donations), DistributedBy(e.amount)) =
          WithDistributed(Db(db.round, apps, db.payouts, db.donations), e.amount)
    BY DEF Applied, RoundChange, DistributedBy
  <2>. QED BY <2>1 DEF WithDistributed, Db
<1>. QED BY <1>6, <1>7 DEF apps, X, new

\* The other two kinds of payment, and direct allocations.
LEMMA DistributedChanges ==
    ASSUME NEW e, e.type = "Distributed", Fits(e)
    PROVE  Changes(e) = IF db.round = Nil THEN <<>> ELSE <<DistributedBy(e.amount)>>
BY DEF Fits, Changes, StrategyHandle, DGSimpleHandle, BaseDistributed

\* Distributed adds the amount, if the round is there.
LEMMA EffectDistributed ==
    ASSUME VarTypes, DbOK, NEW e \in Events, e.type = "Distributed", Fits(e)
    PROVE  After(e) = IF db.round = Nil THEN db
                      ELSE With([db.round EXCEPT !.distributed = @ + e.amount])
<1>1. Changes(e) = IF db.round = Nil THEN <<>> ELSE <<DistributedBy(e.amount)>>
  BY DistributedChanges
<1>2. CASE db.round = Nil
  BY <1>1, <1>2, ApplyNone DEF After
<1>3. CASE db.round # Nil
  <2>1. Changes(e) = <<DistributedBy(e.amount)>>
    BY <1>1, <1>3
  <2>2. Applied(db, DistributedBy(e.amount)) = WithDistributed(db, e.amount)
    BY DEF Applied, RoundChange, DistributedBy
  <2>3. WithDistributed(db, e.amount) = With([db.round EXCEPT !.distributed = @ + e.amount])
    BY DbIs DEF WithDistributed, With, Db
  <2>. QED BY <1>3, <2>1, <2>2, <2>3, ApplyOne DEF After
<1>. QED BY <1>2, <1>3

\* Allocated is a payout and an amount.
LEMMA AllocatedChanges ==
    ASSUME NEW e, e.type = "Allocated", Fits(e)
    PROVE  Changes(e) = <<[type |-> "InsertApplicationPayout", recipient |-> e.recipient, amount |-> e.amount],
                          DistributedBy(e.amount)>>
<1>1. Changes(e) = DGLiteAllocated(e)
  BY DEF Fits, Changes, StrategyHandle, DGLiteHandle
<1>. QED BY <1>1 DEF DGLiteAllocated

\* The payout is stored and the amount added.
LEMMA EffectAllocated ==
    ASSUME VarTypes, DbOK, NEW e \in Events, e.type = "Allocated", Fits(e), db.round # Nil
    PROVE  After(e) = Db([db.round EXCEPT !.distributed = @ + e.amount], db.apps,
                         Append(db.payouts, [recipient |-> e.recipient, amount |-> e.amount]),
                         db.donations)
<1> DEFINE ch == [type |-> "InsertApplicationPayout", recipient |-> e.recipient, amount |-> e.amount]
           payouts == Append(db.payouts, [recipient |-> e.recipient, amount |-> e.amount])
           mid == Db(db.round, db.apps, payouts, db.donations)
<1>1. Changes(e) = <<ch, DistributedBy(e.amount)>>
  BY AllocatedChanges
<1>2. Applied(db, ch) = mid
  <2>1. Applied(db, ch) = PayoutChange(db, ch)
    BY DEF Applied
  <2>. QED BY <2>1, DbIs DEF PayoutChange, Db
<1>3. Applied(mid, DistributedBy(e.amount)) =
        Db([db.round EXCEPT !.distributed = @ + e.amount], db.apps, payouts, db.donations)
  <2> HIDE DEF payouts
  <2>1. Applied(mid, DistributedBy(e.amount)) = WithDistributed(mid, e.amount)
    BY DEF Applied, RoundChange, DistributedBy
  <2>. QED BY <2>1 DEF WithDistributed, Db
<1> HIDE DEF ch, mid
<1>. QED BY <1>1, <1>2, <1>3, ApplyTwo DEF After

\* DirectAllocated is a donation and the new statistics.
LEMMA DirectChanges ==
    ASSUME NEW e, e.type = "DirectAllocated", Fits(e)
    PROVE  Changes(e) = <<[type |-> "InsertDonation", id |-> e.id, donor |-> e.donor],
                          [type |-> "IncrementRoundDonationStats"]>>
<1>1. Changes(e) = DirectAllocated(e)
  BY DEF Fits, Changes, StrategyHandle, DirectAllocationHandle
<1>. QED BY <1>1 DEF DirectAllocated

\* The donation is stored and the statistics are computed from all of them.
LEMMA EffectDirect ==
    ASSUME VarTypes, DbOK, NEW e \in Events, e.type = "DirectAllocated", Fits(e), db.round # Nil
    PROVE  LET donations == db.donations \cup {[id |-> e.id, donor |-> e.donor]}
           IN  After(e) = Db([db.round EXCEPT !.count = @ + 1,
                                              !.donors = Cardinality({n.donor : n \in donations})],
                             db.apps, db.payouts, donations)
<1> DEFINE ch == [type |-> "InsertDonation", id |-> e.id, donor |-> e.donor]
           stats == [type |-> "IncrementRoundDonationStats"]
           donations == db.donations \cup {[id |-> e.id, donor |-> e.donor]}
           mid == Db(db.round, db.apps, db.payouts, donations)
<1>1. Changes(e) = <<ch, stats>>
  BY DirectChanges
<1>2. Applied(db, ch) = mid
  <2>1. Applied(db, ch) = DonationChange(db, ch)
    BY DEF Applied
  <2>. QED BY <2>1, DbIs DEF DonationChange, Db
<1>3. Applied(mid, stats) =
        Db([db.round EXCEPT !.count = @ + 1, !.donors = Cardinality({n.donor : n \in donations})],
           db.apps, db.payouts, donations)
  <2> HIDE DEF donations
  <2>1. Applied(mid, stats) = WithDonationStats(mid)
    BY DEF Applied, RoundChange
  <2>. QED BY <2>1 DEF WithDonationStats, Db
<1> HIDE DEF ch, mid, stats
<1>. QED BY <1>1, <1>2, <1>3, ApplyTwo DEF After
-----------------------------------------------------------------------------
(* What the steps do to the queue. *)

\* The queue is a sequence of events, those passed over ahead of the others.
LEMMA QFacts ==
    ASSUME VarTypes
    PROVE  /\ Q \in Seq(Events) /\ N \in Nat /\ N = Len(skipped) + Len(feed)
           /\ \A i \in 1..N : Q[i] \in Events
           /\ Len(skipped) \in Nat /\ Len(feed) \in Nat
           /\ \A i \in 1..Len(skipped) : Q[i] = skipped[i] /\ Q[i] \in StrategyEvent
           /\ \A i \in 1..Len(feed) : Q[Len(skipped) + i] = feed[i]
<1>1. skipped \in Seq(Events) /\ feed \in Seq(Events) /\ skipped \in Seq(StrategyEvent)
  <2>1. StrategyEvent \subseteq Events
    BY DEF Events
  <2>. QED BY <2>1 DEF VarTypes
<1>2. Q \in Seq(Events) /\ N \in Nat /\ N = Len(skipped) + Len(feed)
  BY <1>1 DEF Q, N
<1> HIDE DEF N
<1>3. \A i \in 1..N : Q[i] \in Events
  <2>. QED BY <1>2 DEF N
<1>4. \A i \in 1..Len(skipped) : Q[i] = skipped[i] /\ Q[i] \in StrategyEvent
  BY <1>1 DEF Q
<1>5. \A i \in 1..Len(feed) : Q[Len(skipped) + i] = feed[i]
  BY <1>1 DEF Q
<1>. QED BY <1>1, <1>2, <1>3, <1>4, <1>5, LenProperties

\* A call of the contract puts an event behind the others.
Added(e) == N' = N + 1 /\ Q'[N + 1] = e /\ \A i \in 1..N : Q'[i] = Q[i]

\* An event the contract emits is the last of the queue.
LEMMA EmitAdds ==
    ASSUME VarTypes, NEW e, e \in Events, feed' = Append(feed, e), skipped' = skipped
    PROVE  Added(e)
<1>1. N \in Nat /\ Q \in Seq(Events) /\ feed \in Seq(Events) /\ skipped \in Seq(Events)
  <2>1. StrategyEvent \subseteq Events
    BY DEF Events
  <2>. QED BY <2>1, QFacts DEF VarTypes
<1>2. Q' = Append(Q, e)
  BY <1>1 DEF Q
<1>3. N' = N + 1 /\ Q'[N + 1] = e
  BY <1>1, <1>2 DEF N
<1>4. \A i \in 1..N : Q'[i] = Q[i]
  BY <1>1, <1>2 DEF N
<1>. QED BY <1>3, <1>4 DEF Added

\* A handler takes one out.
Up(k, i) == IF i < k THEN i ELSE i + 1
Removed(k) == k \in 1..N /\ N' = N - 1 /\ \A i \in 1..N' : Q'[i] = Q[Up(k, i)]

\* The places of the remaining events keep their order.
LEMMA UpFacts ==
    ASSUME N \in Nat, NEW k, Removed(k)
    PROVE  /\ N' \in Nat
           /\ \A i \in 1..N' : Up(k, i) \in 1..N /\ Up(k, i) # k /\ Q'[i] = Q[Up(k, i)]
           /\ \A i, j \in 1..N' : i < j <=> Up(k, i) < Up(k, j)
           /\ \A i, j \in 1..N' : Up(k, i) = Up(k, j) => i = j
           /\ \A m \in 1..N : m # k => \E i \in 1..N' : Up(k, i) = m
<1>1. k \in 1..N /\ N' = N - 1 /\ N' \in Nat
  BY DEF Removed
<1>2. \A i \in 1..N' : Up(k, i) \in 1..N /\ Up(k, i) # k
  BY <1>1 DEF Up
<1>3. \A i, j \in 1..N' : i < j <=> Up(k, i) < Up(k, j)
  BY <1>1 DEF Up
<1>4. \A i, j \in 1..N' : Up(k, i) = Up(k, j) => i = j
  BY <1>1 DEF Up
<1>5. ASSUME NEW m \in 1..N, m # k PROVE \E i \in 1..N' : Up(k, i) = m
  <2>1. CASE m < k
    <3>1. m \in 1..N' /\ Up(k, m) = m
      BY <1>1, <2>1 DEF Up
    <3>. QED BY <3>1
  <2>2. CASE ~(m < k)
    <3>1. m - 1 \in 1..N' /\ Up(k, m - 1) = m
      BY <1>1, <1>5, <2>2 DEF Up
    <3>. QED BY <3>1
  <2>. QED BY <2>1, <2>2
<1>. QED BY <1>1, <1>2, <1>3, <1>4, <1>5 DEF Removed

\* A strategy's events are not Allo's.
LEMMA StrategyTypes ==
    \A e \in StrategyEvent : e \in Events /\ e.type \notin AlloEvents /\ NeedsHandler(e)
BY DEF StrategyEvent, AlloEvents, Events, NeedsHandler

\* What is taken is the first event, or has only strategy events before it.
First(k) ==
    /\ \A j \in 1..N : j < k => Q[j] \in StrategyEvent
    /\ NeedsHandler(Q[k]) => k = 1

\* An event taken from the feed leaves the queue, ahead of every Allo event before it.
LEMMA TakesRemoves ==
    ASSUME VarTypes, BuildOK, NEW e, Takes(e), skipped' = skipped, NeedsHandler(e) => handled
    PROVE  /\ \E k \in 1..N : Removed(k) /\ Q[k] = e /\ First(k)
           /\ e \in Events
<1> DEFINE k == Len(skipped) + 1
<1>1. /\ N \in Nat /\ Len(skipped) \in Nat /\ Len(feed) \in Nat /\ N = Len(skipped) + Len(feed)
      /\ \A i \in 1..Len(skipped) : Q[i] = skipped[i] /\ Q[i] \in StrategyEvent
      /\ \A i \in 1..Len(feed) : Q[Len(skipped) + i] = feed[i]
  BY QFacts
<1>2. feed \in Seq(Events) /\ skipped \in Seq(Events)
  <2>1. StrategyEvent \subseteq Events
    BY DEF Events
  <2>. QED BY <2>1 DEF VarTypes
<1>3. feed # <<>> /\ e = Head(feed) /\ feed' = Tail(feed)
  BY DEF Takes
<1>4. Len(feed) > 0 /\ e = feed[1] /\ e \in Events
  BY <1>2, <1>3
<1>5. k \in 1..N /\ Q[k] = e
  BY <1>1, <1>4
<1>6. /\ Len(feed') = Len(feed) - 1 /\ \A i \in 1..Len(feed') : feed'[i] = feed[i + 1]
      /\ feed' \in Seq(Events)
  BY <1>2, <1>3, HeadTailProperties
<1>7. /\ Q' = skipped \o feed' /\ N' = Len(Q')
  BY DEF Q, N
<1>8. N' = N - 1
  <2>1. Len(skipped \o feed') = Len(skipped) + Len(feed')
    BY <1>2, <1>6, ConcatProperties
  <2>. QED BY <1>1, <1>6, <1>7, <2>1
<1>9. ASSUME NEW i \in 1..N' PROVE Q'[i] = Q[Up(k, i)]
  <2>1. CASE i < k
    <3>1. i \in 1..Len(skipped)
      BY <1>1, <2>1
    <3>2. Q'[i] = skipped[i]
      BY <1>2, <1>6, <1>7, <3>1
    <3>. QED BY <1>1, <2>1, <3>1, <3>2 DEF Up
  <2>2. CASE ~(i < k)
    <3>1. i - Len(skipped) \in 1..Len(feed') /\ i - Len(skipped) + 1 \in 1..Len(feed)
      BY <1>1, <1>6, <1>8, <2>2
    <3>2. Q'[i] = feed'[i - Len(skipped)]
      BY <1>1, <1>2, <1>6, <1>7, <1>8, <2>2
    <3>3. Q[i + 1] = feed[i - Len(skipped) + 1]
      <4>1. PICK m \in 1..Len(feed) : m = i - Len(skipped) + 1
        BY <3>1
      <4>2. Len(skipped) + m = i + 1
        BY <1>1, <4>1
      <4>. QED BY <1>1, <4>1, <4>2
    <3>. QED BY <1>6, <2>2, <3>1, <3>2, <3>3 DEF Up
  <2>. QED BY <2>1, <2>2
<1>10. NeedsHandler(e) => k = 1
  BY <1>1 DEF BuildOK
<1>11. \A j \in 1..N : j < k => Q[j] \in StrategyEvent
  BY <1>1
<1> HIDE DEF k
<1>12. Removed(k) /\ First(k)
  BY <1>5, <1>8, <1>9, <1>10, <1>11 DEF Removed, First
<1>. QED BY <1>4, <1>5, <1>12

\* The last event of a class, with one more event
LEMMA LastAdded ==
    ASSUME N \in Nat, NEW e, Added(e), NEW C
    PROVE  /\ Without(C)' => e \notin C /\ Without(C)
           /\ \A k \in 1..N' : IsLast(k, C)' =>
                 IF e \in C THEN Q'[k] = e ELSE k \in 1..N /\ IsLast(k, C) /\ Q'[k] = Q[k]
<1>1. N' = N + 1 /\ Q'[N + 1] = e /\ (\A i \in 1..N : Q'[i] = Q[i]) /\ N + 1 \in 1..N' /\ 1..N \subseteq 1..N'
  BY DEF Added
<1>2. Without(C)' => e \notin C /\ Without(C)
  BY <1>1 DEF Without
<1>3. ASSUME NEW k \in 1..N', IsLast(k, C)'
      PROVE  IF e \in C THEN Q'[k] = e ELSE k \in 1..N /\ IsLast(k, C) /\ Q'[k] = Q[k]
  <2>1. Q'[k] \in C /\ \A j \in 1..N' : k < j => Q'[j] \notin C
    BY <1>3 DEF IsLast
  <2>2. k = N + 1 \/ (k \in 1..N /\ k < N + 1)
    BY <1>1
  <2>3. e \in C => Q'[k] = e
    BY <1>1, <2>1, <2>2
  <2>4. e \notin C => k \in 1..N /\ Q'[k] = Q[k]
    BY <1>1, <2>1, <2>2
  <2>5. ASSUME e \notin C PROVE IsLast(k, C)
    BY <1>1, <2>1, <2>4, <2>5 DEF IsLast
  <2>. QED BY <2>3, <2>4, <2>5
<1>. QED BY <1>2, <1>3

\* and with one less.
LEMMA LastRemoved ==
    ASSUME N \in Nat, NEW k, Removed(k), NEW C, Q[k] \in C => \A j \in 1..N : j < k => Q[j] \notin C
    PROVE  /\ \A i \in 1..N' : IsLast(i, C)' => \E m \in 1..N : IsLast(m, C) /\ Q'[i] = Q[m]
           /\ Without(C)' => IF Q[k] \in C THEN IsLast(k, C) ELSE Without(C)
<1>1. k \in 1..N /\ N' \in Nat
  BY UpFacts DEF Removed
<1>2. ASSUME NEW i \in 1..N', IsLast(i, C)'
      PROVE  \E m \in 1..N : IsLast(m, C) /\ Q'[i] = Q[m]
  <2>1. Q'[i] \in C /\ \A j \in 1..N' : i < j => Q'[j] \notin C
    BY <1>2 DEF IsLast
  <2>2. Up(k, i) \in 1..N /\ Q'[i] = Q[Up(k, i)] /\ Up(k, i) # k
    BY UpFacts
  <2>3. ASSUME NEW m \in 1..N, Up(k, i) < m, Q[m] \in C PROVE FALSE
    <3>1. CASE m = k
      BY <2>1, <2>2, <2>3, <3>1
    <3>2. CASE m # k
      <4>1. PICK j \in 1..N' : Up(k, j) = m
        BY <3>2, UpFacts
      <4>2. i < j /\ Q'[j] = Q[m]
        BY <2>3, <4>1, UpFacts
      <4>. QED BY <2>1, <2>3, <4>2
    <3>. QED BY <3>1, <3>2
  <2>4. IsLast(Up(k, i), C)
    BY <2>1, <2>2, <2>3 DEF IsLast
  <2>. QED BY <2>2, <2>4
<1>3. ASSUME Without(C)' PROVE \A m \in 1..N : m # k => Q[m] \notin C
  <2>1. ASSUME NEW m \in 1..N, m # k PROVE Q[m] \notin C
    <3>1. PICK j \in 1..N' : Up(k, j) = m
      BY <2>1, UpFacts
    <3>2. Q'[j] = Q[m] /\ Q'[j] \notin C
      BY <1>3, <3>1, UpFacts DEF Without
    <3>. QED BY <3>2
  <2>. QED BY <2>1
<1>4. Without(C)' => IF Q[k] \in C THEN IsLast(k, C) ELSE Without(C)
  <2> SUFFICES ASSUME Without(C)' PROVE IF Q[k] \in C THEN IsLast(k, C) ELSE Without(C)
    OBVIOUS
  <2>1. \A m \in 1..N : k < m => m # k
    BY <1>1
  <2>. QED BY <1>1, <1>3, <2>1 DEF IsLast, Without
<1>. QED BY <1>2, <1>4
-----------------------------------------------------------------------------
(* What a handled event leaves in the tables, column by column. *)

\* A round with one column replaced.
LEMMA PutTimings ==
    ASSUME NEW r \in Round, NEW x \in Timing
    PROVE  LET new == [r EXCEPT !.timings = x] IN
           /\ new \in Round /\ new.timings = x
           /\ new.match = r.match /\ new.funded = r.funded /\ new.distributed = r.distributed
           /\ new.final = r.final /\ new.count = r.count /\ new.donors = r.donors
BY DEF Round

\* A new match amount leaves the other columns of the round.
LEMMA PutMatch ==
    ASSUME NEW r \in Round, NEW x \in Nat
    PROVE  LET new == [r EXCEPT !.match = x] IN
           /\ new \in Round /\ new.match = x
           /\ new.timings = r.timings /\ new.funded = r.funded /\ new.distributed = r.distributed
           /\ new.final = r.final /\ new.count = r.count /\ new.donors = r.donors
BY DEF Round

\* New funds leave the other columns of the round.
LEMMA PutFunded ==
    ASSUME NEW r \in Round, NEW x \in Nat
    PROVE  LET new == [r EXCEPT !.funded = x] IN
           /\ new \in Round /\ new.funded = x
           /\ new.timings = r.timings /\ new.match = r.match /\ new.distributed = r.distributed
           /\ new.final = r.final /\ new.count = r.count /\ new.donors = r.donors
BY DEF Round

\* A new amount distributed leaves the other columns of the round.
LEMMA PutDistributed ==
    ASSUME NEW r \in Round, NEW x \in Nat
    PROVE  LET new == [r EXCEPT !.distributed = x] IN
           /\ new \in Round /\ new.distributed = x
           /\ new.timings = r.timings /\ new.match = r.match /\ new.funded = r.funded
           /\ new.final = r.final /\ new.count = r.count /\ new.donors = r.donors
BY DEF Round

\* A new distribution leaves the other columns of the round.
LEMMA PutFinal ==
    ASSUME NEW r \in Round, NEW x \in Nat
    PROVE  LET new == [r EXCEPT !.final = x] IN
           /\ new \in Round /\ new.final = x
           /\ new.timings = r.timings /\ new.match = r.match /\ new.funded = r.funded
           /\ new.distributed = r.distributed /\ new.count = r.count /\ new.donors = r.donors
BY DEF Round

\* The columns of the round after an event that is not its creation.
RoundAfter(e, new) ==
    /\ new \in Round
    /\ new.timings = IF e.type = "TimestampsUpdated" THEN Later(e) ELSE db.round.timings
    /\ new.match = IF e.type = "PoolMetadataUpdated" /\ e.meta > 0 /\ pool.known
                   THEN e.meta ELSE db.round.match
    /\ new.funded = IF e.type = "PoolFunded" THEN db.round.funded + e.amount ELSE db.round.funded
    /\ new.distributed = db.round.distributed + ShareOf(e)
    /\ new.final = IF e.type = "DistributionUpdated" THEN e.final ELSE db.round.final
    /\ e.type # "DirectAllocated" => new.count = db.round.count /\ new.donors = db.round.donors

\* The other tables.
Donation(e) == [id |-> e.id, donor |-> e.donor]
AppsOnly == {"Registered", "UpdatedRegistration", "RecipientStatusUpdated", "FundsDistributed"}
TablesAfter(e, d) ==
    /\ d = Db(d.round, d.apps, d.payouts, d.donations)
    /\ e.type \notin AppsOnly => d.apps = db.apps
    /\ d.payouts = IF e.type = "Allocated"
                   THEN Append(db.payouts, [recipient |-> e.recipient, amount |-> e.amount])
                   ELSE db.payouts
    /\ d.donations = IF e.type = "DirectAllocated" THEN db.donations \cup {Donation(e)} ELSE db.donations
    /\ e.type = "DirectAllocated" =>
          /\ d.round.count = db.round.count + 1
          /\ d.round.donors = Cardinality({n.donor : n \in d.donations})

\* Fields of a database.
LEMMA DbFields ==
    ASSUME NEW r, NEW a, NEW p, NEW n
    PROVE  LET d == Db(r, a, p, n) IN
           d.round = r /\ d.apps = a /\ d.payouts = p /\ d.donations = n
BY DEF Db

\* Nothing is changed when the round is not there.
LEMMA HandledWithout ==
    ASSUME VarTypes, DbOK, NEW e \in Events, Fits(e), ~Throws(e), e.type # "PoolCreated", db.round = Nil
    PROVE  After(e) = db /\ e.type \in {"Distributed", "DistributionUpdated"}
<1>1. e.type \in {"Distributed", "DistributionUpdated"}
  BY DEF Throws, RoundMissing
<1>. QED BY <1>1, EffectDistributed, EffectFinal

\* The times after TimestampsUpdated are times of a round.
LEMMA LaterIsTiming ==
    ASSUME VarTypes, DbOK, NEW e \in Events, e.type = "TimestampsUpdated", db.round # Nil
    PROVE  Later(e) \in Timing
<1>1. db.round.timings \in Timing
  BY DEF DbOK, Round
<1>2. DateOf(e.times) \in Dates
  BY EventFields DEF DateOf, Times, Dates
<1>3. [db.round.timings EXCEPT !.applications = DateOf(e.times)] \in Timing
  BY <1>1, <1>2 DEF Timing
<1>4. [applications |-> DateOf(e.times), donations |-> DateOf(e.times)] \in Timing
  BY <1>2 DEF Timing
<1>. QED BY <1>3, <1>4 DEF Later

\* What handling an event does to the round, the payouts and the donations.
LEMMA HandledRound ==
    ASSUME VarTypes, DbOK, NEW e \in Events, Fits(e), ~Throws(e), e.type # "PoolCreated",
           db.round # Nil, pool.kind # "DGSimple" => Ids \subseteq Nat
    PROVE  RoundAfter(e, After(e).round) /\ TablesAfter(e, After(e))
<1>1. db.round \in Round
  BY DEF DbOK
<1>2. db.round.funded \in Nat /\ db.round.distributed \in Nat /\ db.round.count \in Nat
  BY <1>1 DEF Round
<1>3. IsFiniteSet(db.donations)
  BY DEF DbOK

<1>4. CASE e.type = "PoolFunded"
  <2> DEFINE x == db.round.funded + e.amount
           new == [db.round EXCEPT !.funded = x]
  <2>1. x \in Nat
    BY <1>2, <1>4, EventFields
  <2>2. After(e) = With(new)
    BY <1>4, EffectFunded
  <2> HIDE DEF x
  <2>3. /\ new \in Round /\ new.funded = x
        /\ new.timings = db.round.timings /\ new.match = db.round.match /\ new.distributed = db.round.distributed
        /\ new.final = db.round.final /\ new.count = db.round.count /\ new.donors = db.round.donors
    BY <1>1, <2>1, PutFunded
  <2> HIDE DEF new
  <2>4. RoundAfter(e, new)
    BY <1>2, <1>4, <2>3 DEF RoundAfter, ShareOf, x
  <2>. QED BY <1>4, <2>2, <2>4, DbFields DEF TablesAfter, AppsOnly, With
<1>5. CASE e.type = "PoolMetadataUpdated"
  <2>1. CASE e.meta > 0 /\ pool.known
    <3> DEFINE new == [db.round EXCEPT !.match = e.meta]
    <3>1. After(e) = With(new)
      BY <1>5, <2>1, EffectMetadata
    <3>2. RoundAfter(e, new)
      BY <1>1, <1>2, <1>5, <2>1, EventFields, PutMatch DEF RoundAfter, ShareOf
    <3> HIDE DEF new
    <3>. QED BY <1>5, <3>1, <3>2, DbFields DEF TablesAfter, AppsOnly, With
  <2>2. CASE ~(e.meta > 0 /\ pool.known)
    <3>1. After(e) = db
      BY <1>5, <2>2, EffectMetadata
    <3>2. RoundAfter(e, db.round)
      BY <1>1, <1>2, <1>5, <2>2 DEF RoundAfter, ShareOf
    <3>. QED BY <1>5, <3>1, <3>2, DbIs DEF TablesAfter, AppsOnly
  <2>. QED BY <2>1, <2>2
<1>6. CASE e.type = "TimestampsUpdated"
  <2> DEFINE x == Later(e)
           new == [db.round EXCEPT !.timings = x]
  <2>1. x \in Timing
    BY <1>2, <1>6, LaterIsTiming
  <2>2. After(e) = With(new)
    BY <1>6, EffectTimes
  <2> HIDE DEF x
  <2>3. /\ new \in Round /\ new.timings = x
        /\ new.match = db.round.match /\ new.funded = db.round.funded /\ new.distributed = db.round.distributed
        /\ new.final = db.round.final /\ new.count = db.round.count /\ new.donors = db.round.donors
    BY <1>1, <2>1, PutTimings
  <2> HIDE DEF new
  <2>4. RoundAfter(e, new)
    BY <1>2, <1>6, <2>3 DEF RoundAfter, ShareOf, x
  <2>. QED BY <1>6, <2>2, <2>4, DbFields DEF TablesAfter, AppsOnly, With
<1>7. CASE e.type = "DistributionUpdated"
  <2> DEFINE x == e.final
           new == [db.round EXCEPT !.final = x]
  <2>1. x \in Nat
    BY <1>2, <1>7, EventFields
  <2>2. After(e) = With(new)
    BY <1>7, EffectFinal
  <2> HIDE DEF x
  <2>3. /\ new \in Round /\ new.final = x
        /\ new.timings = db.round.timings /\ new.match = db.round.match /\ new.funded = db.round.funded
        /\ new.distributed = db.round.distributed /\ new.count = db.round.count /\ new.donors = db.round.donors
    BY <1>1, <2>1, PutFinal
  <2> HIDE DEF new
  <2>4. RoundAfter(e, new)
    BY <1>2, <1>7, <2>3 DEF RoundAfter, ShareOf, x
  <2>. QED BY <1>7, <2>2, <2>4, DbFields DEF TablesAfter, AppsOnly, With
<1>8. CASE e.type = "Distributed"
  <2> DEFINE x == db.round.distributed + e.amount
           new == [db.round EXCEPT !.distributed = x]
  <2>1. x \in Nat
    BY <1>2, <1>8, EventFields
  <2>2. After(e) = With(new)
    BY <1>8, EffectDistributed
  <2> HIDE DEF x
  <2>3. /\ new \in Round /\ new.distributed = x
        /\ new.timings = db.round.timings /\ new.match = db.round.match /\ new.funded = db.round.funded
        /\ new.final = db.round.final /\ new.count = db.round.count /\ new.donors = db.round.donors
    BY <1>1, <2>1, PutDistributed
  <2> HIDE DEF new
  <2>4. RoundAfter(e, new)
    BY <1>2, <1>8, <2>3 DEF RoundAfter, ShareOf, x
  <2>. QED BY <1>8, <2>2, <2>4, DbFields DEF TablesAfter, AppsOnly, With
<1>9. CASE e.type = "Registered"
  <2>1. PICK a : After(e) = Db(db.round, a, db.payouts, db.donations)
    BY <1>9, EffectRegistered
  <2>2. RoundAfter(e, db.round)
    BY <1>1, <1>2, <1>9 DEF RoundAfter, ShareOf
  <2>. QED BY <1>9, <2>1, <2>2, DbFields DEF TablesAfter, AppsOnly
<1>10. CASE e.type = "UpdatedRegistration"
  <2>1. PICK a : After(e) = Db(db.round, a, db.payouts, db.donations)
    BY <1>10, EffectUpdated
  <2>2. RoundAfter(e, db.round)
    BY <1>1, <1>2, <1>10 DEF RoundAfter, ShareOf
  <2>. QED BY <1>10, <2>1, <2>2, DbFields DEF TablesAfter, AppsOnly
<1>11. CASE e.type = "RecipientStatusUpdated"
  <2>1. Ids \subseteq Nat
    BY <1>11 DEF Fits
  <2>2. PICK a : After(e) = Db(db.round, a, db.payouts, db.donations)
    BY <1>11, <2>1, EffectReviewed
  <2>3. RoundAfter(e, db.round)
    BY <1>1, <1>2, <1>11 DEF RoundAfter, ShareOf
  <2>. QED BY <1>11, <2>2, <2>3, DbFields DEF TablesAfter, AppsOnly
<1>12. CASE e.type = "FundsDistributed"
  <2> DEFINE x == db.round.distributed + e.amount
           new == [db.round EXCEPT !.distributed = x]
  <2>1. x \in Nat
    BY <1>2, <1>12, EventFields
  <2>2. PICK a : After(e) = Db(new, a, db.payouts, db.donations)
    BY <1>12, EffectPaid
  <2> HIDE DEF x
  <2>3. /\ new \in Round /\ new.distributed = x
        /\ new.timings = db.round.timings /\ new.match = db.round.match /\ new.funded = db.round.funded
        /\ new.final = db.round.final /\ new.count = db.round.count /\ new.donors = db.round.donors
    BY <1>1, <2>1, PutDistributed
  <2> HIDE DEF new
  <2>4. RoundAfter(e, new)
    BY <1>2, <1>12, <2>3 DEF RoundAfter, ShareOf, x
  <2>. QED BY <1>12, <2>2, <2>4, DbFields DEF TablesAfter, AppsOnly
<1>13. CASE e.type = "Allocated"
  <2> DEFINE x == db.round.distributed + e.amount
           new == [db.round EXCEPT !.distributed = x]
           p == Append(db.payouts, [recipient |-> e.recipient, amount |-> e.amount])
  <2>1. x \in Nat
    BY <1>2, <1>13, EventFields
  <2>2. After(e) = Db(new, db.apps, p, db.donations)
    BY <1>13, EffectAllocated
  <2> HIDE DEF x
  <2>3. /\ new \in Round /\ new.distributed = x
        /\ new.timings = db.round.timings /\ new.match = db.round.match /\ new.funded = db.round.funded
        /\ new.final = db.round.final /\ new.count = db.round.count /\ new.donors = db.round.donors
    BY <1>1, <2>1, PutDistributed
  <2> HIDE DEF new
  <2>4. RoundAfter(e, new)
    BY <1>2, <1>13, <2>3 DEF RoundAfter, ShareOf, x
  <2> HIDE DEF p
  <2>5. /\ After(e).round = new /\ After(e).apps = db.apps /\ After(e).payouts = p
        /\ After(e).donations = db.donations
    BY <2>2, DbFields
  <2>. QED BY <1>13, <2>2, <2>4, <2>5 DEF TablesAfter, AppsOnly, p
<1>14. CASE e.type = "DirectAllocated"
  <2> DEFINE n == db.donations \cup {Donation(e)}
           c == Cardinality({d.donor : d \in n})
           m == db.round.count + 1
           new == [db.round EXCEPT !.count = m, !.donors = c]
  <2>1. After(e) = Db(new, db.apps, db.payouts, n)
    BY <1>14, EffectDirect DEF Donation
  <2>2. IsFiniteSet({d.donor : d \in n})
    <3> DEFINE f == [d \in n |-> d.donor]
    <3>1. f \in Surjection(n, {d.donor : d \in n})
      BY DEF Surjection
    <3>2. IsFiniteSet(n)
      BY <1>3, FS_AddElement
    <3>. QED BY <3>1, <3>2, FS_Surjection
  <2>3. c \in Nat /\ m \in Nat
    BY <1>2, <2>2, FS_CardinalityType
  <2>. HIDE DEF c, m
  <2>4. /\ new \in Round /\ new.count = m /\ new.donors = c
        /\ new.timings = db.round.timings /\ new.match = db.round.match /\ new.funded = db.round.funded
        /\ new.distributed = db.round.distributed /\ new.final = db.round.final
    BY <1>1, <2>3 DEF Round
  <2> HIDE DEF new, n
  <2>5. RoundAfter(e, new)
    BY <1>2, <1>14, <2>4 DEF RoundAfter, ShareOf
  <2>6. /\ After(e).round = new /\ After(e).apps = db.apps /\ After(e).payouts = db.payouts
        /\ After(e).donations = n
    BY <2>1, DbFields
  <2>. QED BY <1>14, <2>1, <2>4, <2>5, <2>6 DEF TablesAfter, AppsOnly, n, c, m
<1>. QED BY EventTypes, <1>4, <1>5, <1>6, <1>7, <1>8, <1>9, <1>10, <1>11, <1>12, <1>13, <1>14

\* The applications after an event.
IdsAfter(e) == Ids \cup (IF e.type = "Registered" THEN {IdOf(e.counter)} ELSE {})
NewApp(e, id) == e.type = "Registered" /\ id = IdOf(e.counter)
RecipientAfter(e, id) == IF NewApp(e, id) THEN e.recipient ELSE db.apps[id].recipient
StatusAfter(e, id) ==
    IF NewApp(e, id) THEN "PENDING"
    ELSE IF e.type = "UpdatedRegistration" /\ db.apps[id].recipient = e.recipient THEN e.status
    ELSE IF e.type = "RecipientStatusUpdated" /\ id + 1 \in DOMAIN e.row THEN e.row[id + 1]
    ELSE db.apps[id].status
AppsAfter(e, a) ==
    /\ DOMAIN a = IdsAfter(e) /\ a = [id \in DOMAIN a |-> a[id]] /\ IsFiniteSet(DOMAIN a)
    /\ \A id \in DOMAIN a : /\ a[id] \in Application
                            /\ a[id].recipient = RecipientAfter(e, id)
                            /\ a[id].status = StatusAfter(e, id)

\* What handling an event does to the applications.
LEMMA HandledApps ==
    ASSUME VarTypes, DbOK, NEW e \in Events, Fits(e), ~Throws(e), e.type # "PoolCreated",
           db.round # Nil, pool.kind # "DGSimple" => Ids \subseteq Nat
    PROVE  AppsAfter(e, After(e).apps)
<1>1. /\ db.apps = [id \in Ids |-> db.apps[id]] /\ IsFiniteSet(Ids)
      /\ \A id \in Ids : db.apps[id] \in Application
      /\ DOMAIN db.apps = Ids
  BY DEF DbOK, Ids
<1>2. CASE e.type \notin AppsOnly
  <2>1. After(e).apps = db.apps
    BY <1>2, HandledRound DEF TablesAfter
  <2>. QED BY <1>1, <1>2, <2>1 DEF AppsAfter, IdsAfter, RecipientAfter, StatusAfter, NewApp, AppsOnly
<1>3. CASE e.type = "Registered"
  <2> DEFINE x == IdOf(e.counter)
             a == [i \in Ids \cup {x} |-> IF i = x THEN NewRow(e) ELSE db.apps[i]]
  <2>1. NewId(e) = x
    BY <1>3 DEF NewId, IdOf, RecipientId, Fits
  <2>2. After(e).apps = a
    BY <1>3, <2>1, EffectRegistered, DbFields
  <2>3. NewRow(e) \in Application /\ NewRow(e).recipient = e.recipient /\ NewRow(e).status = "PENDING"
    <3>1. e.recipient \in Recipients
      BY <1>3, EventFields
    <3>2. ASSUME NEW b \in BOOLEAN
          PROVE  LET row == [recipient |-> e.recipient, status |-> "PENDING", distribution |-> b]
                 IN  row \in Application /\ row.recipient = e.recipient /\ row.status = "PENDING"
      BY <3>1 DEF Application, Statuses
    <3>. QED BY <3>2, Zenon DEF NewRow
  <2>4. IsFiniteSet(Ids \cup {x})
    BY <1>1, FS_AddElement
  <2>5. a = [i \in DOMAIN a |-> a[i]] /\ DOMAIN a = IdsAfter(e)
    BY <1>3 DEF IdsAfter
  <2>6. ASSUME NEW i \in IdsAfter(e)
        PROVE  a[i] \in Application /\ a[i].recipient = RecipientAfter(e, i) /\ a[i].status = StatusAfter(e, i)
    <3> HIDE DEF x
    <3>1. CASE i = x
      BY <1>3, <2>3, <2>6, <3>1 DEF IdsAfter, RecipientAfter, StatusAfter, NewApp, x
    <3>2. CASE i # x
      <4>1. i \in Ids /\ a[i] = db.apps[i]
        BY <1>3, <2>6, <3>2 DEF IdsAfter, x
      <4>. QED BY <1>1, <1>3, <3>2, <4>1 DEF RecipientAfter, StatusAfter, NewApp, x
    <3>. QED BY <3>1, <3>2
  <2> HIDE DEF a
  <2>. QED BY <1>3, <2>2, <2>4, <2>5, <2>6 DEF AppsAfter, IdsAfter
<1>4. CASE e.type = "UpdatedRegistration"
  <2> DEFINE a == [i \in Ids |-> IF i \in ApplicationIds(e.recipient)
                                 THEN Overwritten(db.apps[i], [status |-> e.status]) ELSE db.apps[i]]
  <2>1. After(e).apps = a
    BY <1>4, EffectUpdated, DbFields
  <2>2. DOMAIN a = Ids /\ a = [i \in DOMAIN a |-> a[i]] /\ IdsAfter(e) = Ids
    BY <1>4 DEF IdsAfter
  <2>3. ASSUME NEW i \in Ids
        PROVE  a[i] \in Application /\ a[i].recipient = RecipientAfter(e, i) /\ a[i].status = StatusAfter(e, i)
    <3>1. e.status \in Statuses
      BY <1>4, EventFields
    <3>2. i \in ApplicationIds(e.recipient) <=> db.apps[i].recipient = e.recipient
      BY DEF ApplicationIds
    <3>3. a[i] = IF i \in ApplicationIds(e.recipient)
                 THEN Overwritten(db.apps[i], [status |-> e.status]) ELSE db.apps[i]
      OBVIOUS
    <3> HIDE DEF a
    <3>. QED BY <1>1, <1>4, <3>1, <3>2, <3>3, OverwriteApplication DEF RecipientAfter, StatusAfter, NewApp
  <2> HIDE DEF a
  <2>. QED BY <1>1, <2>1, <2>2, <2>3 DEF AppsAfter
<1>5. CASE e.type = "RecipientStatusUpdated"
  <2> DEFINE a == [i \in Ids |-> IF i + 1 \in DOMAIN e.row
                                 THEN Overwritten(db.apps[i], [status |-> e.row[i + 1]]) ELSE db.apps[i]]
  <2>1. After(e).apps = a
    <3>1. Ids \subseteq Nat
      BY <1>5 DEF Fits
    <3>. QED BY <1>5, <3>1, EffectReviewed, DbFields
  <2>2. DOMAIN a = Ids /\ a = [i \in DOMAIN a |-> a[i]] /\ IdsAfter(e) = Ids
    BY <1>5 DEF IdsAfter
  <2>3. ASSUME NEW i \in Ids
        PROVE  a[i] \in Application /\ a[i].recipient = RecipientAfter(e, i) /\ a[i].status = StatusAfter(e, i)
    <3>1. i + 1 \in DOMAIN e.row => e.row[i + 1] \in Statuses
      BY <1>5, EventFields
    <3>2. a[i] = IF i + 1 \in DOMAIN e.row
                 THEN Overwritten(db.apps[i], [status |-> e.row[i + 1]]) ELSE db.apps[i]
      OBVIOUS
    <3> HIDE DEF a
    <3>. QED BY <1>1, <1>5, <3>1, <3>2, OverwriteApplication DEF RecipientAfter, StatusAfter, NewApp
  <2> HIDE DEF a
  <2>. QED BY <1>1, <2>1, <2>2, <2>3 DEF AppsAfter
<1>6. CASE e.type = "FundsDistributed"
  <2> DEFINE new == [distribution |-> TRUE]
             a == [i \in Ids |-> IF i \in ApplicationIds(e.recipient)
                                 THEN Overwritten(db.apps[i], new) ELSE db.apps[i]]
  <2>1. After(e).apps = a
    <3>1. PICK r : After(e) = Db(r, a, db.payouts, db.donations)
      BY <1>6, EffectPaid
    <3> HIDE DEF a
    <3>. QED BY <3>1, DbFields
  <2>2. DOMAIN a = Ids /\ a = [i \in DOMAIN a |-> a[i]] /\ IdsAfter(e) = Ids
    BY <1>6 DEF IdsAfter
  <2>3. ASSUME NEW i \in Ids
        PROVE  a[i] \in Application /\ a[i].recipient = RecipientAfter(e, i) /\ a[i].status = StatusAfter(e, i)
    <3>1. /\ Overwritten(db.apps[i], new) \in Application
          /\ Overwritten(db.apps[i], new).status = db.apps[i].status
          /\ Overwritten(db.apps[i], new).recipient = db.apps[i].recipient
      <4>1. "PENDING" \in Statuses
        BY DEF Statuses
      <4>. QED BY <1>1, <4>1, OverwriteApplication, Zenon
    <3> HIDE DEF new
    <3>2. a[i] = IF i \in ApplicationIds(e.recipient)
                 THEN Overwritten(db.apps[i], new) ELSE db.apps[i]
      OBVIOUS
    <3> HIDE DEF a
    <3>. QED BY <1>1, <1>6, <3>1, <3>2 DEF RecipientAfter, StatusAfter, NewApp
  <2> HIDE DEF a
  <2>. QED BY <1>1, <2>1, <2>2, <2>3 DEF AppsAfter
<1>. QED BY <1>2, <1>3, <1>4, <1>5, <1>6 DEF AppsOnly
-----------------------------------------------------------------------------
(* The steps. *)

\* An event is taken out of the queue.
Taken(e, k) ==
    /\ k \in 1..N /\ Removed(k) /\ Q[k] = e /\ First(k) /\ e \in Events
    /\ NeedsHandler(e) => handled
    /\ feed # <<>> /\ feed' = Tail(feed) /\ failed' = failed /\ lost' \in {lost, lost + 1}
    /\ pool' = pool /\ emitted' = emitted /\ handled' = handled /\ skipped' = skipped

\* The handler of the creation puts the round in the table,
Started(e) ==
    /\ e.type = "PoolCreated"
    /\ db.round = Nil
    /\ db' = With(Fresh(e))
    /\ early' = handled
    /\ damaged' = damaged /\ cache' = CacheAfter(e) /\ half' = Nil

\* that of another event changes it or the other tables,
Changed(e) ==
    /\ e.type # "PoolCreated" /\ ~Throws(e)
    /\ db.round # Nil
    /\ RoundAfter(e, db'.round) /\ TablesAfter(e, db') /\ AppsAfter(e, db'.apps)
    /\ early' = early /\ damaged' = damaged /\ cache' = cache /\ half' = Nil

\* or nothing is done: then what the event is about is damaged, or it was of no
\* use.
Harmless(e) ==
    \/ e.type \in {"TimestampsUpdated", "PoolFunded"} /\ db.round = Nil
    \/ e.type \in {"PoolFunded", "Allocated", "DirectAllocated"} /\ ~pool.known
    \/ e.type = "DistributionUpdated" /\ ~e.readable
Dropped(e) ==
    /\ db' = db /\ early' = early /\ cache' = cache /\ half' \in {half, Nil}
    /\ damaged \subseteq damaged' /\ damaged' \subseteq AllColumns
    /\ "apps" \in damaged' => "distributed" \in damaged'
    /\ Column(e) \subseteq damaged' \/ Harmless(e)
    /\ e.type = "PoolCreated" => damaged' = AllColumns

\* The columns an event is about, all of them for the creation of the round.
LEMMA ColumnTypes ==
    ASSUME NEW e \in Events
    PROVE  /\ Column(e) \subseteq AllColumns
           /\ "apps" \in Column(e) => "distributed" \in Column(e)
           /\ e.type = "PoolCreated" => Column(e) = AllColumns
BY EventTypes DEF Column, AllColumns

\* With the creation still ahead only times and funds are refused for a round
\* that is missing.
LEMMA RefusedBefore ==
    ASSUME VarTypes, PoolOK, CreationOK, NEW k \in 1..N, First(k), db.round = Nil,
           Q[k] \notin Creations
    PROVE  Q[k].type \in {"TimestampsUpdated", "PoolFunded"} \/ AllColumns \subseteq damaged
<1>1. N \in Nat /\ \A i \in 1..N : Q[i] \in Events
  BY QFacts
<1>2. pool.created
  <2> SUFFICES ASSUME ~pool.created PROVE FALSE
    BY DEF VarTypes, PoolType
  <2>1. Q = <<>>
    BY DEF PoolOK
  <2>2. N = 0
    BY <2>1 DEF N
  <2>. QED BY <2>2
<1>3. CASE Without(Creations)
  BY <1>2, <1>3 DEF CreationOK
<1>4. CASE ~Without(Creations)
  <2>1. PICK c \in 1..N : Q[c] \in Creations
    BY <1>4 DEF Without
  <2>2. ~(c < k)
    <3>1. Q[c].type = "PoolCreated"
      BY <2>1 DEF Creations
    <3>2. Q[c] \notin StrategyEvent
      BY <3>1, StrategyTypes DEF AlloEvents
    <3>. QED BY <3>2 DEF First
  <2>3. k < c
    BY <1>1, <2>1, <2>2
  <2>. QED BY <2>1, <2>3 DEF CreationOK
<1>. QED BY <1>3, <1>4

\* The application of an event about one is there, unless it was lost.
LEMMA RefusedMissing ==
    ASSUME VarTypes, DbOK, PoolOK, EventsFit, AppsOK, Arrives, NEW k \in 1..N, First(k),
           ApplicationMissing(Q[k])
    PROVE  "apps" \in damaged /\ "distributed" \in damaged
<1> DEFINE e == Q[k]
<1>1. N \in Nat /\ e \in Events /\ Fits(e)
  BY QFacts DEF EventsFit
<1>2. /\ e.type \in {"UpdatedRegistration", "FundsDistributed", "Allocated"}
      /\ ApplicationIds(e.recipient) = {}
  BY DEF ApplicationMissing
<1>3. PICK i \in DOMAIN pool.index : pool.index[i] = e.recipient
  BY <1>1, <1>2 DEF Fits
<1>4. k = 1
  BY <1>2 DEF First, NeedsHandler, AlloEvents
<1>5. e \in Changers(i, pool.index[i]) \cup Payments(pool.index[i])
  BY <1>1, <1>2, <1>3 DEF Changers, Payments
<1>6. ASSUME NEW j \in 1..N, Q[j] \in Registrations(i) PROVE FALSE
  <2>1. j < k
    BY <1>5, <1>6 DEF Arrives
  <2>. QED BY <1>1, <1>4, <2>1
<1>7. IdOf(i) \notin Ids
  <2> SUFFICES ASSUME IdOf(i) \in Ids PROVE FALSE
    OBVIOUS
  <2>1. PICK m \in DOMAIN pool.index : IdOf(i) = IdOf(m) /\ db.apps[IdOf(i)].recipient = pool.index[m]
    BY DEF AppsOK
  <2>2. i \in Nat /\ m \in Nat
    BY DEF VarTypes, PoolType
  <2>3. pool.index[m] = pool.index[i]
    BY <2>1, <2>2 DEF IdOf
  <2>4. IdOf(i) \in ApplicationIds(e.recipient)
    BY <1>3, <2>1, <2>3 DEF ApplicationIds
  <2>. QED BY <1>2, <2>4
<1>8. Without(Registrations(i))
  BY <1>6 DEF Without
<1>. QED BY <1>7, <1>8 DEF Arrives, AppsOK

\* What happens to the first event.
LEMMA TakeStep ==
    ASSUME IInv, NEW e, Handle(e) \/ Refuse(e) \/ GiveUp(e)
    PROVE  \E k : Taken(e, k) /\ (Started(e) \/ Changed(e) \/ Dropped(e))
<1>1. /\ VarTypes /\ DbOK /\ PoolOK /\ BuildOK /\ EventsFit /\ CreationOK /\ AppsOK /\ Arrives
  BY DEF IInv
<1>2. /\ Takes(e) /\ (NeedsHandler(e) => handled)
      /\ pool' = pool /\ emitted' = emitted /\ handled' = handled /\ skipped' = skipped
      /\ feed # <<>> /\ feed' = Tail(feed) /\ failed' = failed /\ lost' \in {lost, lost + 1}
  BY DEF Handle, Refuse, GiveUp, workVars, Takes
<1>3. e \in Events
  BY <1>1, <1>2, TakesRemoves
<1>4. PICK k \in 1..N : Removed(k) /\ Q[k] = e /\ First(k)
  BY <1>1, <1>2, TakesRemoves
<1>5. Taken(e, k)
  BY <1>2, <1>3, <1>4 DEF Taken
<1>6. damaged \subseteq AllColumns /\ ("apps" \in damaged => "distributed" \in damaged)
  BY <1>1 DEF VarTypes, AppsOK
<1>7. CASE Handle(e)
  <2>1. /\ ~Throws(e) /\ db' = After(e) /\ early' = (early \/ (e.type = "PoolCreated" /\ handled))
        /\ damaged' = damaged /\ cache' = CacheAfter(e) /\ half' = Nil
    BY <1>7 DEF Handle, After
  <2>2. Fits(e)
    BY <1>1, <1>4 DEF EventsFit
  <2>3. CASE e.type = "PoolCreated"
    <3>1. db.round = Nil
      <4>1. e \in Creations
        BY <1>3, <2>3 DEF Creations
      <4>. QED BY <1>1, <1>4, <4>1 DEF CreationOK, Without
    <3>2. ~early
      BY <1>1, <3>1 DEF BuildOK
    <3>3. early' = handled
      BY <1>1, <2>1, <2>3, <3>2, Zenon DEF VarTypes
    <3>4. db' = With(Fresh(e))
      BY <1>1, <1>3, <2>1, <2>3, EffectCreated
    <3>. QED BY <1>5, <2>1, <2>3, <3>1, <3>3, <3>4 DEF Started
  <2>4. CASE e.type # "PoolCreated" /\ db.round = Nil
    <3>1. db' = db /\ e.type \in {"Distributed", "DistributionUpdated"}
      BY <1>1, <1>3, <2>1, <2>2, <2>4, HandledWithout
    <3>2. e \notin Creations
      BY <2>4 DEF Creations
    <3>3. AllColumns \subseteq damaged
      BY <1>1, <1>4, <2>4, <3>1, <3>2, RefusedBefore
    <3>4. Column(e) \subseteq AllColumns
      BY <1>3, ColumnTypes
    <3>5. early' = early /\ cache' = cache
      <4>1. early \in BOOLEAN
        BY <1>1 DEF VarTypes
      <4>. QED BY <2>1, <2>4, <4>1 DEF CacheAfter
    <3>6. Dropped(e)
      BY <1>6, <2>1, <2>4, <3>1, <3>3, <3>4, <3>5 DEF Dropped
    <3>. QED BY <1>5, <3>6
  <2>5. CASE e.type # "PoolCreated" /\ db.round # Nil
    <3>1. pool.kind # "DGSimple" => Ids \subseteq Nat
      BY <1>1 DEF AppsOK, IdOf, VarTypes, PoolType
    <3>2. RoundAfter(e, db'.round) /\ TablesAfter(e, db')
      BY <1>1, <1>3, <2>1, <2>2, <2>5, <3>1, HandledRound
    <3>3. AppsAfter(e, db'.apps)
      BY <1>1, <1>3, <2>1, <2>2, <2>5, <3>1, HandledApps
    <3>4. early' = early /\ cache' = cache
      <4>1. early \in BOOLEAN
        BY <1>1 DEF VarTypes
      <4>. QED BY <2>1, <2>5, <4>1 DEF CacheAfter
    <3>. QED BY <1>5, <2>1, <2>5, <3>2, <3>3, <3>4 DEF Changed
  <2>. QED BY <2>3, <2>4, <2>5
<1>8. CASE GiveUp(e)
  <2>1. Column(e) \subseteq AllColumns /\ ("apps" \in Column(e) => "distributed" \in Column(e))
    BY <1>3, ColumnTypes
  <2>2. e.type = "PoolCreated" => Column(e) = AllColumns
    BY <1>3, ColumnTypes
  <2>3. /\ db' = db /\ early' = early /\ cache' = cache /\ half' = Nil /\ damaged' = damaged \cup Column(e)
    BY <1>8 DEF GiveUp
  <2>4. Dropped(e)
    BY <1>6, <2>1, <2>2, <2>3 DEF Dropped, AllColumns
  <2>. QED BY <1>5, <2>4
<1>9. CASE Refuse(e)
  <2>1. db' = db /\ early' = early /\ cache' = cache /\ half' = half /\ damaged' = damaged /\ Throws(e)
    BY <1>9 DEF Refuse, workVars
  <2>2. e.type # "PoolCreated"
    BY <2>1 DEF Throws, RoundMissing, ApplicationMissing, TokenUnknown, Unreadable
  <2>3. Column(e) \subseteq AllColumns
    BY <1>3, ColumnTypes
  <2>4. Column(e) \subseteq damaged \/ Harmless(e)
    <3>1. CASE db.round = Nil
      <4>1. e \notin Creations
        BY <2>2 DEF Creations
      <4>2. e.type \in {"TimestampsUpdated", "PoolFunded"} \/ AllColumns \subseteq damaged
        BY <1>1, <1>4, <3>1, <4>1, RefusedBefore
      <4>. QED BY <2>3, <3>1, <4>2 DEF Harmless
    <3>2. CASE ApplicationMissing(e)
      <4>1. "apps" \in damaged /\ "distributed" \in damaged
        BY <1>1, <1>4, <3>2, RefusedMissing
      <4>2. e.type \in {"UpdatedRegistration", "FundsDistributed", "Allocated"}
        BY <3>2 DEF ApplicationMissing
      <4>. QED BY <4>1, <4>2 DEF Column
    <3>3. CASE TokenUnknown(e)
      BY <3>3 DEF TokenUnknown, Harmless
    <3>4. CASE Unreadable(e)
      BY <3>4 DEF Unreadable, Harmless
    <3>. QED BY <2>1, <3>1, <3>2, <3>3, <3>4 DEF Throws, RoundMissing
  <2>5. Dropped(e)
    BY <1>6, <2>1, <2>2, <2>4 DEF Dropped
  <2>. QED BY <1>5, <2>5
<1>. QED BY <1>7, <1>8, <1>9

\* The contract announces what it changes.
Announced(e) ==
    /\ Added(e) /\ e \in Events /\ e.type # "PoolCreated"
    /\ pool.created /\ pool'.created /\ pool' \in PoolType
    /\ pool'.kind = pool.kind /\ pool'.known = pool.known
    /\ pool'.times = IF e.type = "TimestampsUpdated" THEN e.times ELSE pool.times
    /\ pool'.funds = IF e.type = "PoolFunded" THEN pool.funds + e.amount ELSE pool.funds
    /\ pool'.meta = IF e.type = "PoolMetadataUpdated" /\ e.meta > 0 THEN e.meta ELSE pool.meta
    /\ pool'.final = IF e.type = "DistributionUpdated" /\ e.readable THEN e.final ELSE pool.final
    /\ pool'.shares = pool.shares + ShareOf(e)
    /\ pool'.index = IF e.type = "Registered" THEN Append(pool.index, e.recipient) ELSE pool.index
    /\ e.type = "Registered" =>
          e.counter = Len(pool.index) + 1 /\ \A i \in DOMAIN pool.index : pool.index[i] # e.recipient
    /\ Len(pool'.status) = Len(pool'.index)
    /\ \A i \in DOMAIN pool'.index :
          pool'.status[i] = IF e.type = "Registered" /\ i = e.counter THEN "PENDING"
                            ELSE IF e \in Changers(i, pool.index[i]) THEN Given(e, i)
                            ELSE pool.status[i]
    /\ emitted' = emitted + 1 /\ emitted \in Nat
    /\ handled' = handled /\ skipped' = skipped /\ half' = half /\ cache' = cache /\ db' = db
    /\ early' = early /\ damaged' = damaged /\ feed' = Append(feed, e) /\ failed' = failed /\ lost' = lost
    /\ Fits(e)' /\ (e.type = "DirectAllocated" => e.id = emitted)

\* Fields of the contract.
LEMMA PoolFields ==
    ASSUME pool \in PoolType
    PROVE  /\ pool.kind \in Kinds /\ pool.known \in BOOLEAN /\ pool.created \in BOOLEAN
           /\ pool.times \in Times \cup {Nil} /\ pool.funds \in Nat /\ pool.meta \in Nat
           /\ pool.final \in Nat \cup {Nil} /\ pool.index \in Seq(Recipients)
           /\ pool.status \in Seq(Statuses) /\ pool.paid \in SUBSET Nat /\ pool.shares \in Nat
           /\ DOMAIN pool.index = 1..Len(pool.index) /\ DOMAIN pool.status = 1..Len(pool.status)
           /\ Len(pool.index) \in Nat
BY DEF PoolType

\* What is common to the announcements.
LEMMA EmitFacts ==
    ASSUME IInv, NEW e \in Events, NEW new, Emit(new, e)
    PROVE  /\ Added(e) /\ pool.created /\ pool' = new /\ emitted' = emitted + 1 /\ emitted \in Nat
           /\ handled' = handled /\ skipped' = skipped /\ half' = half /\ cache' = cache /\ db' = db
           /\ early' = early /\ damaged' = damaged /\ feed' = Append(feed, e) /\ failed' = failed /\ lost' = lost
           /\ pool \in PoolType /\ Len(pool.status) = Len(pool.index)
<1>1. /\ pool.created /\ pool' = new /\ emitted' = emitted + 1 /\ feed' = Append(feed, e)
      /\ handled' = handled /\ skipped' = skipped /\ half' = half /\ cache' = cache /\ db' = db
      /\ early' = early /\ damaged' = damaged /\ feed' = Append(feed, e) /\ failed' = failed /\ lost' = lost
  BY DEF Emit, workVars
<1>2. VarTypes /\ PoolOK
  BY DEF IInv
<1>3. Added(e)
  BY <1>1, <1>2, EmitAdds
<1>. QED BY <1>1, <1>2, <1>3 DEF VarTypes, PoolOK

\* New times are announced.
LEMMA AnnouncedTimes ==
    ASSUME IInv, SetsTimes
    PROVE  \E e : Announced(e)
<1>1. PICK t \in {emitted + 2, Unbounded} :
        Timed /\ Emit([pool EXCEPT !.times = t], [type |-> "TimestampsUpdated", times |-> t])
  BY DEF SetsTimes
<1>2. PICK e : e = [type |-> "TimestampsUpdated", times |-> t]
  OBVIOUS
<1> DEFINE new == [pool EXCEPT !.times = t]
<1>3. t \in Times
  BY DEF IInv, VarTypes, Times
<1>4. e \in Events /\ e.type = "TimestampsUpdated" /\ e.times = t
  BY <1>2, <1>3 DEF Events, AlloEvent, StrategyEvent
<1>5. Emit(new, e)
  BY <1>2, <1>1
<1>6. /\ Added(e) /\ pool.created /\ pool' = new /\ emitted' = emitted + 1 /\ emitted \in Nat
      /\ handled' = handled /\ skipped' = skipped /\ half' = half /\ cache' = cache /\ db' = db
      /\ early' = early /\ damaged' = damaged /\ feed' = Append(feed, e) /\ failed' = failed /\ lost' = lost
      /\ pool \in PoolType /\ Len(pool.status) = Len(pool.index)
  BY <1>4, <1>5, EmitFacts
<1>7. /\ new \in PoolType /\ new.times = t
      /\ new.kind = pool.kind /\ new.known = pool.known /\ new.created = pool.created
      /\ new.funds = pool.funds /\ new.meta = pool.meta /\ new.final = pool.final
      /\ new.index = pool.index /\ new.status = pool.status /\ new.shares = pool.shares
  BY <1>3, <1>6 DEF PoolType
<1> HIDE DEF new
<1>8. Fits(e)'
  BY <1>1, <1>4, <1>6, <1>7 DEF Fits, Timed
<1>9. ShareOf(e) = 0 /\ \A i, r : e \notin Changers(i, r)
  BY <1>4 DEF ShareOf, Changers
<1>10. pool.shares \in Nat
  BY <1>6, PoolFields
<1>11. Announced(e)
  BY <1>3, <1>4, <1>6, <1>7, <1>8, <1>9, <1>10 DEF Announced
<1>. QED BY <1>11

\* New funds are announced.
LEMMA AnnouncedFunds ==
    ASSUME IInv, Funds
    PROVE  \E e : Announced(e)
<1>1. Emit([pool EXCEPT !.funds = @ + 1], [type |-> "PoolFunded", amount |-> 1])
  BY DEF Funds
<1>2. PICK e : e = [type |-> "PoolFunded", amount |-> 1]
  OBVIOUS
<1> DEFINE new == [pool EXCEPT !.funds = @ + 1]
<1>3. pool.funds + 1 \in Nat
  BY DEF IInv, VarTypes, PoolType
<1>4. e \in Events /\ e.type = "PoolFunded" /\ e.amount = 1
  BY <1>2, <1>3 DEF Events, AlloEvent, StrategyEvent
<1>5. Emit(new, e)
  BY <1>2, <1>1
<1>6. /\ Added(e) /\ pool.created /\ pool' = new /\ emitted' = emitted + 1 /\ emitted \in Nat
      /\ handled' = handled /\ skipped' = skipped /\ half' = half /\ cache' = cache /\ db' = db
      /\ early' = early /\ damaged' = damaged /\ feed' = Append(feed, e) /\ failed' = failed /\ lost' = lost
      /\ pool \in PoolType /\ Len(pool.status) = Len(pool.index)
  BY <1>4, <1>5, EmitFacts
<1>7. /\ new \in PoolType /\ new.funds = pool.funds + 1
      /\ new.kind = pool.kind /\ new.known = pool.known /\ new.created = pool.created
      /\ new.times = pool.times /\ new.meta = pool.meta /\ new.final = pool.final
      /\ new.index = pool.index /\ new.status = pool.status /\ new.shares = pool.shares
  BY <1>3, <1>6 DEF PoolType
<1> HIDE DEF new
<1>8. Fits(e)'
  BY <1>1, <1>4, <1>6, <1>7 DEF Fits, Timed
<1>9. ShareOf(e) = 0 /\ \A i, r : e \notin Changers(i, r)
  BY <1>4 DEF ShareOf, Changers
<1>10. pool.shares \in Nat
  BY <1>6, PoolFields
<1>11. Announced(e)
  BY <1>3, <1>4, <1>6, <1>7, <1>8, <1>9, <1>10 DEF Announced
<1>. QED BY <1>11

\* New metadata are announced.
LEMMA AnnouncedMetadata ==
    ASSUME IInv, SetsMetadata
    PROVE  \E e : Announced(e)
<1>1. PICK m \in 0..2 : Emit([pool EXCEPT !.meta = IF m = 0 THEN @ ELSE m],
                             [type |-> "PoolMetadataUpdated", meta |-> m])
  BY DEF SetsMetadata
<1>2. PICK e : e = [type |-> "PoolMetadataUpdated", meta |-> m]
  OBVIOUS
<1> DEFINE new == [pool EXCEPT !.meta = IF m = 0 THEN @ ELSE m]
<1>3. m \in Nat /\ (m > 0 <=> m # 0)
  OBVIOUS
<1>4. e \in Events /\ e.type = "PoolMetadataUpdated" /\ e.meta = m
  BY <1>2, <1>3 DEF Events, AlloEvent, StrategyEvent
<1>5. Emit(new, e)
  BY <1>2, <1>1
<1>6. /\ Added(e) /\ pool.created /\ pool' = new /\ emitted' = emitted + 1 /\ emitted \in Nat
      /\ handled' = handled /\ skipped' = skipped /\ half' = half /\ cache' = cache /\ db' = db
      /\ early' = early /\ damaged' = damaged /\ feed' = Append(feed, e) /\ failed' = failed /\ lost' = lost
      /\ pool \in PoolType /\ Len(pool.status) = Len(pool.index)
  BY <1>4, <1>5, EmitFacts
<1>7. /\ new \in PoolType /\ new.meta = IF m = 0 THEN pool.meta ELSE m
      /\ new.kind = pool.kind /\ new.known = pool.known /\ new.created = pool.created
      /\ new.times = pool.times /\ new.funds = pool.funds /\ new.final = pool.final
      /\ new.index = pool.index /\ new.status = pool.status /\ new.shares = pool.shares
  BY <1>3, <1>6 DEF PoolType
<1> HIDE DEF new
<1>8. Fits(e)'
  BY <1>1, <1>4, <1>6, <1>7 DEF Fits, Timed
<1>9. ShareOf(e) = 0 /\ \A i, r : e \notin Changers(i, r)
  BY <1>4 DEF ShareOf, Changers
<1>10. pool.shares \in Nat
  BY <1>6, PoolFields
<1>11. Announced(e)
  BY <1>3, <1>4, <1>6, <1>7, <1>8, <1>9, <1>10 DEF Announced
<1>. QED BY <1>11

\* A direct allocation is announced.
LEMMA AnnouncedAllocation ==
    ASSUME IInv, Allocates
    PROVE  \E e : Announced(e)
<1>1. PICK d \in Donors :
        pool.kind = "DirectAllocation" /\ Emit(pool, [type |-> "DirectAllocated", id |-> emitted, donor |-> d])
  BY DEF Allocates
<1>2. PICK e : e = [type |-> "DirectAllocated", id |-> emitted, donor |-> d]
  OBVIOUS
<1> DEFINE new == pool
<1>3. emitted \in Nat
  BY DEF IInv, VarTypes
<1>4. e \in Events /\ e.type = "DirectAllocated" /\ e.id = emitted /\ e.donor = d
  BY <1>2, <1>3 DEF Events, AlloEvent, StrategyEvent
<1>5. Emit(new, e)
  BY <1>2, <1>1
<1>6. /\ Added(e) /\ pool.created /\ pool' = new /\ emitted' = emitted + 1 /\ emitted \in Nat
      /\ handled' = handled /\ skipped' = skipped /\ half' = half /\ cache' = cache /\ db' = db
      /\ early' = early /\ damaged' = damaged /\ feed' = Append(feed, e) /\ failed' = failed /\ lost' = lost
      /\ pool \in PoolType /\ Len(pool.status) = Len(pool.index)
  BY <1>4, <1>5, EmitFacts
<1>7. /\ new \in PoolType
      /\ new.kind = pool.kind /\ new.known = pool.known /\ new.created = pool.created
      /\ new.times = pool.times /\ new.funds = pool.funds /\ new.meta = pool.meta
      /\ new.final = pool.final /\ new.index = pool.index /\ new.status = pool.status
      /\ new.shares = pool.shares
  BY <1>3, <1>6 DEF PoolType
<1> HIDE DEF new
<1>8. Fits(e)'
  BY <1>1, <1>4, <1>6, <1>7 DEF Fits, Timed
<1>9. ShareOf(e) = 0 /\ \A i, r : e \notin Changers(i, r)
  BY <1>4 DEF ShareOf, Changers
<1>10. pool.shares \in Nat
  BY <1>6, PoolFields
<1>11. Announced(e)
  BY <1>3, <1>4, <1>6, <1>7, <1>8, <1>9, <1>10 DEF Announced
<1>. QED BY <1>11

\* A distribution is announced.
LEMMA AnnouncedFinal ==
    ASSUME IInv, Finalizes
    PROVE  \E e : Announced(e)
<1>1. PICK r \in BOOLEAN :
        /\ pool.kind \in {"DVMD", "ERF"}
        /\ Emit([pool EXCEPT !.final = IF r THEN emitted ELSE @],
                [type |-> "DistributionUpdated", final |-> emitted, readable |-> r])
  BY DEF Finalizes
<1>2. PICK e : e = [type |-> "DistributionUpdated", final |-> emitted, readable |-> r]
  OBVIOUS
<1> DEFINE new == [pool EXCEPT !.final = IF r THEN emitted ELSE @]
<1>3. emitted \in Nat
  BY DEF IInv, VarTypes
<1>4. e \in Events /\ e.type = "DistributionUpdated" /\ e.final = emitted /\ e.readable = r
  BY <1>2, <1>3 DEF Events, AlloEvent, StrategyEvent
<1>5. Emit(new, e)
  BY <1>2, <1>1
<1>6. /\ Added(e) /\ pool.created /\ pool' = new /\ emitted' = emitted + 1 /\ emitted \in Nat
      /\ handled' = handled /\ skipped' = skipped /\ half' = half /\ cache' = cache /\ db' = db
      /\ early' = early /\ damaged' = damaged /\ feed' = Append(feed, e) /\ failed' = failed /\ lost' = lost
      /\ pool \in PoolType /\ Len(pool.status) = Len(pool.index)
  BY <1>4, <1>5, EmitFacts
<1>7. /\ new \in PoolType /\ new.final = IF r THEN emitted ELSE pool.final
      /\ new.kind = pool.kind /\ new.known = pool.known /\ new.created = pool.created
      /\ new.times = pool.times /\ new.funds = pool.funds /\ new.meta = pool.meta
      /\ new.index = pool.index /\ new.status = pool.status /\ new.shares = pool.shares
  BY <1>3, <1>6 DEF PoolType
<1> HIDE DEF new
<1>8. Fits(e)'
  BY <1>1, <1>4, <1>6, <1>7 DEF Fits, Timed
<1>9. ShareOf(e) = 0 /\ \A i, q : e \notin Changers(i, q)
  BY <1>4 DEF ShareOf, Changers
<1>10. pool.shares \in Nat
  BY <1>6, PoolFields
<1>11. e.readable <=> r
  BY <1>4, Zenon
<1>12. Announced(e)
  BY <1>3, <1>4, <1>6, <1>7, <1>8, <1>9, <1>10, <1>11 DEF Announced
<1>. QED BY <1>12

\* A registration is announced with the next number.
LEMMA AnnouncedRegistration ==
    ASSUME IInv, Registers
    PROVE  \E e : Announced(e)
<1>1. PICK r \in Recipients \ ToSet(pool.index) :
        /\ Timed
        /\ Emit([pool EXCEPT !.index = Append(@, r), !.status = Append(@, "PENDING")],
                [type |-> "Registered", recipient |-> r, counter |-> Len(pool.index) + 1])
  BY DEF Registers
<1>2. PICK e : e = [type |-> "Registered", recipient |-> r, counter |-> Len(pool.index) + 1]
  OBVIOUS
<1> DEFINE new == [pool EXCEPT !.index = Append(@, r), !.status = Append(@, "PENDING")]
<1>3. /\ Len(pool.index) + 1 \in Nat \ {0} /\ Len(pool.status) = Len(pool.index)
      /\ pool.index \in Seq(Recipients) /\ pool.status \in Seq(Statuses) /\ "PENDING" \in Statuses
  BY PoolFields DEF IInv, VarTypes, PoolOK, Statuses
<1>4. e \in Events /\ e.type = "Registered" /\ e.recipient = r /\ e.counter = Len(pool.index) + 1
  BY <1>2, <1>3 DEF Events, AlloEvent, StrategyEvent
<1>5. Emit(new, e)
  BY <1>2, <1>1
<1>6. /\ Added(e) /\ pool.created /\ pool' = new /\ emitted' = emitted + 1 /\ emitted \in Nat
      /\ handled' = handled /\ skipped' = skipped /\ half' = half /\ cache' = cache /\ db' = db
      /\ early' = early /\ damaged' = damaged /\ feed' = Append(feed, e) /\ failed' = failed /\ lost' = lost
      /\ pool \in PoolType /\ Len(pool.status) = Len(pool.index)
  BY <1>4, <1>5, EmitFacts
<1>7. /\ new \in PoolType
      /\ new.index = Append(pool.index, r) /\ new.status = Append(pool.status, "PENDING")
      /\ new.kind = pool.kind /\ new.known = pool.known /\ new.created = pool.created
      /\ new.times = pool.times /\ new.funds = pool.funds /\ new.meta = pool.meta
      /\ new.final = pool.final /\ new.shares = pool.shares
  BY <1>1, <1>3, <1>6, AppendProperties DEF PoolType
<1> HIDE DEF new
<1>8. /\ Len(new.index) = Len(pool.index) + 1 /\ Len(new.status) = Len(new.index)
      /\ DOMAIN new.index = 1..(Len(pool.index) + 1) /\ new.index[Len(pool.index) + 1] = r
      /\ new.status[Len(pool.index) + 1] = "PENDING"
      /\ \A i \in 1..Len(pool.index) : new.index[i] = pool.index[i] /\ new.status[i] = pool.status[i]
  BY <1>1, <1>3, <1>7
<1>9. Fits(e)'
  <2>1. /\ e.type = "Registered" /\ Timed' /\ e.counter \in DOMAIN pool'.index
        /\ pool'.index[e.counter] = e.recipient
    BY <1>1, <1>3, <1>4, <1>6, <1>7, <1>8 DEF Timed
  <2>. QED BY <2>1 DEF Fits
<1>10. \A i \in DOMAIN pool.index : pool.index[i] # r
  BY <1>1 DEF ToSet
<1>11. \A i \in DOMAIN new.index :
         new.status[i] = IF i = e.counter THEN "PENDING" ELSE pool.status[i]
  BY <1>3, <1>4, <1>8
<1>12. ShareOf(e) = 0 /\ \A i, q : e \notin Changers(i, q)
  BY <1>4 DEF ShareOf, Changers
<1>13. pool.shares \in Nat
  BY <1>6, PoolFields
<1>14. Announced(e)
  BY <1>4, <1>6, <1>7, <1>8, <1>9, <1>10, <1>11, <1>12, <1>13 DEF Announced
<1>. QED BY <1>14

\* An update of a registration is announced.
LEMMA AnnouncedUpdate ==
    ASSUME IInv, Updates
    PROVE  \E e : Announced(e)
<1>1. PICK n \in DOMAIN pool.index, s \in Statuses :
        /\ pool.kind \in {"DVMD", "ERF", "DGLite"}
        /\ Emit([pool EXCEPT !.status[n] = s],
                [type |-> "UpdatedRegistration", recipient |-> pool.index[n], status |-> s])
  BY DEF Updates
<1>2. PICK e : e = [type |-> "UpdatedRegistration", recipient |-> pool.index[n], status |-> s]
  OBVIOUS
<1> DEFINE new == [pool EXCEPT !.status[n] = s]
<1>3. /\ pool.index[n] \in Recipients /\ Len(pool.status) = Len(pool.index) /\ n \in 1..Len(pool.index)
      /\ pool.status \in Seq(Statuses) /\ DOMAIN pool.index = 1..Len(pool.index)
      /\ DOMAIN pool.status = 1..Len(pool.index)
      /\ \A i \in DOMAIN pool.index : pool.index[i] = pool.index[n] => i = n
  BY <1>1, PoolFields, SMTT(60) DEF IInv, VarTypes, PoolOK
<1>4. e \in Events /\ e.type = "UpdatedRegistration" /\ e.recipient = pool.index[n] /\ e.status = s
  BY <1>2, <1>3 DEF Events, AlloEvent, StrategyEvent
<1>5. Emit(new, e)
  BY <1>2, <1>1
<1>6. /\ Added(e) /\ pool.created /\ pool' = new /\ emitted' = emitted + 1 /\ emitted \in Nat
      /\ handled' = handled /\ skipped' = skipped /\ half' = half /\ cache' = cache /\ db' = db
      /\ early' = early /\ damaged' = damaged /\ feed' = Append(feed, e) /\ failed' = failed /\ lost' = lost
      /\ pool \in PoolType /\ Len(pool.status) = Len(pool.index)
  BY <1>4, <1>5, EmitFacts
<1> DEFINE st == [pool.status EXCEPT ![n] = s]
<1>7. st \in Seq(Statuses) /\ new = [pool EXCEPT !.status = st]
  BY <1>1, <1>3, <1>6 DEF PoolType
<1>8. Len(st) = Len(pool.index) /\ \A i \in DOMAIN pool.index : st[i] = IF i = n THEN s ELSE pool.status[i]
  BY <1>1, <1>3
<1> HIDE DEF st, new
<1>9. /\ new \in PoolType
      /\ new.status = st
      /\ new.kind = pool.kind /\ new.known = pool.known /\ new.created = pool.created
      /\ new.times = pool.times /\ new.funds = pool.funds /\ new.meta = pool.meta
      /\ new.final = pool.final /\ new.index = pool.index /\ new.shares = pool.shares
  BY <1>6, <1>7 DEF PoolType
<1>10. Fits(e)'
  <2>1. /\ e.type = "UpdatedRegistration" /\ pool'.kind \in {"DVMD", "ERF", "DGLite"}
        /\ n \in DOMAIN pool'.index /\ pool'.index[n] = e.recipient
    BY <1>1, <1>4, <1>6, <1>9
  <2>. QED BY <2>1 DEF Fits
<1>11. Len(new.status) = Len(new.index) /\ DOMAIN new.index = 1..Len(pool.index)
  BY <1>3, <1>9, <1>8
<1>12. ASSUME NEW i \in DOMAIN new.index
      PROVE  new.status[i] = IF e \in Changers(i, pool.index[i]) THEN Given(e, i) ELSE pool.status[i]
  <2>1. new.status[i] = IF i = n THEN s ELSE pool.status[i]
    BY <1>9, <1>8
  <2>2. e \in Changers(i, pool.index[i]) <=> i = n
    BY <1>3, <1>4, <1>9 DEF Changers
  <2>. QED BY <1>4, <2>1, <2>2 DEF Given
<1>13. ShareOf(e) = 0
  BY <1>4 DEF ShareOf
<1>14. pool.shares \in Nat
  BY <1>6, PoolFields
<1>15. Announced(e)
  BY <1>4, <1>6, <1>9, <1>10, <1>11, <1>12, <1>13, <1>14 DEF Announced
<1>. QED BY <1>15

\* A review is announced with the row of all statuses.
LEMMA AnnouncedReview ==
    ASSUME IInv, Reviews
    PROVE  \E e : Announced(e)
<1>1. PICK row \in [DOMAIN pool.index -> Statuses] :
        /\ pool.kind \in {"DVMD", "ERF", "DGLite"}
        /\ Emit([pool EXCEPT !.status = row], [type |-> "RecipientStatusUpdated", row |-> row])
  BY DEF Reviews
<1>2. PICK e : e = [type |-> "RecipientStatusUpdated", row |-> row]
  OBVIOUS
<1> DEFINE new == [pool EXCEPT !.status = row]
<1>3. /\ row \in Seq(Statuses) /\ Len(row) = Len(pool.index) /\ DOMAIN row = DOMAIN pool.index
      /\ Len(pool.index) \in Nat
  BY <1>1, PoolFields DEF IInv, VarTypes
<1>4. e \in Events /\ e.type = "RecipientStatusUpdated" /\ e.row = row
  BY <1>2, <1>3 DEF Events, AlloEvent, StrategyEvent
<1>5. Emit(new, e)
  BY <1>2, <1>1
<1>6. /\ Added(e) /\ pool.created /\ pool' = new /\ emitted' = emitted + 1 /\ emitted \in Nat
      /\ handled' = handled /\ skipped' = skipped /\ half' = half /\ cache' = cache /\ db' = db
      /\ early' = early /\ damaged' = damaged /\ feed' = Append(feed, e) /\ failed' = failed /\ lost' = lost
      /\ pool \in PoolType /\ Len(pool.status) = Len(pool.index)
  BY <1>4, <1>5, EmitFacts
<1>7. /\ new \in PoolType
      /\ new.status = row
      /\ new.kind = pool.kind /\ new.known = pool.known /\ new.created = pool.created
      /\ new.times = pool.times /\ new.funds = pool.funds /\ new.meta = pool.meta
      /\ new.final = pool.final /\ new.index = pool.index /\ new.shares = pool.shares
  BY <1>1, <1>3, <1>6 DEF PoolType
<1> HIDE DEF new
<1>8. Fits(e)'
  <2>1. /\ e.type = "RecipientStatusUpdated" /\ pool'.kind \in {"DVMD", "ERF", "DGLite"}
        /\ Len(e.row) <= Len(pool'.index)
    BY <1>1, <1>3, <1>4, <1>6, <1>7
  <2>. QED BY <2>1 DEF Fits
<1>9. ASSUME NEW i \in DOMAIN new.index
      PROVE  new.status[i] = IF e \in Changers(i, pool.index[i]) THEN Given(e, i) ELSE pool.status[i]
  BY <1>3, <1>4, <1>7 DEF Changers, Given
<1>10. ShareOf(e) = 0
  BY <1>4 DEF ShareOf
<1>11. pool.shares \in Nat
  BY <1>6, PoolFields
<1>12. Announced(e)
  BY <1>3, <1>4, <1>6, <1>7, <1>8, <1>9, <1>10, <1>11 DEF Announced
<1>. QED BY <1>12

\* A payment is announced.
LEMMA AnnouncedPayment ==
    ASSUME IInv, Pays
    PROVE  \E e : Announced(e)
<1>1. PICK n \in DOMAIN pool.index, a \in 0..1,
            t \in {"FundsDistributed", "Distributed", "Allocated"} :
        /\ t = CASE pool.kind = "DGLite" -> "Allocated"
                 [] pool.kind = "DGSimple" -> "Distributed"
                 [] OTHER -> "FundsDistributed"
        /\ Emit([pool EXCEPT !.paid = @ \cup {n}, !.shares = @ + a],
                [type |-> t, recipient |-> pool.index[n], amount |-> a])
  BY DEF Pays
<1>2. PICK e : e = [type |-> t, recipient |-> pool.index[n], amount |-> a]
  OBVIOUS
<1> DEFINE new == [pool EXCEPT !.paid = @ \cup {n}, !.shares = @ + a]
<1>3. /\ pool.index[n] \in Recipients /\ a \in Nat /\ n \in Nat /\ pool.shares \in Nat
      /\ t \in {"FundsDistributed", "Distributed", "Allocated"}
      /\ pool.paid \in SUBSET Nat
  BY <1>1, PoolFields, SMTT(60) DEF IInv, VarTypes
<1>4. e \in Events /\ e.type = t /\ e.recipient = pool.index[n] /\ e.amount = a
  BY <1>2, <1>3 DEF Events, AlloEvent, StrategyEvent
<1>5. Emit(new, e)
  BY <1>2, <1>1
<1>6. /\ Added(e) /\ pool.created /\ pool' = new /\ emitted' = emitted + 1 /\ emitted \in Nat
      /\ handled' = handled /\ skipped' = skipped /\ half' = half /\ cache' = cache /\ db' = db
      /\ early' = early /\ damaged' = damaged /\ feed' = Append(feed, e) /\ failed' = failed /\ lost' = lost
      /\ pool \in PoolType /\ Len(pool.status) = Len(pool.index)
  BY <1>4, <1>5, EmitFacts
<1> DEFINE p == pool.paid \cup {n}
           q == pool.shares + a
<1>7. p \in SUBSET Nat /\ q \in Nat
  BY <1>3
<1>8. new = [pool EXCEPT !.paid = p, !.shares = q]
  BY <1>6 DEF PoolType
<1> HIDE DEF p, q, new
<1>9. /\ new \in PoolType
      /\ new.shares = q
      /\ new.kind = pool.kind /\ new.known = pool.known /\ new.created = pool.created
      /\ new.times = pool.times /\ new.funds = pool.funds /\ new.meta = pool.meta
      /\ new.final = pool.final /\ new.index = pool.index /\ new.status = pool.status
  BY <1>6, <1>7, <1>8 DEF PoolType
<1>10. Fits(e)'
  <2>1. pool.kind \in {"DVMD", "ERF", "DGLite", "DGSimple", "DirectAllocation"}
    BY <1>6, PoolsAssumption, PoolFields DEF KindsWithHandler
  <2>2. pool.kind # "DirectAllocation"
    <3>1. pool.index # <<>>
      BY <1>1
    <3>. QED BY <3>1 DEF IInv, PoolOK, Timed
  <2>3. /\ t = "FundsDistributed" => pool.kind \in {"DVMD", "ERF"}
        /\ t = "Distributed" => pool.kind = "DGSimple"
        /\ t = "Allocated" => pool.kind = "DGLite"
    BY <1>1, <2>1, <2>2
  <2>4. /\ e.type = t /\ pool'.kind = pool.kind
        /\ n \in DOMAIN pool'.index /\ pool'.index[n] = e.recipient
    BY <1>1, <1>4, <1>6, <1>9
  <2>. QED BY <1>3, <2>3, <2>4 DEF Fits
<1>11. \A i, r : e \notin Changers(i, r)
  BY <1>3, <1>4 DEF Changers
<1>12. ShareOf(e) = a
  BY <1>3, <1>4 DEF ShareOf
<1>13. Announced(e)
  BY <1>3, <1>4, <1>6, <1>9, <1>10, <1>11, <1>12 DEF Announced, q
<1>. QED BY <1>13

\* Whatever the contract changes it announces.
LEMMA Announces ==
    ASSUME IInv, SetsTimes \/ Funds \/ SetsMetadata \/ Registers \/ Updates \/ Reviews
                 \/ Finalizes \/ Pays \/ Allocates
    PROVE  \E e : Announced(e)
BY AnnouncedTimes, AnnouncedFunds, AnnouncedMetadata, AnnouncedRegistration, AnnouncedUpdate,
   AnnouncedReview, AnnouncedFinal, AnnouncedPayment, AnnouncedAllocation
-----------------------------------------------------------------------------
(* What is read of the contract, and the steps that leave the queue and the  *)
(* tables as they are.                                                       *)

\* A time as a date, of a contract or of none.
LEMMA DateOfTimes == ASSUME VarTypes PROVE DateOf(pool.times) \in Dates
BY DEF VarTypes, PoolType, DateOf, Dates, Times

\* What is fetched has no second date where the strategy has none.
LEMMA FetchedTypes ==
    ASSUME VarTypes
    PROVE  /\ FetchedTimings \in Timing
           /\ pool.kind \notin {"DVMD", "ERF"} => FetchedTimings.donations = Nil
           /\ ~Timed => FetchedTimings = NoTimings
           /\ NoTimings \in Timing /\ NoTimings.donations = Nil
<1>1. DateOf(pool.times) \in Dates /\ FirstTimes \in Dates /\ Nil \in Dates
  BY DateOfTimes DEF VarTypes, FirstTimes, Dates
<1>2. NoTimings \in Timing /\ NoTimings.donations = Nil
  BY <1>1 DEF NoTimings, Timing
<1>3. DVMDTimings \in Timing /\ ERFTimings \in Timing
  BY <1>1 DEF DVMDTimings, ERFTimings, Timing
<1>4. DGLiteTimings \in Timing /\ DGLiteTimings.donations = Nil
  BY <1>1 DEF DGLiteTimings, Timing
<1>5. FetchedTimings = IF pool.kind = "DVMD" THEN DVMDTimings ELSE IF pool.kind = "ERF" THEN ERFTimings
                       ELSE IF pool.kind = "DGLite" THEN DGLiteTimings ELSE NoTimings
  BY DEF FetchedTimings, BaseTimings
<1>. QED BY <1>2, <1>3, <1>4, <1>5 DEF Timed

\* The first times, if they were read before, are those of now: then all of
\* what is fetched is.
LEMMA FetchedIsExpected ==
    ASSUME VarTypes, PoolOK, pool.kind # "DGSimple", half \in {Nil, ExpectedTimings.applications}
    PROVE  FetchedTimings = ExpectedTimings
<1>1. ExpectedTimings.applications = DateOf(pool.times)
  BY DEF ExpectedTimings
<1>2. FirstTimes = DateOf(pool.times)
  BY <1>1 DEF FirstTimes
<1>3. pool.kind \in {"DVMD", "ERF", "DGLite", "DirectAllocation"}
  BY PoolsAssumption DEF VarTypes, PoolType, KindsWithHandler
<1>4. pool.kind = "DirectAllocation" => DateOf(pool.times) = Nil
  BY DEF PoolOK, Timed, DateOf
<1>. QED BY <1>2, <1>3, <1>4
     DEF FetchedTimings, DVMDTimings, ERFTimings, DGLiteTimings, BaseTimings, NoTimings, ExpectedTimings

\* What the handler of the creation takes, stored or fetched.
LEMMA TimingsFacts ==
    ASSUME VarTypes, PoolOK, StoredOK
    PROVE  /\ Timings \in Timing
           /\ pool.kind \notin {"DVMD", "ERF"} => Timings.donations = Nil
           /\ ~Timed => Timings = NoTimings
           /\ \A k \in 1..N : ReadsLast(k) /\ handled /\ pool.kind # "DGSimple" => Timings = ExpectedTimings
<1>1. /\ FetchedTimings \in Timing
      /\ pool.kind \notin {"DVMD", "ERF"} => FetchedTimings.donations = Nil
      /\ ~Timed => FetchedTimings = NoTimings
      /\ NoTimings \in Timing /\ NoTimings.donations = Nil
  BY FetchedTypes
<1>2. Timings = IF ~handled THEN NoTimings ELSE IF cache # Nil THEN cache ELSE FetchedTimings
  BY DEF Timings, Stored
<1>3. /\ cache # Nil => cache \in Timing
      /\ cache # Nil /\ pool.kind \notin {"DVMD", "ERF"} => cache.donations = Nil
      /\ cache # Nil /\ ~Timed => cache = NoTimings
  BY DEF VarTypes, StoredOK
<1>4. ASSUME NEW k \in 1..N, ReadsLast(k), handled, pool.kind # "DGSimple"
      PROVE  Timings = ExpectedTimings
  <2>1. cache \in {Nil, ExpectedTimings} /\ half \in {Nil, ExpectedTimings.applications}
    BY <1>4 DEF StoredOK
  <2>2. FetchedTimings = ExpectedTimings
    BY <1>4, <2>1, FetchedIsExpected
  <2>. QED BY <1>2, <1>4, <2>1, <2>2
<1>. QED BY <1>1, <1>2, <1>3, <1>4

Quiet ==
    /\ Q' = Q /\ pool' = pool /\ db' = db /\ damaged' = damaged /\ early' = early
    /\ emitted' = emitted

\* What the tables, the queue and the contract decide stays.
LEMMA QuietKeeps ==
    ASSUME IInv, Quiet
    PROVE  /\ DbOK' /\ EventsFit' /\ CreationOK' /\ AppsOK' /\ Arrives' /\ StatusOK'
           /\ FinalOK' /\ MatchOK' /\ FundsOK' /\ SharesOK' /\ PayoutsOK' /\ DonationsOK'
<1>1. /\ Q' = Q /\ N' = N /\ pool' = pool /\ db' = db /\ damaged' = damaged /\ early' = early
      /\ emitted' = emitted /\ Ids' = Ids
  BY DEF Quiet, N, Ids
<1>2. \A C : (Without(C)' <=> Without(C)) /\ (\A k : IsLast(k, C)' <=> IsLast(k, C))
  BY <1>1 DEF Without, IsLast
<1>3. DbOK'
  BY <1>1 DEF IInv, DbOK
<1>4. EventsFit'
  <2>1. \A e : Fits(e)' <=> Fits(e)
    BY <1>1 DEF Fits, Timed
  <2>2. EventsFit' <=> \A k \in 1..N' : Fits(Q[k])'
    BY DEF EventsFit
  <2>. QED BY <1>1, <2>1 DEF IInv, EventsFit
<1>5. CreationOK'
  BY <1>1, <1>2 DEF IInv, CreationOK
<1>6. \A i : IdOf(i)' = IdOf(i)
  BY <1>1 DEF IdOf
<1>7. AppsOK'
  BY <1>1, <1>6 DEF IInv, AppsOK
<1>8. Arrives'
  BY <1>1, <1>2, <1>6 DEF IInv, Arrives
<1>9. StatusOK'
  BY <1>1, <1>2, <1>6 DEF IInv, StatusOK
<1>10. FinalOK'
  BY <1>1, <1>2 DEF IInv, FinalOK, FinalNow
<1>11. MatchOK'
  BY <1>1, <1>2 DEF IInv, MatchOK, Matched
<1>12. FundsOK'
  BY <1>1 DEF IInv, FundsOK, FundsRun
<1>13. SharesOK'
  BY <1>1 DEF IInv, SharesOK, SharesRun, DistributedNow
<1>14. PayoutsOK'
  <2>1. Paid' = Paid
    BY <1>1 DEF Paid
  <2>. QED BY <1>1, <2>1 DEF IInv, PayoutsOK
<1>15. DonationsOK'
  BY <1>1 DEF IInv, DonationsOK
<1>. QED BY <1>3, <1>4, <1>5, <1>7, <1>8, <1>9, <1>10, <1>11, <1>12, <1>13, <1>14, <1>15
\* The times of a step that changes none of them.
LEMMA QuietTimes ==
    ASSUME IInv, Quiet, handled' = handled \/ handled'
    PROVE  TimesOK'
<1>1. /\ Q' = Q /\ N' = N /\ pool' = pool /\ db' = db /\ damaged' = damaged /\ early' = early
  BY DEF Quiet, N
<1>2. \A C : (Without(C)' <=> Without(C)) /\ (\A k : IsLast(k, C)' <=> IsLast(k, C))
  BY <1>1 DEF Without, IsLast
<1>3. (Reread' <=> Reread) /\ ExpectedTimings' = ExpectedTimings /\ (Timed' <=> Timed)
  BY <1>1 DEF Reread, ExpectedTimings, Timed
<1>. QED BY <1>1, <1>2, <1>3 DEF IInv, TimesOK

\* What is stored or half read is of a round to come, or was before.
LEMMA QuietStored ==
    ASSUME IInv, Quiet,
           cache' # Nil /\ pool.kind \notin {"DVMD", "ERF"} => cache'.donations = Nil,
           cache' # Nil /\ ~Timed => cache' = NoTimings,
           \A k \in 1..N : ReadsLast(k) /\ handled' /\ pool.kind # "DGSimple" =>
              cache' \in {Nil, ExpectedTimings} /\ half' \in {Nil, ExpectedTimings.applications}
    PROVE  StoredOK'
<1>1. /\ Q' = Q /\ N' = N /\ pool' = pool /\ db' = db
  BY DEF Quiet, N
<1>2. \A k : ReadsLast(k)' <=> ReadsLast(k)
  BY <1>1 DEF ReadsLast
<1>3. ExpectedTimings' = ExpectedTimings /\ (Timed' <=> Timed)
  BY <1>1 DEF ExpectedTimings, Timed
<1>. QED BY <1>1, <1>2, <1>3 DEF IInv, StoredOK

\* All parts together, for a step of this kind.
LEMMA QuietStep ==
    ASSUME IInv, Quiet, VarTypes', BuildOK', StoredOK', handled' = handled \/ handled',
           ~pool.created => cache' = Nil /\ half' = Nil
    PROVE  IInv'
<1>1. PoolOK'
  BY DEF IInv, Quiet, PoolOK, Timed, N
<1>. QED BY <1>1, QuietKeeps, QuietTimes DEF IInv

\* An event is left for a later build.
LEMMA SkipKeeps ==
    ASSUME IInv, NEW e, Skip(e)
    PROVE  IInv'
<1>1. VarTypes /\ PoolOK /\ BuildOK /\ StoredOK
  BY DEF IInv
<1>2. /\ feed # <<>> /\ e = Head(feed) /\ feed' = Tail(feed) /\ skipped' = Append(skipped, e)
      /\ NeedsHandler(e) /\ ~handled /\ handled' = handled /\ cache' = cache /\ half' = half
      /\ pool' = pool /\ db' = db /\ damaged' = damaged /\ early' = early /\ emitted' = emitted
      /\ failed' = failed /\ lost' = lost
  BY DEF Skip, Takes
<1>3. feed \in Seq(Events) /\ skipped \in Seq(StrategyEvent) /\ StrategyEvent \subseteq Events
  BY <1>1, StrategyTypes DEF VarTypes
<1>4. e \in Events /\ feed' \in Seq(Events)
  BY <1>2, <1>3
<1>5. e \in StrategyEvent
  BY <1>2, <1>4 DEF Events, AlloEvent, NeedsHandler, AlloEvents
<1>6. skipped' \in Seq(StrategyEvent)
  BY <1>2, <1>3, <1>5
<1>7. Q' = Q
  <2>1. skipped \in Seq(Events)
    BY <1>3
  <2>2. feed = <<e>> \o Tail(feed)
    BY <1>2, <1>3
  <2>3. Append(skipped, e) \o Tail(feed) = skipped \o feed
    <3>1. Append(skipped, e) = skipped \o <<e>>
      BY <1>4, <2>1, AppendIsConcat
    <3>2. <<e>> \in Seq(Events) /\ Tail(feed) \in Seq(Events)
      BY <1>2, <1>4
    <3>3. (skipped \o <<e>>) \o Tail(feed) = skipped \o (<<e>> \o Tail(feed))
      BY <2>1, <3>2, ConcatAssociative
    <3>. QED BY <2>2, <3>1, <3>3
  <2>. QED BY <1>2, <2>3 DEF Q
<1>8. Quiet
  BY <1>2, <1>7 DEF Quiet
<1>9. VarTypes'
  BY <1>1, <1>2, <1>4, <1>6 DEF VarTypes
<1>10. BuildOK'
  BY <1>1, <1>2 DEF BuildOK
<1>11. StoredOK'
  BY <1>1, <1>2, <1>8, QuietStored DEF StoredOK
<1>. QED BY <1>1, <1>2, <1>8, <1>9, <1>10, <1>11, QuietStep DEF PoolOK

\* The creation waits in a contract that is there.
LEMMA QueuedIsCreated == ASSUME VarTypes, PoolOK, feed # <<>> PROVE pool.created
<1> SUFFICES ASSUME ~pool.created PROVE FALSE
  OBVIOUS
<1>1. Q = <<>> /\ N = 0
  BY DEF PoolOK, N
<1>2. N = Len(skipped) + Len(feed) /\ Len(skipped) \in Nat /\ Len(feed) \in Nat
  BY QFacts
<1>3. Len(feed) > 0
  BY <1>2 DEF VarTypes
<1>. QED BY <1>1, <1>2, <1>3

\* The only creation in the queue, of a build with the handler.
LEMMA HeadIsCreation ==
    ASSUME IInv, feed # <<>>, Head(feed).type = "PoolCreated", handled
    PROVE  1 \in 1..N /\ Q[1] \in Creations /\ \A k \in 1..N : ReadsLast(k) => k = 1
<1>1. VarTypes /\ BuildOK /\ CreationOK
  BY DEF IInv
<1>2. feed \in Seq(Events) /\ skipped = <<>>
  BY <1>1 DEF VarTypes, BuildOK
<1>3. Q = feed
  BY <1>2 DEF Q
<1>4. 1 \in 1..N /\ Q[1] = Head(feed) /\ Head(feed) \in Events
  BY <1>2, <1>3 DEF N
<1>5. Q[1] \in Creations
  BY <1>4 DEF Creations
<1>6. \A k \in 1..N : ReadsLast(k) => k = 1
  BY <1>1, <1>4, <1>5 DEF CreationOK, ReadsLast
<1>. QED BY <1>4, <1>5, <1>6

\* A failed attempt leaves the stored times behind.
LEMMA FailKeeps ==
    ASSUME IInv, NEW e, Fail(e)
    PROVE  IInv'
<1>1. VarTypes /\ PoolOK /\ BuildOK /\ StoredOK
  BY DEF IInv
<1>2. /\ feed # <<>> /\ e = Head(feed) /\ e.type = "PoolCreated" /\ cache' = CacheAfter(e) /\ half' = Nil
      /\ feed' = feed /\ skipped' = skipped /\ handled' = handled /\ lost' = lost /\ failed' = failed + 1
      /\ pool' = pool /\ db' = db /\ damaged' = damaged /\ early' = early /\ emitted' = emitted
  BY DEF Fail
<1>3. Quiet
  BY <1>2 DEF Quiet, Q
<1>4. cache' = IF handled THEN Timings ELSE cache
  BY <1>2 DEF CacheAfter
<1>5. /\ Timings \in Timing
      /\ pool.kind \notin {"DVMD", "ERF"} => Timings.donations = Nil
      /\ ~Timed => Timings = NoTimings
      /\ \A k \in 1..N : ReadsLast(k) /\ handled /\ pool.kind # "DGSimple" => Timings = ExpectedTimings
  BY <1>1, TimingsFacts
<1>6. pool.created
  BY <1>1, <1>2, QueuedIsCreated
<1>7. VarTypes'
  <2>1. cache' \in Timing \cup {Nil} /\ half' \in Dates
    BY <1>1, <1>2, <1>4, <1>5 DEF VarTypes, Dates
  <2>. QED BY <1>1, <1>2, <2>1 DEF VarTypes
<1>8. BuildOK'
  BY <1>1, <1>2, <1>4 DEF BuildOK
<1>9. StoredOK'
  <2>1. /\ cache' # Nil /\ pool.kind \notin {"DVMD", "ERF"} => cache'.donations = Nil
        /\ cache' # Nil /\ ~Timed => cache' = NoTimings
    BY <1>1, <1>4, <1>5 DEF StoredOK
  <2>2. \A k \in 1..N : ReadsLast(k) /\ handled' /\ pool.kind # "DGSimple" =>
           cache' \in {Nil, ExpectedTimings} /\ half' \in {Nil, ExpectedTimings.applications}
    BY <1>2, <1>4, <1>5
  <2>. QED BY <1>3, <2>1, <2>2, QuietStored
<1>. QED BY <1>2, <1>3, <1>6, <1>7, <1>8, <1>9, QuietStep

\* The first times are read.
LEMMA ReadHalfKeeps ==
    ASSUME IInv, ReadHalf
    PROVE  IInv'
<1>1. VarTypes /\ PoolOK /\ BuildOK /\ StoredOK
  BY DEF IInv
<1>2. /\ feed # <<>> /\ handled /\ cache = Nil /\ half' = DateOf(pool.times)
      /\ feed' = feed /\ skipped' = skipped /\ handled' = handled /\ cache' = cache /\ lost' = lost
      /\ failed' = failed
      /\ pool' = pool /\ db' = db /\ damaged' = damaged /\ early' = early /\ emitted' = emitted
  BY DEF ReadHalf
<1>3. Quiet
  BY <1>2 DEF Quiet, Q
<1>4. pool.created
  BY <1>1, <1>2, QueuedIsCreated
<1>5. VarTypes'
  BY <1>1, <1>2, DateOfTimes DEF VarTypes
<1>6. BuildOK'
  BY <1>1, <1>2 DEF BuildOK
<1>7. StoredOK'
  <2>1. half' = ExpectedTimings.applications
    BY <1>2 DEF ExpectedTimings
  <2>. QED BY <1>2, <1>3, <2>1, QuietStored
<1>. QED BY <1>2, <1>3, <1>4, <1>5, <1>6, <1>7, QuietStep

\* The script of the bootstrap stores times.
LEMMA BootstrapKeeps ==
    ASSUME IInv, Bootstrap
    PROVE  IInv'
<1>1. VarTypes /\ PoolOK /\ BuildOK /\ StoredOK
  BY DEF IInv
<1>2. /\ pool.created /\ handled /\ cache = Nil /\ cache' = FetchedTimings
      /\ feed' = feed /\ skipped' = skipped /\ handled' = handled /\ half' = half /\ lost' = lost
      /\ failed' = failed
      /\ pool' = pool /\ db' = db /\ damaged' = damaged /\ early' = early /\ emitted' = emitted
  BY DEF Bootstrap
<1>3. Quiet
  BY <1>2 DEF Quiet, Q
<1>4. /\ FetchedTimings \in Timing
      /\ pool.kind \notin {"DVMD", "ERF"} => FetchedTimings.donations = Nil
      /\ ~Timed => FetchedTimings = NoTimings
  BY <1>1, FetchedTypes
<1>5. VarTypes'
  BY <1>1, <1>2, <1>4 DEF VarTypes
<1>6. BuildOK'
  BY <1>1, <1>2 DEF BuildOK
<1>7. StoredOK'
  <2>1. ASSUME NEW k \in 1..N, ReadsLast(k), pool.kind # "DGSimple"
        PROVE  FetchedTimings = ExpectedTimings /\ half \in {Nil, ExpectedTimings.applications}
    <3>1. half \in {Nil, ExpectedTimings.applications}
      BY <1>1, <1>2, <2>1 DEF StoredOK
    <3>. QED BY <1>1, <2>1, <3>1, FetchedIsExpected
  <2>. QED BY <1>2, <1>3, <1>4, <2>1, QuietStored
<1>. QED BY <1>2, <1>3, <1>5, <1>6, <1>7, QuietStep

\* A build with the handler takes up what was left.
LEMMA NewBuildKeeps ==
    ASSUME IInv, NewBuild
    PROVE  IInv'
<1>1. VarTypes /\ PoolOK /\ BuildOK /\ StoredOK
  BY DEF IInv
<1>2. /\ ~handled /\ handled' = TRUE /\ feed' = skipped \o feed /\ skipped' = <<>>
      /\ half' = half /\ cache' = cache /\ lost' = lost /\ failed' = failed
      /\ pool' = pool /\ db' = db /\ damaged' = damaged /\ early' = early /\ emitted' = emitted
  BY DEF NewBuild
<1>3. Q \in Seq(Events)
  BY <1>1, QFacts
<1>4. feed' = Q /\ Q' = Q
  BY <1>2, <1>3 DEF Q
<1>5. Quiet
  BY <1>2, <1>4 DEF Quiet
<1>6. cache = Nil /\ half = Nil /\ ~early
  BY <1>1, <1>2 DEF BuildOK
<1>7. VarTypes'
  BY <1>1, <1>2, <1>3, <1>4 DEF VarTypes
<1>8. BuildOK'
  BY <1>1, <1>2, <1>6 DEF BuildOK
<1>9. StoredOK'
  BY <1>2, <1>5, <1>6, QuietStored
<1>. QED BY <1>2, <1>5, <1>6, <1>7, <1>8, <1>9, QuietStep

\* Nothing happens.
LEMMA StutterKeeps ==
    ASSUME IInv, UNCHANGED vars
    PROVE  IInv'
<1>1. VarTypes /\ PoolOK /\ BuildOK /\ StoredOK
  BY DEF IInv
<1>2. /\ feed' = feed /\ skipped' = skipped /\ handled' = handled /\ half' = half /\ cache' = cache
      /\ lost' = lost /\ failed' = failed
      /\ pool' = pool /\ db' = db /\ damaged' = damaged /\ early' = early /\ emitted' = emitted
  BY DEF vars, workVars
<1>3. Quiet
  BY <1>2 DEF Quiet, Q
<1>4. VarTypes'
  BY <1>1, <1>2 DEF VarTypes
<1>5. BuildOK'
  BY <1>1, <1>2 DEF BuildOK
<1>6. StoredOK'
  BY <1>1, <1>2, <1>3, QuietStored DEF StoredOK
<1>. QED BY <1>1, <1>2, <1>3, <1>4, <1>5, <1>6, QuietStep DEF PoolOK
-----------------------------------------------------------------------------
(* What a call of the contract keeps. *)

\* The queue with one event more.
LEMMA AnnouncedQueue ==
    ASSUME IInv, NEW e, Announced(e)
    PROVE  /\ N \in Nat /\ N' = N + 1 /\ Q'[N + 1] = e /\ N + 1 \in 1..N' /\ 1..N \subseteq 1..N'
           /\ \A i \in 1..N' : i = N + 1 \/ (i \in 1..N /\ i < N + 1 /\ Q'[i] = Q[i])
           /\ \A i \in 1..N : Q'[i] = Q[i] /\ Q[i] \in Events
           /\ e \in Events /\ e.type # "PoolCreated" /\ e \notin Creations
<1>1. N \in Nat /\ \A i \in 1..N : Q[i] \in Events
  BY QFacts DEF IInv
<1>2. N' = N + 1 /\ Q'[N + 1] = e /\ \A i \in 1..N : Q'[i] = Q[i]
  BY DEF Announced, Added
<1>3. e \in Events /\ e.type # "PoolCreated" /\ e \notin Creations
  BY DEF Announced, Creations
<1>. QED BY <1>1, <1>2, <1>3

\* The recipients with one more at the end, or as they are.
LEMMA AnnouncedIndex ==
    ASSUME IInv, NEW e, Announced(e)
    PROVE  /\ pool'.kind = pool.kind /\ pool'.known = pool.known /\ (Timed' <=> Timed)
           /\ Len(pool.index) \in Nat /\ DOMAIN pool.index = 1..Len(pool.index)
           /\ Len(pool'.status) = Len(pool'.index) /\ Len(pool.status) = Len(pool.index)
           /\ DOMAIN pool'.status = DOMAIN pool'.index
           /\ \A i \in DOMAIN pool.index :
                 i \in DOMAIN pool'.index /\ pool'.index[i] = pool.index[i] /\ IdOf(i)' = IdOf(i)
           /\ e.type # "Registered" => pool'.index = pool.index
           /\ e.type = "Registered" =>
                 /\ e.counter = Len(pool.index) + 1 /\ DOMAIN pool'.index = 1..e.counter
                 /\ pool'.index[e.counter] = e.recipient
                 /\ \A i \in DOMAIN pool.index : pool.index[i] # e.recipient
<1>1. pool \in PoolType /\ pool' \in PoolType
  BY DEF IInv, VarTypes, Announced
<1>2. /\ pool'.kind = pool.kind /\ pool'.known = pool.known /\ (Timed' <=> Timed)
      /\ pool.index \in Seq(Recipients) /\ e \in Events
      /\ pool'.index \in Seq(Recipients) /\ pool'.status \in Seq(Statuses)
      /\ Len(pool'.status) = Len(pool'.index) /\ Len(pool.status) = Len(pool.index)
  BY <1>1 DEF Announced, Timed, PoolType, IInv, PoolOK
<1>3. CASE e.type = "Registered"
  <2>1. /\ e.recipient \in Recipients /\ pool'.index = Append(pool.index, e.recipient)
        /\ e.counter = Len(pool.index) + 1
        /\ \A i \in DOMAIN pool.index : pool.index[i] # e.recipient
    BY <1>2, <1>3, EventFields DEF Announced
  <2>2. /\ DOMAIN pool'.index = 1..e.counter /\ pool'.index[e.counter] = e.recipient
        /\ \A i \in DOMAIN pool.index : i \in DOMAIN pool'.index /\ pool'.index[i] = pool.index[i]
    BY <1>2, <2>1
  <2>. QED BY <1>2, <1>3, <2>1, <2>2 DEF IdOf
<1>4. CASE e.type # "Registered"
  <2>1. pool'.index = pool.index
    BY <1>4 DEF Announced
  <2>. QED BY <1>2, <1>4, <2>1 DEF IdOf
<1>. QED BY <1>3, <1>4

\* An event that fits still does.
LEMMA FitsStays ==
    ASSUME IInv, NEW e, Announced(e), NEW v, Fits(v), v \in Events
    PROVE  Fits(v)'
<1>1. /\ pool'.kind = pool.kind /\ (Timed' <=> Timed)
      /\ Len(pool.index) \in Nat /\ DOMAIN pool.index = 1..Len(pool.index)
      /\ \A i \in DOMAIN pool.index : i \in DOMAIN pool'.index /\ pool'.index[i] = pool.index[i]
      /\ e.type # "Registered" => pool'.index = pool.index
      /\ e.type = "Registered" => DOMAIN pool'.index = 1..e.counter /\ e.counter = Len(pool.index) + 1
  BY AnnouncedIndex
<1>2. emitted' = emitted + 1 /\ emitted \in Nat
  BY DEF Announced
<1>3. Len(pool'.index) \in Nat /\ Len(pool.index) <= Len(pool'.index)
  <2>1. pool'.index \in Seq(Recipients)
    BY DEF Announced, PoolType
  <2>2. Len(pool'.index) \in Nat /\ DOMAIN pool'.index = 1..Len(pool'.index)
    BY <2>1
  <2>. QED BY <1>1, <2>2
<1>4. v.type = "RecipientStatusUpdated" => Len(v.row) \in Nat
  BY EventFields
<1>5. v.type = "DirectAllocated" => v.id \in Nat
  BY EventFields
<1>6. v.type = "RecipientStatusUpdated" => Len(v.row) <= Len(pool'.index)
  BY <1>1, <1>3, <1>4 DEF Fits
<1>7. v.type = "DirectAllocated" => v.id < emitted'
  BY <1>2, <1>5 DEF Fits
<1>8. v.type = "Registered" =>
        v.counter \in DOMAIN pool'.index /\ pool'.index[v.counter] = v.recipient
  BY <1>1 DEF Fits
<1>9. v.type \in {"UpdatedRegistration", "FundsDistributed", "Distributed", "Allocated"} =>
        \E i \in DOMAIN pool'.index : pool'.index[i] = v.recipient
  BY <1>1 DEF Fits
<1>. QED BY <1>1, <1>6, <1>7, <1>8, <1>9 DEF Fits

\* An announcement keeps the types of the variables and tables,
LEMMA AnnouncedTypes ==
    ASSUME IInv, NEW e, Announced(e)
    PROVE  VarTypes' /\ DbOK' /\ BuildOK'
<1>1. /\ handled' = handled /\ skipped' = skipped /\ half' = half /\ cache' = cache /\ db' = db
      /\ early' = early /\ damaged' = damaged /\ feed' = Append(feed, e) /\ failed' = failed /\ lost' = lost
      /\ emitted' = emitted + 1 /\ emitted \in Nat /\ pool' \in PoolType /\ e \in Events
  BY DEF Announced
<1>2. VarTypes'
  <2>1. Append(feed, e) \in Seq(Events) /\ emitted + 1 \in Nat
    BY <1>1 DEF IInv, VarTypes
  <2>. QED BY <1>1, <2>1 DEF IInv, VarTypes
<1>3. DbOK'
  BY <1>1 DEF IInv, DbOK, Ids
<1>4. BuildOK'
  BY <1>1 DEF IInv, BuildOK
<1>. QED BY <1>2, <1>3, <1>4

\* what holds of the contract and of the build,
LEMMA AnnouncedPool ==
    ASSUME IInv, NEW e, Announced(e)
    PROVE  PoolOK'
<1> USE AnnouncedIndex
<1>1. PoolOK /\ pool \in PoolType /\ pool'.created /\ pool.created /\ Fits(e)' /\ e \in Events
  BY DEF IInv, VarTypes, Announced
<1>2. ~Timed' => pool'.index = <<>> /\ pool'.times = Nil
  BY <1>1 DEF Fits, PoolOK, Announced
<1>3. Timed' => pool'.times \in Times
  BY <1>1, EventFields DEF PoolOK, Announced
<1>4. \A i, j \in DOMAIN pool'.index : pool'.index[i] = pool'.index[j] => i = j
  <2>1. CASE e.type = "Registered"
    <3>1. \A i \in DOMAIN pool'.index : i = e.counter \/ i \in DOMAIN pool.index
      BY <2>1
    <3>. QED BY <1>1, <2>1, <3>1 DEF PoolOK
  <2>2. CASE e.type # "Registered"
    BY <1>1, <2>2 DEF PoolOK
  <2>. QED BY <2>1, <2>2
<1>5. pool'.kind = "DGSimple" => \A i \in DOMAIN pool'.index : pool'.status[i] = "PENDING"
  <2> SUFFICES ASSUME pool.kind = "DGSimple", NEW i \in DOMAIN pool'.index PROVE pool'.status[i] = "PENDING"
    OBVIOUS
  <2>1. e.type \notin {"UpdatedRegistration", "RecipientStatusUpdated"}
    BY <1>1 DEF Fits
  <2>2. e \notin Changers(i, pool.index[i])
    BY <2>1 DEF Changers
  <2>3. pool'.status[i] = IF e.type = "Registered" /\ i = e.counter THEN "PENDING" ELSE pool.status[i]
    BY <2>2 DEF Announced
  <2>4. (e.type = "Registered" /\ i = e.counter) \/ i \in DOMAIN pool.index
    OBVIOUS
  <2>. QED BY <1>1, <2>3, <2>4 DEF PoolOK
<1>. QED BY <1>1, <1>2, <1>3, <1>4, <1>5 DEF PoolOK

\* and that the events fit the contract and the creation comes first.
LEMMA AnnouncedEvents ==
    ASSUME IInv, NEW e, Announced(e)
    PROVE  EventsFit' /\ CreationOK' /\ AppsOK'
<1>1. /\ N \in Nat /\ N' = N + 1 /\ Q'[N + 1] = e /\ N + 1 \in 1..N' /\ 1..N \subseteq 1..N'
      /\ \A i \in 1..N' : i = N + 1 \/ (i \in 1..N /\ i < N + 1 /\ Q'[i] = Q[i])
      /\ \A i \in 1..N : Q'[i] = Q[i] /\ Q[i] \in Events
      /\ e \in Events /\ e.type # "PoolCreated" /\ e \notin Creations
  BY AnnouncedQueue
<1>2. EventsFit'
  <2>1. ASSUME NEW k \in 1..N' PROVE Fits(Q[k])'
    <3>1. PICK v : v = Q'[k]
      OBVIOUS
    <3>2. Fits(v)'
      <4>1. CASE k = N + 1
        BY <1>1, <3>1, <4>1 DEF Announced
      <4>2. CASE k \in 1..N /\ Q'[k] = Q[k]
        <5>1. Fits(v) /\ v \in Events
          BY <1>1, <3>1, <4>2 DEF IInv, EventsFit
        <5>. QED BY <5>1, FitsStays
      <4>. QED BY <1>1, <4>1, <4>2
    <3>. QED BY <3>1, <3>2
  <2>. QED BY <2>1 DEF EventsFit
<1>3. db' = db /\ damaged' = damaged /\ pool.created /\ Ids' = Ids
  BY DEF Announced, Ids
<1>4. CreationOK'
  <2>1. CreationOK
    BY DEF IInv
  <2>2. \A j, k \in 1..N' : Q'[j] \in Creations /\ Q'[k] \in Creations => j = k
    BY <1>1, <2>1 DEF CreationOK
  <2>3. \A j, k \in 1..N' : Q'[k] \in Creations /\ j < k => Q'[j].type \in {"TimestampsUpdated", "PoolFunded"}
    <3> SUFFICES ASSUME NEW j \in 1..N', NEW k \in 1..N', Q'[k] \in Creations, j < k
                 PROVE  Q'[j].type \in {"TimestampsUpdated", "PoolFunded"}
      OBVIOUS
    <3>1. k \in 1..N /\ Q'[k] = Q[k]
      BY <1>1
    <3>2. j \in 1..N /\ Q'[j] = Q[j]
      BY <1>1, <3>1
    <3>. QED BY <2>1, <3>1, <3>2 DEF CreationOK
  <2>4. db.round # Nil => Without(Creations)'
    BY <1>1, <2>1 DEF CreationOK, Without
  <2>5. Without(Creations)' => Without(Creations)
    BY <1>1 DEF Without
  <2>. QED BY <1>3, <2>1, <2>2, <2>3, <2>4, <2>5 DEF CreationOK
<1>5. AppsOK'
  <2>1. \A id \in Ids : \E i \in DOMAIN pool.index : id = IdOf(i) /\ db.apps[id].recipient = pool.index[i]
    BY DEF IInv, AppsOK
  <2>2. \A i \in DOMAIN pool.index :
           i \in DOMAIN pool'.index /\ pool'.index[i] = pool.index[i] /\ IdOf(i)' = IdOf(i)
    BY AnnouncedIndex
  <2>. QED BY <1>3, <2>1, <2>2 DEF AppsOK, IInv
<1>. QED BY <1>2, <1>4, <1>5

\* The recipient that registers was not heard of.
LEMMA NewcomerIsNew ==
    ASSUME IInv, NEW e, Announced(e), e.type = "Registered"
    PROVE  /\ \A k \in 1..N : Q[k] \notin Registrations(e.counter)
           /\ \A k \in 1..N : Q[k] \notin Changers(e.counter, e.recipient) \cup Payments(e.recipient)
           /\ IdOf(e.counter)' \notin Ids
<1>1. /\ e.counter = Len(pool.index) + 1 /\ Len(pool.index) \in Nat /\ DOMAIN pool.index = 1..Len(pool.index)
      /\ pool'.index[e.counter] = e.recipient /\ pool'.kind = pool.kind
      /\ \A i \in DOMAIN pool.index : pool.index[i] # e.recipient
  BY AnnouncedIndex
<1>2. \A k \in 1..N : Fits(Q[k]) /\ Q[k] \in Events
  BY AnnouncedQueue DEF IInv, EventsFit
<1>3. \A k \in 1..N : Q[k] \notin Registrations(e.counter)
  BY <1>1, <1>2 DEF Fits, Registrations
<1>4. ASSUME NEW k \in 1..N PROVE Q[k] \notin Changers(e.counter, e.recipient) \cup Payments(e.recipient)
  <2>1. Q[k].type \in {"UpdatedRegistration", "FundsDistributed", "Allocated"} => Q[k].recipient # e.recipient
    BY <1>1, <1>2 DEF Fits
  <2>2. Q[k].type = "RecipientStatusUpdated" => e.counter \notin DOMAIN Q[k].row
    <3> SUFFICES ASSUME Q[k].type = "RecipientStatusUpdated" PROVE e.counter \notin DOMAIN Q[k].row
      OBVIOUS
    <3>1. Q[k].row \in Seq(Statuses) /\ Len(Q[k].row) <= Len(pool.index)
      BY <1>2, EventFields DEF Fits
    <3>2. DOMAIN Q[k].row = 1..Len(Q[k].row) /\ Len(Q[k].row) \in Nat
      BY <3>1
    <3>. QED BY <1>1, <3>1, <3>2
  <2>. QED BY <2>1, <2>2 DEF Changers, Payments
<1>5. IdOf(e.counter)' \notin Ids
  <2> SUFFICES ASSUME IdOf(e.counter)' \in Ids PROVE FALSE
    OBVIOUS
  <2>1. PICK i \in DOMAIN pool.index : IdOf(e.counter)' = IdOf(i)
    BY DEF IInv, AppsOK
  <2>2. IdOf(e.counter)' = IF pool.kind = "DGSimple" THEN e.recipient ELSE e.counter - 1
    BY <1>1 DEF IdOf, Announced
  <2>. QED BY <1>1, <2>1, <2>2 DEF IdOf
<1>. QED BY <1>3, <1>4, <1>5
\* A new recipient has its registration ahead; the others keep theirs.
LEMMA AnnouncedArrives ==
    ASSUME IInv, NEW e, Announced(e)
    PROVE  Arrives'
<1>1. /\ N \in Nat /\ N' = N + 1 /\ Q'[N + 1] = e /\ N + 1 \in 1..N' /\ 1..N \subseteq 1..N'
      /\ \A i \in 1..N' : i = N + 1 \/ (i \in 1..N /\ i < N + 1 /\ Q'[i] = Q[i])
      /\ e \in Events
  BY AnnouncedQueue
<1>2. /\ Len(pool.index) \in Nat /\ DOMAIN pool.index = 1..Len(pool.index)
      /\ \A i \in DOMAIN pool.index :
            i \in DOMAIN pool'.index /\ pool'.index[i] = pool.index[i] /\ IdOf(i)' = IdOf(i)
      /\ e.type # "Registered" => pool'.index = pool.index
      /\ e.type = "Registered" =>
            /\ e.counter = Len(pool.index) + 1 /\ DOMAIN pool'.index = 1..e.counter
            /\ pool'.index[e.counter] = e.recipient
  BY AnnouncedIndex
<1>3. Ids' = Ids /\ damaged' = damaged /\ Arrives
  BY DEF Announced, Ids, IInv
<1> SUFFICES ASSUME NEW i \in DOMAIN pool'.index
    PROVE  /\ \A j, k \in 1..N' : Q'[j] \in Registrations(i) /\ Q'[k] \in Registrations(i) => j = k
           /\ \A j, k \in 1..N' :
                 Q'[k] \in Registrations(i) /\ Q'[j] \in Changers(i, pool'.index[i]) \cup Payments(pool'.index[i])
                     => k < j
           /\ "apps" \notin damaged' /\ Without(Registrations(i))' => IdOf(i)' \in Ids'
           /\ IdOf(i)' \in Ids' => Without(Registrations(i))'
  BY DEF Arrives
<1> PICK r : r = pool'.index[i]
  OBVIOUS
<1>4. CASE i \in DOMAIN pool.index
  <2>1. /\ r = pool.index[i] /\ IdOf(i)' = IdOf(i) /\ e \notin Registrations(i)
    BY <1>2, <1>4 DEF Registrations
  <2>2. /\ \A j, k \in 1..N : Q[j] \in Registrations(i) /\ Q[k] \in Registrations(i) => j = k
        /\ \A j, k \in 1..N : Q[k] \in Registrations(i) /\ Q[j] \in Changers(i, r) \cup Payments(r) => k < j
        /\ "apps" \notin damaged /\ Without(Registrations(i)) => IdOf(i) \in Ids
        /\ IdOf(i) \in Ids => Without(Registrations(i))
    BY <1>3, <1>4, <2>1 DEF Arrives
  <2>3. Without(Registrations(i))' <=> Without(Registrations(i))
    BY <1>1, <2>1 DEF Without
  <2>4. \A j, k \in 1..N' : Q'[j] \in Registrations(i) /\ Q'[k] \in Registrations(i) => j = k
    BY <1>1, <2>1, <2>2
  <2>5. \A j, k \in 1..N' :
           Q'[k] \in Registrations(i) /\ Q'[j] \in Changers(i, r) \cup Payments(r) => k < j
    <3> SUFFICES ASSUME NEW j \in 1..N', NEW k \in 1..N', Q'[k] \in Registrations(i),
                        Q'[j] \in Changers(i, r) \cup Payments(r)
                 PROVE  k < j
      OBVIOUS
    <3>1. k \in 1..N /\ k < N + 1 /\ Q'[k] = Q[k]
      BY <1>1, <2>1
    <3>. QED BY <1>1, <2>2, <3>1
  <2>. QED BY <1>3, <2>1, <2>2, <2>3, <2>4, <2>5
<1>5. CASE i \notin DOMAIN pool.index
  <2>1. e.type = "Registered" /\ i = e.counter /\ r = e.recipient
    BY <1>2, <1>5
  <2>2. /\ \A k \in 1..N : Q[k] \notin Registrations(i)
        /\ \A k \in 1..N : Q[k] \notin Changers(i, r) \cup Payments(r)
        /\ IdOf(i)' \notin Ids
    BY <2>1, NewcomerIsNew
  <2>3. e \in Registrations(i) /\ e \notin Changers(i, r) \cup Payments(r)
    BY <1>1, <2>1 DEF Registrations, Changers, Payments
  <2>4. ~Without(Registrations(i))'
    BY <1>1, <2>3 DEF Without
  <2>5. \A j, k \in 1..N' : Q'[j] \in Registrations(i) /\ Q'[k] \in Registrations(i) => j = k
    BY <1>1, <2>2
  <2>6. \A j \in 1..N' : Q'[j] \notin Changers(i, r) \cup Payments(r)
    BY <1>1, <2>2, <2>3
  <2>. QED BY <1>3, <2>2, <2>4, <2>5, <2>6
<1>. QED BY <1>4, <1>5

\* The status the contract gives is the one its last event gives.
LEMMA AnnouncedStatus ==
    ASSUME IInv, NEW e, Announced(e)
    PROVE  StatusOK'
<1>1. /\ N \in Nat /\ N' = N + 1 /\ Q'[N + 1] = e /\ N + 1 \in 1..N' /\ 1..N \subseteq 1..N'
      /\ \A i \in 1..N' : i = N + 1 \/ (i \in 1..N /\ i < N + 1 /\ Q'[i] = Q[i])
      /\ e \in Events /\ Added(e)
  BY AnnouncedQueue DEF Announced
<1>2. /\ Len(pool.index) \in Nat /\ DOMAIN pool.index = 1..Len(pool.index)
      /\ \A i \in DOMAIN pool.index :
            i \in DOMAIN pool'.index /\ pool'.index[i] = pool.index[i] /\ IdOf(i)' = IdOf(i)
      /\ e.type # "Registered" => pool'.index = pool.index
      /\ e.type = "Registered" =>
            /\ e.counter = Len(pool.index) + 1 /\ DOMAIN pool'.index = 1..e.counter
            /\ pool'.index[e.counter] = e.recipient
  BY AnnouncedIndex
<1>3. Ids' = Ids /\ damaged' = damaged /\ db' = db /\ StatusOK
  BY DEF Announced, Ids, IInv
<1>4. \A i \in DOMAIN pool'.index :
          pool'.status[i] = IF e.type = "Registered" /\ i = e.counter THEN "PENDING"
                            ELSE IF e \in Changers(i, pool.index[i]) THEN Given(e, i)
                            ELSE pool.status[i]
  BY DEF Announced
<1> SUFFICES ASSUME NEW i \in DOMAIN pool'.index, NEW r, r = pool'.index[i]
    PROVE  /\ \A k \in 1..N' : IsLast(k, Givers(i, r))' => Given(Q'[k], i) = pool'.status[i]
           /\ "apps" \notin damaged' /\ Without(Givers(i, r))'
                 => IdOf(i)' \in Ids' /\ db'.apps[IdOf(i)'].status = pool'.status[i]
  <2>1. \A i \in DOMAIN pool'.index :
        /\ \A k \in 1..N' : IsLast(k, Givers(i, pool.index[i]))' => Given(Q'[k], i) = pool'.status[i]
        /\ "apps" \notin damaged' /\ Without(Givers(i, pool.index[i]))'
              => IdOf(i)' \in Ids' /\ db'.apps[IdOf(i)'].status = pool'.status[i]
    <3> TAKE i \in DOMAIN pool'.index
    <3> PICK r : r = pool'.index[i]
      OBVIOUS
    <3>1. /\ \A k \in 1..N' : IsLast(k, Givers(i, pool.index[i]))' <=> IsLast(k, Givers(i, r))'
          /\ Without(Givers(i, pool.index[i]))' <=> Without(Givers(i, r))'
      BY DEF IsLast, Without, Givers, Changers, Registrations
    <3>. QED BY <3>1
  <2>. QED BY <2>1 DEF StatusOK, Given
<1> DEFINE C == Givers(i, r)
<1>5. CASE i \in DOMAIN pool.index
  <2>1. r = pool.index[i] /\ IdOf(i)' = IdOf(i) /\ e \notin Registrations(i) /\ (e.type = "Registered" => i # e.counter)
    BY <1>2, <1>5 DEF Registrations
  <2>2. /\ \A k \in 1..N : IsLast(k, C) => Given(Q[k], i) = pool.status[i]
        /\ "apps" \notin damaged /\ Without(C) => IdOf(i) \in Ids /\ db.apps[IdOf(i)].status = pool.status[i]
    BY <1>3, <1>5, <2>1 DEF StatusOK
  <2>3. e \in C <=> e \in Changers(i, r)
    BY <2>1 DEF Givers
  <2>4. pool'.status[i] = IF e \in C THEN Given(e, i) ELSE pool.status[i]
    BY <1>4, <2>1, <2>3
  <2> HIDE DEF C
  <2>5. /\ Without(C)' => e \notin C /\ Without(C)
        /\ \A k \in 1..N' : IsLast(k, C)' =>
              IF e \in C THEN Q'[k] = e ELSE k \in 1..N /\ IsLast(k, C) /\ Q'[k] = Q[k]
    BY <1>1, LastAdded
  <2>6. \A k \in 1..N' : IsLast(k, C)' => Given(Q'[k], i) = pool'.status[i]
    BY <2>2, <2>4, <2>5
  <2>7. "apps" \notin damaged' /\ Without(C)' => IdOf(i)' \in Ids' /\ db'.apps[IdOf(i)'].status = pool'.status[i]
    BY <1>3, <2>1, <2>2, <2>4, <2>5
  <2>. QED BY <2>6, <2>7 DEF C
<1>6. CASE i \notin DOMAIN pool.index
  <2>1. e.type = "Registered" /\ i = e.counter /\ r = e.recipient
    BY <1>2, <1>6
  <2>2. e \in C
    BY <1>1, <2>1 DEF Givers, Registrations
  <2>3. Given(e, i) = "PENDING" /\ pool'.status[i] = "PENDING"
    BY <1>4, <2>1 DEF Given
  <2> HIDE DEF C
  <2>4. /\ Without(C)' => e \notin C
        /\ \A k \in 1..N' : IsLast(k, C)' => IF e \in C THEN Q'[k] = e ELSE k \in 1..N
    BY <1>1, LastAdded
  <2>. QED BY <2>2, <2>3, <2>4 DEF C
<1>. QED BY <1>5, <1>6

\* The last distribution and the last metadata are the contract's.
LEMMA AnnouncedValues ==
    ASSUME IInv, NEW e, Announced(e)
    PROVE  FinalOK' /\ MatchOK'
<1>1. N \in Nat /\ e \in Events /\ Added(e) /\ e.type # "PoolCreated"
  BY AnnouncedQueue DEF Announced
<1>2. /\ db' = db /\ damaged' = damaged /\ early' = early /\ pool'.kind = pool.kind /\ pool'.known = pool.known
      /\ pool'.meta = (IF e.type = "PoolMetadataUpdated" /\ e.meta > 0 THEN e.meta ELSE pool.meta)
      /\ pool'.final = (IF e.type = "DistributionUpdated" /\ e.readable THEN e.final ELSE pool.final)
  BY DEF Announced
<1>3. e \in Finals <=> e.type = "DistributionUpdated" /\ e.readable
  BY <1>1 DEF Finals
<1>4. e \in Documents <=> e.type = "PoolMetadataUpdated" /\ e.meta > 0
  BY <1>1 DEF Documents, Creations
<1>5. FinalOK'
  <2>1. /\ Without(Finals)' => e \notin Finals /\ Without(Finals)
        /\ \A k \in 1..N' : IsLast(k, Finals)' =>
              IF e \in Finals THEN Q'[k] = e ELSE k \in 1..N /\ IsLast(k, Finals) /\ Q'[k] = Q[k]
    BY <1>1, LastAdded
  <2>2. pool'.final = IF e \in Finals THEN e.final ELSE pool.final
    BY <1>2, <1>3
  <2>3. \A k \in 1..N' : IsLast(k, Finals)' => Q'[k].final = pool'.final
    BY <2>1, <2>2 DEF IInv, FinalOK
  <2>4. "final" \notin damaged' /\ Without(Finals)' => FinalNow' = pool'.final
    BY <1>2, <2>1, <2>2 DEF IInv, FinalOK, FinalNow
  <2>. QED BY <2>3, <2>4 DEF FinalOK
<1>6. MatchOK'
  <2>1. /\ Without(Documents)' => e \notin Documents /\ Without(Documents)
        /\ \A k \in 1..N' : IsLast(k, Documents)' =>
              IF e \in Documents THEN Q'[k] = e ELSE k \in 1..N /\ IsLast(k, Documents) /\ Q'[k] = Q[k]
    BY <1>1, LastAdded
  <2>2. pool'.meta = IF e \in Documents THEN e.meta ELSE pool.meta
    BY <1>2, <1>4
  <2>3. \A k \in 1..N' : IsLast(k, Documents)' => Q'[k].meta = pool'.meta
    BY <2>1, <2>2 DEF IInv, MatchOK
  <2>4. Matched' /\ db'.round # Nil /\ Without(Documents)' => db'.round.match = pool'.meta
    BY <1>2, <2>1, <2>2 DEF IInv, MatchOK, Matched
  <2>. QED BY <2>3, <2>4 DEF MatchOK
<1>. QED BY <1>5, <1>6

\* The last times are the contract's, and an old creation reads no longer alone.
LEMMA AnnouncedTimings ==
    ASSUME IInv, NEW e, Announced(e)
    PROVE  TimesOK' /\ StoredOK'
<1>1. /\ N \in Nat /\ N' = N + 1 /\ Q'[N + 1] = e /\ N + 1 \in 1..N' /\ 1..N \subseteq 1..N'
      /\ \A i \in 1..N' : i = N + 1 \/ (i \in 1..N /\ i < N + 1 /\ Q'[i] = Q[i])
      /\ e \in Events /\ Added(e) /\ e.type # "PoolCreated" /\ e \notin Creations
  BY AnnouncedQueue DEF Announced
<1>2. /\ db' = db /\ damaged' = damaged /\ early' = early /\ pool'.kind = pool.kind
      /\ handled' = handled /\ cache' = cache /\ half' = half
      /\ pool'.times = IF e.type = "TimestampsUpdated" THEN e.times ELSE pool.times
  BY DEF Announced
<1>3. e \in TimesEvents <=> e.type = "TimestampsUpdated"
  BY <1>1 DEF TimesEvents
<1>4. (Reread' <=> Reread) /\ (Timed' <=> Timed)
  BY <1>2 DEF Reread, Timed
<1>5. e \notin TimesEvents => ExpectedTimings' = ExpectedTimings
  BY <1>2, <1>3 DEF ExpectedTimings
<1>6. TimesOK'
  <2>1. /\ Without(TimesEvents)' => e \notin TimesEvents /\ Without(TimesEvents)
        /\ \A k \in 1..N' : IsLast(k, TimesEvents)' =>
              IF e \in TimesEvents THEN Q'[k] = e ELSE k \in 1..N /\ IsLast(k, TimesEvents) /\ Q'[k] = Q[k]
    BY <1>1, LastAdded
  <2>2. pool'.times = IF e \in TimesEvents THEN e.times ELSE pool.times
    BY <1>2, <1>3
  <2>3. \A k \in 1..N' : IsLast(k, TimesEvents)' => Q'[k].times = pool'.times
    BY <2>1, <2>2 DEF IInv, TimesOK
  <2>4. db'.round # Nil /\ Reread' /\ Without(TimesEvents)' => db'.round.timings = ExpectedTimings'
    BY <1>2, <1>4, <1>5, <2>1 DEF IInv, TimesOK
  <2>5. Without(Creations) => Without(Creations)'
    BY <1>1 DEF Without
  <2>6. Timed' /\ ~handled' /\ Without(TimesEvents)' => Without(Creations)'
    BY <1>2, <1>4, <2>1, <2>5 DEF IInv, TimesOK
  <2>. QED BY <2>3, <2>4, <2>6 DEF TimesOK
<1>7. StoredOK'
  <2>1. ASSUME NEW k \in 1..N', ReadsLast(k)' PROVE k \in 1..N /\ ReadsLast(k) /\ e \notin TimesEvents
    <3>1. k \in 1..N /\ k < N + 1 /\ Q'[k] = Q[k] /\ Q[k] \in Creations
      BY <1>1, <2>1 DEF ReadsLast
    <3>2. e \notin TimesEvents
      BY <1>1, <2>1, <3>1 DEF ReadsLast
    <3>3. \A j \in 1..N : k < j => Q[j] \notin TimesEvents
      BY <1>1, <2>1 DEF ReadsLast
    <3>. QED BY <3>1, <3>2, <3>3 DEF ReadsLast
  <2>. QED BY <1>2, <1>4, <1>5, <2>1 DEF IInv, StoredOK
<1>. QED BY <1>6, <1>7

\* The sums go on with the new event.
LEMMA AnnouncedSums ==
    ASSUME IInv, NEW e, Announced(e)
    PROVE  FundsOK' /\ SharesOK' /\ PayoutsOK'
<1>1. /\ N \in Nat /\ N' = N + 1 /\ Q'[N + 1] = e
      /\ \A i \in 1..N' : i = N + 1 \/ (i \in 1..N /\ i < N + 1 /\ Q'[i] = Q[i])
      /\ e \in Events /\ e.type # "PoolCreated"
  BY AnnouncedQueue DEF Announced
<1>2. /\ db' = db /\ damaged' = damaged /\ pool'.kind = pool.kind /\ pool'.known = pool.known
      /\ pool'.funds = (IF e.type = "PoolFunded" THEN pool.funds + e.amount ELSE pool.funds)
      /\ pool'.shares = pool.shares + ShareOf(e)
      /\ pool.funds \in Nat /\ pool.shares \in Nat /\ pool'.funds \in Nat /\ pool'.shares \in Nat
  BY DEF Announced, IInv, VarTypes, PoolType
<1>3. pool'.funds = FundedAfter(pool.funds, e)
  BY <1>1, <1>2 DEF FundedAfter
<1>4. FundsOK'
  <2> SUFFICES ASSUME "funded" \notin damaged, pool.known PROVE \E h : FundsRun(h)'
    BY <1>2 DEF FundsOK
  <2>1. PICK h : FundsRun(h)
    BY DEF IInv, FundsOK
  <2> PICK g : g = [i \in 0..(N + 1) |-> IF i = N + 1 THEN pool'.funds ELSE h[i]]
    OBVIOUS
  <2>2. /\ h \in [0..N -> Nat] /\ h[N] = pool.funds
        /\ db.round # Nil => h[0] = db.round.funded
        /\ \A k \in 1..N : h[k] = FundedAfter(h[k - 1], Q[k])
    BY <2>1 DEF FundsRun
  <2>3. g \in [0..N' -> Nat] /\ g[N'] = pool'.funds /\ g[0] = h[0]
    BY <1>1, <1>2, <2>2
  <2>4. ASSUME NEW k \in 1..N' PROVE g[k] = FundedAfter(g[k - 1], Q'[k])
    <3>1. CASE k = N + 1
      <4>1. g[k] = pool'.funds /\ g[k - 1] = pool.funds
        BY <1>1, <2>2, <3>1
      <4>. QED BY <1>1, <1>3, <3>1, <4>1
    <3>2. CASE k \in 1..N /\ Q'[k] = Q[k]
      <4>1. g[k] = h[k] /\ g[k - 1] = h[k - 1]
        BY <1>1, <3>2
      <4>. QED BY <2>2, <3>2, <4>1
    <3>. QED BY <1>1, <3>1, <3>2
  <2>5. FundsRun(g)'
    BY <1>2, <2>2, <2>3, <2>4 DEF FundsRun, FundedAfter
  <2>. QED BY <2>5
<1>5. SharesOK'
  <2> SUFFICES ASSUME "distributed" \notin damaged, pool.kind = "DGLite" => pool.known PROVE \E h : SharesRun(h)'
    BY <1>2 DEF SharesOK
  <2>1. PICK h : SharesRun(h)
    BY DEF IInv, SharesOK
  <2> PICK g : g = [i \in 0..(N + 1) |-> IF i = N + 1 THEN pool'.shares ELSE h[i]]
    OBVIOUS
  <2>2. /\ h \in [0..N -> Nat] /\ h[N] = pool.shares /\ h[0] = DistributedNow
        /\ \A k \in 1..N : h[k] = h[k - 1] + ShareOf(Q[k])
    BY <2>1 DEF SharesRun
  <2>3. g \in [0..N' -> Nat] /\ g[N'] = pool'.shares /\ g[0] = h[0]
    BY <1>1, <1>2, <2>2
  <2>4. ASSUME NEW k \in 1..N' PROVE g[k] = g[k - 1] + ShareOf(Q'[k])
    <3>1. CASE k = N + 1
      <4>1. g[k] = pool'.shares /\ g[k - 1] = pool.shares
        BY <1>1, <2>2, <3>1
      <4>. QED BY <1>1, <1>2, <3>1, <4>1
    <3>2. CASE k \in 1..N /\ Q'[k] = Q[k]
      <4>1. g[k] = h[k] /\ g[k - 1] = h[k - 1]
        BY <1>1, <3>2
      <4>. QED BY <2>2, <3>2, <4>1
    <3>. QED BY <1>1, <3>1, <3>2
  <2>5. DistributedNow' = DistributedNow
    BY <1>2 DEF DistributedNow
  <2>6. SharesRun(g)'
    BY <2>2, <2>3, <2>4, <2>5 DEF SharesRun, ShareOf
  <2>. QED BY <2>6
<1>6. PayoutsOK'
  <2>1. Paid' = Paid
    BY <1>2 DEF Paid
  <2>. QED BY <1>2, <2>1 DEF IInv, PayoutsOK
<1>. QED BY <1>4, <1>5, <1>6

\* A direct allocation has an id above all others.
LEMMA AnnouncedDonations ==
    ASSUME IInv, NEW e, Announced(e)
    PROVE  DonationsOK'
<1>1. /\ N \in Nat /\ N' = N + 1 /\ Q'[N + 1] = e
      /\ \A i \in 1..N' : i = N + 1 \/ (i \in 1..N /\ i < N + 1 /\ Q'[i] = Q[i])
      /\ \A i \in 1..N : Q[i] \in Events
      /\ e \in Events
  BY AnnouncedQueue DEF Announced
<1>2. db' = db /\ emitted' = emitted + 1 /\ emitted \in Nat /\ (e.type = "DirectAllocated" => e.id = emitted)
  BY DEF Announced
<1>3. DonationsOK /\ EventsFit /\ \A d \in db.donations : d.id \in Nat
  BY DEF IInv, DbOK
<1>4. \A d \in db.donations : d.id < emitted'
  BY <1>2, <1>3 DEF DonationsOK
<1>5. \A k \in 1..N : Q[k] \in Directs => Q[k].id < emitted
  BY <1>1, <1>3 DEF EventsFit, Fits, Directs
<1>6. e \in Directs => e.id = emitted
  BY <1>2 DEF Directs
<1>7. ASSUME NEW k \in 1..N', Q'[k] \in Directs
      PROVE  /\ \A d \in db.donations : d.id < Q'[k].id
             /\ \A j \in 1..N' : k < j /\ Q'[j] \in Directs => Q'[k].id < Q'[j].id
  <2>1. CASE k = N + 1
    BY <1>1, <1>3, <1>6, <1>7, <2>1 DEF DonationsOK
  <2>2. CASE k \in 1..N /\ Q'[k] = Q[k]
    BY <1>1, <1>3, <1>5, <1>6, <1>7, <2>2 DEF DonationsOK
  <2>. QED BY <1>1, <2>1, <2>2
<1>. QED BY <1>2, <1>3, <1>4, <1>7 DEF DonationsOK

\* All parts together.
LEMMA AnnouncedKeeps ==
    ASSUME IInv, NEW e, Announced(e)
    PROVE  IInv'
BY AnnouncedTypes, AnnouncedPool, AnnouncedEvents, AnnouncedArrives, AnnouncedStatus, AnnouncedValues,
   AnnouncedTimings, AnnouncedSums, AnnouncedDonations DEF IInv
-----------------------------------------------------------------------------
(* The creation. *)

\* The events in each case.
Announcement(f, m, s) ==
    /\ s \in Seq(Events) /\ Len(s) \in Nat \ {0}
    /\ s[Len(s)].type = "PoolCreated" /\ s[Len(s)].meta = m
    /\ \A i \in 1..Len(s) : i < Len(s) => s[i].type \in {"TimestampsUpdated", "PoolFunded"}
    /\ \A i \in 1..Len(s) : s[i].type = "TimestampsUpdated" => s[i].times = 1 /\ Timed
    /\ Timed => s[1].type = "TimestampsUpdated"
    /\ \E h \in [0..Len(s) -> Nat] :
          h[Len(s)] = f /\ h[0] = 0 /\ \A k \in 1..Len(s) : h[k] = FundedAfter(h[k - 1], s[k])

\* A contract and the events that announce it.
Born(f, m) ==
    /\ ~pool.created /\ f \in Nat /\ m \in Nat
    /\ pool' \in PoolType /\ pool'.created /\ pool'.kind = pool.kind /\ pool'.known = pool.known
    /\ pool'.times = (IF Timed THEN 1 ELSE Nil) /\ pool'.funds = f /\ pool'.meta = m
    /\ pool'.final = Nil /\ pool'.index = <<>> /\ Len(pool'.status) = 0 /\ pool'.shares = 0
    /\ handled' = handled /\ skipped' = skipped /\ half' = half /\ cache' = cache /\ db' = db
    /\ early' = early /\ damaged' = damaged /\ failed' = failed /\ lost' = lost /\ emitted' = emitted
    /\ feed' \in Seq(Events) /\ Q' \in Seq(Events)
    /\ Announcement(f, m, Q')

\* Short sequences, put together.
LEMMA ShortConcat ==
    ASSUME NEW S, NEW a \in S, NEW b \in S, NEW c \in S
    PROVE  /\ <<a>> \o <<b>> = <<a, b>> /\ <<a, b>> \o <<c>> = <<a, b, c>>
           /\ <<a>> \o <<>> = <<a>> /\ <<>> \o <<a>> = <<a>> /\ <<>> \o <<>> = <<>>
<1>1. <<a>> \in Seq(S) /\ <<a, b>> \in Seq(S) /\ <<>> \in Seq(S)
  OBVIOUS
<1>2. Append(<<a>>, b) = <<a>> \o <<b>> /\ Append(<<a, b>>, c) = <<a, b>> \o <<c>>
  BY <1>1, AppendIsConcat
<1>3. Append(<<a>>, b) = <<a, b>>
  <2>1. PICK u, v : u = Append(<<a>>, b) /\ v = <<a, b>>
    OBVIOUS
  <2>2. u \in Seq(S) /\ v \in Seq(S) /\ Len(u) = Len(v)
    BY <1>1, <2>1
  <2>3. \A i \in 1..Len(u) : u[i] = v[i]
    BY <1>1, <2>1
  <2>. QED BY <2>1, <2>2, <2>3, SeqEqual
<1>4. Append(<<a, b>>, c) = <<a, b, c>>
  <2>1. PICK u, v : u = Append(<<a, b>>, c) /\ v = <<a, b, c>>
    OBVIOUS
  <2>2. u \in Seq(S) /\ v \in Seq(S) /\ Len(u) = Len(v)
    BY <1>1, <2>1
  <2>3. \A i \in 1..Len(u) : u[i] = v[i]
    BY <1>1, <2>1
  <2>. QED BY <2>1, <2>2, <2>3, SeqEqual
<1>. QED BY <1>1, <1>2, <1>3, <1>4, ConcatEmptySeq

\* The events of the creation: times and funds, if any, then the pool.
LEMMA CreateAnnounces ==
    ASSUME NEW f \in Nat, NEW m \in Nat
    PROVE  Announcement(f, m,
             (IF Timed THEN <<[type |-> "TimestampsUpdated", times |-> 1]>> ELSE <<>>)
             \o (IF f > 0 THEN <<[type |-> "PoolFunded", amount |-> f]>> ELSE <<>>)
             \o <<[type |-> "PoolCreated", amount |-> f, meta |-> m]>>)
<1>1. PICK t : t = [type |-> "TimestampsUpdated", times |-> 1]
  OBVIOUS
<1>2. PICK p : p = [type |-> "PoolFunded", amount |-> f]
  OBVIOUS
<1>3. PICK c : c = [type |-> "PoolCreated", amount |-> f, meta |-> m]
  OBVIOUS
<1>4. /\ t \in Events /\ t.type = "TimestampsUpdated" /\ t.times = 1
      /\ p \in Events /\ p.type = "PoolFunded" /\ p.amount = f
      /\ c \in Events /\ c.type = "PoolCreated" /\ c.amount = f /\ c.meta = m
  BY <1>1, <1>2, <1>3 DEF Events, AlloEvent, StrategyEvent, Times
<1>5. \A n \in Nat : /\ FundedAfter(n, t) = n /\ FundedAfter(n, p) = n + f /\ FundedAfter(n, c) = f
  BY <1>4 DEF FundedAfter
<1> SUFFICES Announcement(f, m, (IF Timed THEN <<t>> ELSE <<>>) \o (IF f > 0 THEN <<p>> ELSE <<>>) \o <<c>>)
  BY <1>1, <1>2, <1>3
<1>6. CASE Timed /\ f > 0
  <2> PICK s : s = <<t, p, c>>
    OBVIOUS
  <2>1. <<t>> \o <<p>> \o <<c>> = s
    BY <1>4, ShortConcat
  <2>2. s \in Seq(Events) /\ Len(s) = 3 /\ s[1] = t /\ s[2] = p /\ s[3] = c
    BY <1>4
  <2>3. \E h \in [0..3 -> Nat] : h[3] = f /\ h[0] = 0 /\ \A k \in 1..3 : h[k] = FundedAfter(h[k - 1], s[k])
    <3> PICK h : h = [i \in 0..3 |-> IF i < 2 THEN 0 ELSE f]
      OBVIOUS
    <3>1. h \in [0..3 -> Nat] /\ h[0] = 0 /\ h[1] = 0 /\ h[2] = f /\ h[3] = f
      OBVIOUS
    <3>. QED BY <1>5, <2>2, <3>1
  <2>4. Announcement(f, m, s)
    BY <1>4, <1>6, <2>2, <2>3 DEF Announcement
  <2>. QED BY <1>6, <2>1, <2>4
<1>7. CASE Timed /\ ~(f > 0)
  <2> PICK s : s = <<t, c>>
    OBVIOUS
  <2>1. <<t>> \o <<>> \o <<c>> = s
    BY <1>4, ShortConcat
  <2>2. s \in Seq(Events) /\ Len(s) = 2 /\ s[1] = t /\ s[2] = c
    BY <1>4
  <2>3. \E h \in [0..2 -> Nat] : h[2] = f /\ h[0] = 0 /\ \A k \in 1..2 : h[k] = FundedAfter(h[k - 1], s[k])
    <3> PICK h : h = [i \in 0..2 |-> 0]
      OBVIOUS
    <3>1. h \in [0..2 -> Nat] /\ h[0] = 0 /\ h[1] = 0 /\ h[2] = 0 /\ f = 0
      BY <1>7
    <3>. QED BY <1>5, <2>2, <3>1
  <2>4. Announcement(f, m, s)
    BY <1>4, <1>7, <2>2, <2>3 DEF Announcement
  <2>. QED BY <1>7, <2>1, <2>4
<1>8. CASE ~Timed /\ f > 0
  <2> PICK s : s = <<p, c>>
    OBVIOUS
  <2>1. <<>> \o <<p>> \o <<c>> = s
    BY <1>4, ShortConcat
  <2>2. s \in Seq(Events) /\ Len(s) = 2 /\ s[1] = p /\ s[2] = c
    BY <1>4
  <2>3. \E h \in [0..2 -> Nat] : h[2] = f /\ h[0] = 0 /\ \A k \in 1..2 : h[k] = FundedAfter(h[k - 1], s[k])
    <3> PICK h : h = [i \in 0..2 |-> IF i < 1 THEN 0 ELSE f]
      OBVIOUS
    <3>1. h \in [0..2 -> Nat] /\ h[0] = 0 /\ h[1] = f /\ h[2] = f
      OBVIOUS
    <3>. QED BY <1>5, <2>2, <3>1
  <2>4. Announcement(f, m, s)
    BY <1>4, <1>8, <2>2, <2>3 DEF Announcement
  <2>. QED BY <1>8, <2>1, <2>4
<1>9. CASE ~Timed /\ ~(f > 0)
  <2> PICK s : s = <<c>>
    OBVIOUS
  <2>1. <<>> \o <<>> \o <<c>> = s
    BY <1>4, ShortConcat
  <2>2. s \in Seq(Events) /\ Len(s) = 1 /\ s[1] = c
    BY <1>4
  <2>3. \E h \in [0..1 -> Nat] : h[1] = f /\ h[0] = 0 /\ \A k \in 1..1 : h[k] = FundedAfter(h[k - 1], s[k])
    <3> PICK h : h = [i \in 0..1 |-> 0]
      OBVIOUS
    <3>1. h \in [0..1 -> Nat] /\ h[0] = 0 /\ h[1] = 0 /\ f = 0
      BY <1>9
    <3>. QED BY <1>5, <2>2, <3>1
  <2>4. Announcement(f, m, s)
    BY <1>4, <1>9, <2>2, <2>3 DEF Announcement
  <2>. QED BY <1>9, <2>1, <2>4
<1>. QED BY <1>6, <1>7, <1>8, <1>9

\* The creation of the pool brings a new contract with these events.
LEMMA CreateBorn ==
    ASSUME IInv, Create
    PROVE  \E f, m : Born(f, m)
<1>1. PICK f \in 0..1, m \in 0..1 :
        /\ ~pool.created
        /\ pool' = [pool EXCEPT !.created = TRUE, !.funds = f, !.meta = m,
                                !.times = IF Timed THEN 1 ELSE Nil]
        /\ feed' = (IF Timed THEN <<[type |-> "TimestampsUpdated", times |-> 1]>> ELSE <<>>)
                   \o (IF f > 0 THEN <<[type |-> "PoolFunded", amount |-> f]>> ELSE <<>>)
                   \o <<[type |-> "PoolCreated", amount |-> f, meta |-> m]>>
  BY DEF Create
<1>2. /\ handled' = handled /\ skipped' = skipped /\ half' = half /\ cache' = cache /\ db' = db
      /\ early' = early /\ damaged' = damaged /\ failed' = failed /\ lost' = lost /\ emitted' = emitted
  BY DEF Create, workVars
<1>3. /\ VarTypes /\ PoolOK /\ Q = <<>> /\ pool.index = <<>> /\ Len(pool.status) = 0
      /\ pool.final = Nil /\ pool.shares = 0 /\ pool \in PoolType
  BY <1>1 DEF IInv, PoolOK, VarTypes
<1>4. f \in Nat /\ m \in Nat
  OBVIOUS
<1>5. Announcement(f, m, feed')
  BY <1>1, <1>4, CreateAnnounces
<1>6. skipped = <<>>
  <2>1. Len(Q) = 0 /\ N = 0 /\ N = Len(skipped) + Len(feed) /\ Len(skipped) \in Nat /\ Len(feed) \in Nat
    BY <1>3, QFacts DEF N
  <2>2. Len(skipped) = 0
    BY <2>1
  <2>. QED BY <1>3, <2>2 DEF VarTypes
<1>7. Q' = feed' /\ N' = Len(feed')
  <2>1. feed' \in Seq(Events)
    BY <1>5 DEF Announcement
  <2>2. Q' = feed'
    BY <1>2, <1>6, <2>1, ConcatEmptySeq DEF Q
  <2>. QED BY <2>2 DEF N
<1>8. PICK t : t = IF Timed THEN 1 ELSE Nil
  OBVIOUS
<1>9. t \in Times \cup {Nil}
  BY <1>8 DEF Times
<1>10. /\ pool' \in PoolType /\ pool'.created /\ pool'.kind = pool.kind /\ pool'.known = pool.known
       /\ pool'.times = t /\ pool'.funds = f /\ pool'.meta = m
       /\ pool'.final = Nil /\ pool'.index = <<>> /\ Len(pool'.status) = 0 /\ pool'.shares = 0
  <2>1. pool' = [pool EXCEPT !.created = TRUE, !.funds = f, !.meta = m, !.times = t]
    BY <1>1, <1>8
  <2>2. \A b \in BOOLEAN :
           LET new == [pool EXCEPT !.created = b, !.funds = f, !.meta = m, !.times = t] IN
           /\ new \in PoolType /\ new.created = b /\ new.kind = pool.kind /\ new.known = pool.known
           /\ new.times = t /\ new.funds = f /\ new.meta = m
           /\ new.final = pool.final /\ new.index = pool.index /\ new.status = pool.status
           /\ new.shares = pool.shares
    BY <1>3, <1>4, <1>9 DEF PoolType
  <2>3. LET new == [pool EXCEPT !.created = TRUE, !.funds = f, !.meta = m, !.times = t] IN
           /\ new \in PoolType /\ new.created = TRUE /\ new.kind = pool.kind /\ new.known = pool.known
           /\ new.times = t /\ new.funds = f /\ new.meta = m
           /\ new.final = pool.final /\ new.index = pool.index /\ new.status = pool.status
           /\ new.shares = pool.shares
    BY <2>2, Zenon
  <2>. QED BY <1>3, <2>1, <2>3, Zenon
<1>11. feed' \in Seq(Events) /\ Q' \in Seq(Events) /\ Announcement(f, m, Q')
  BY <1>5, <1>7 DEF Announcement
<1>12. Born(f, m)
  BY <1>1, <1>2, <1>4, <1>8, <1>10, <1>11 DEF Born
<1>. QED BY <1>12

\* They say all that the contract has.
LEMMA BornKeeps ==
    ASSUME IInv, NEW f, NEW m, Born(f, m)
    PROVE  IInv'
<1>1. /\ pool' \in PoolType /\ pool'.created /\ pool'.kind = pool.kind /\ pool'.known = pool.known
      /\ pool'.times = (IF Timed THEN 1 ELSE Nil) /\ pool'.funds = f /\ pool'.meta = m
      /\ pool'.final = Nil /\ pool'.index = <<>> /\ Len(pool'.status) = 0 /\ pool'.shares = 0
      /\ handled' = handled /\ skipped' = skipped /\ half' = half /\ cache' = cache /\ db' = db
      /\ early' = early /\ damaged' = damaged /\ failed' = failed /\ lost' = lost /\ emitted' = emitted
      /\ feed' \in Seq(Events) /\ Q' \in Seq(Events) /\ (Timed' <=> Timed)
  BY DEF Born, Timed
<1>2. /\ N' \in Nat \ {0} /\ N' \in 1..N' /\ Q'[N'].type = "PoolCreated" /\ Q'[N'].meta = m
      /\ \A i \in 1..N' : Q'[i] \in Events
      /\ \A i \in 1..N' : i < N' => Q'[i].type \in {"TimestampsUpdated", "PoolFunded"}
      /\ \A i \in 1..N' : Q'[i].type = "TimestampsUpdated" => Q'[i].times = 1 /\ Timed
      /\ Timed => Q'[1].type = "TimestampsUpdated"
      /\ \A i \in 1..N' : i = N' \/ i < N'
  <2>1. N' = Len(Q') /\ Announcement(f, m, Q')
    BY DEF N, Born
  <2>2. N' \in Nat \ {0} /\ \A i \in 1..N' : Q'[i] \in Events
    BY <1>1, <2>1 DEF Announcement
  <2>3. N' \in 1..N' /\ \A i \in 1..N' : i = N' \/ i < N'
    BY <2>2
  <2>. QED BY <2>1, <2>2, <2>3 DEF Announcement
<1>3. /\ db.round = Nil /\ cache = Nil /\ half = Nil /\ damaged = {} /\ ~early
      /\ db.apps = <<>> /\ db.payouts = <<>> /\ db.donations = {} /\ Ids = {}
  BY DEF IInv, PoolOK, DbOK, Born, Ids
<1>4. Q'[N'] \in Creations /\ \A i \in 1..N' : Q'[i] \in Creations => i = N'
  BY <1>2 DEF Creations
<1>5. \A i \in 1..N' : Q'[i].type \in {"PoolCreated", "TimestampsUpdated", "PoolFunded"}
  BY <1>2
<1>6. DOMAIN pool'.index = {} /\ Ids' = {}
  BY <1>1, <1>3 DEF Ids
<1>7. VarTypes' /\ DbOK' /\ BuildOK'
  BY <1>1, <1>3 DEF IInv, VarTypes, DbOK, Ids, BuildOK
<1>8. PoolOK'
  <2>1. 1 \in Times
    BY DEF Times
  <2>2. Len(pool'.index) = 0
    BY <1>1
  <2>. QED BY <1>1, <1>6, <2>1, <2>2 DEF PoolOK
<1>9. EventsFit'
  <2>1. ASSUME NEW k \in 1..N' PROVE Fits(Q[k])'
    BY <1>1, <1>2, <1>5 DEF Fits, Timed
  <2>. QED BY <2>1 DEF EventsFit
<1>10. CreationOK'
  <2>1. ~Without(Creations)'
    BY <1>2, <1>4 DEF Without
  <2>2. \A j, k \in 1..N' : Q'[k] \in Creations /\ j < k => Q'[j].type \in {"TimestampsUpdated", "PoolFunded"}
    BY <1>2, <1>4
  <2>3. \A j, k \in 1..N' : Q'[j] \in Creations /\ Q'[k] \in Creations => j = k
    BY <1>4
  <2>. QED BY <1>1, <1>3, <2>1, <2>2, <2>3 DEF CreationOK
<1>11. AppsOK' /\ Arrives' /\ StatusOK'
  BY <1>1, <1>3, <1>6 DEF AppsOK, Arrives, StatusOK
<1>12. FinalOK'
  <2>1. \A k \in 1..N' : Q'[k] \notin Finals
    BY <1>5 DEF Finals
  <2>. QED BY <1>1, <1>3, <2>1 DEF FinalOK, FinalNow, IsLast
<1>13. MatchOK'
  <2>1. \A k \in 1..N' : Q'[k] \in Documents => k = N'
    BY <1>4, <1>5 DEF Documents
  <2>. QED BY <1>1, <1>2, <1>3, <2>1 DEF MatchOK, IsLast
<1>14. TimesOK'
  <2>1. \A k \in 1..N' : Q'[k] \in TimesEvents => Q'[k].times = pool'.times
    BY <1>1, <1>2 DEF TimesEvents
  <2>2. Timed' => ~Without(TimesEvents)'
    BY <1>1, <1>2 DEF Without, TimesEvents
  <2>. QED BY <1>1, <1>3, <2>1, <2>2 DEF TimesOK, IsLast
<1>15. StoredOK'
  BY <1>1, <1>3 DEF StoredOK
<1>16. FundsOK'
  <2>1. PICK h \in [0..N' -> Nat] :
          h[N'] = f /\ h[0] = 0 /\ \A k \in 1..N' : h[k] = FundedAfter(h[k - 1], Q'[k])
    BY DEF Born, Announcement, N
  <2>2. FundsRun(h)'
    BY <1>1, <1>3, <2>1 DEF FundsRun, FundedAfter
  <2>. QED BY <2>2 DEF FundsOK
<1>17. SharesOK'
  <2> PICK h : h = [i \in 0..N' |-> 0]
    OBVIOUS
  <2>1. \A k \in 1..N' : ShareOf(Q'[k]) = 0
    BY <1>5 DEF ShareOf
  <2>2. h \in [0..N' -> Nat] /\ h[N'] = 0 /\ h[0] = 0 /\ \A k \in 1..N' : h[k] = h[k - 1] + ShareOf(Q'[k])
    BY <1>2, <2>1
  <2>3. SharesRun(h)'
    BY <1>1, <1>3, <2>2 DEF SharesRun, DistributedNow, ShareOf
  <2>. QED BY <2>3 DEF SharesOK
<1>18. PayoutsOK' /\ DonationsOK'
  <2>1. \A k \in 1..N' : Q'[k] \notin Directs
    BY <1>5 DEF Directs
  <2>. QED BY <1>1, <1>3, <2>1 DEF PayoutsOK, DonationsOK
<1>. QED BY <1>7, <1>8, <1>9, <1>10, <1>11, <1>12, <1>13, <1>14, <1>15, <1>16, <1>17, <1>18 DEF IInv
-----------------------------------------------------------------------------
(* What taking an event keeps. *)

\* The queue with one event less.
LEMMA TakenQueue ==
    ASSUME IInv, NEW e, NEW k, Taken(e, k)
    PROVE  /\ N \in Nat /\ N' \in Nat /\ N' = N - 1 /\ k \in 1..N /\ Q[k] = e /\ e \in Events /\ Fits(e)
           /\ pool.created
           /\ NeedsHandler(e) => k = 1 /\ handled
           /\ \A i \in 1..N : Q[i] \in Events
           /\ \A j \in 1..N : j < k => Q[j] \in StrategyEvent
           /\ \A i \in 1..N' : Up(k, i) \in 1..N /\ Up(k, i) # k /\ Q'[i] = Q[Up(k, i)] /\ Q'[i] \in Events
           /\ \A i, j \in 1..N' : i < j <=> Up(k, i) < Up(k, j)
           /\ \A i, j \in 1..N' : Up(k, i) = Up(k, j) => i = j
           /\ \A m \in 1..N : m # k => \E i \in 1..N' : Up(k, i) = m
<1>1. N \in Nat /\ \A i \in 1..N : Q[i] \in Events
  BY QFacts DEF IInv
<1>2. Removed(k) /\ k \in 1..N /\ Q[k] = e /\ First(k) /\ e \in Events /\ (NeedsHandler(e) => handled)
  BY DEF Taken
<1>3. Fits(e)
  BY <1>2 DEF IInv, EventsFit
<1>4. pool.created
  BY QueuedIsCreated DEF Taken, IInv
<1>5. /\ N' \in Nat
      /\ \A i \in 1..N' : Up(k, i) \in 1..N /\ Up(k, i) # k /\ Q'[i] = Q[Up(k, i)]
      /\ \A i, j \in 1..N' : i < j <=> Up(k, i) < Up(k, j)
      /\ \A i, j \in 1..N' : Up(k, i) = Up(k, j) => i = j
      /\ \A m \in 1..N : m # k => \E i \in 1..N' : Up(k, i) = m
  BY <1>1, <1>2, UpFacts
<1>6. N' = N - 1
  BY <1>2 DEF Removed
<1>7. (NeedsHandler(e) => k = 1 /\ handled) /\ \A j \in 1..N : j < k => Q[j] \in StrategyEvent
  BY <1>2 DEF First
<1>. QED BY <1>1, <1>2, <1>3, <1>4, <1>5, <1>6, <1>7

\* The last event of a class of strategy events, or of a class of Allo's.
LEMMA TakenLast ==
    ASSUME IInv, NEW e, NEW k, Taken(e, k), NEW C,
           (\A v \in C : v.type \in AlloEvents) \/ (\A v \in C : v.type \notin AlloEvents)
    PROVE  /\ \A i \in 1..N' : IsLast(i, C)' => \E m \in 1..N : IsLast(m, C) /\ Q'[i] = Q[m]
           /\ Without(C)' => IF e \in C THEN k \in 1..N /\ Q[k] = e /\ IsLast(k, C) ELSE Without(C)
           /\ Without(C) => Without(C)'
<1>1. /\ N \in Nat /\ Removed(k) /\ Q[k] = e /\ k \in 1..N
      /\ NeedsHandler(e) => k = 1
      /\ \A j \in 1..N : j < k => Q[j] \in StrategyEvent
      /\ \A i \in 1..N' : Up(k, i) \in 1..N /\ Q'[i] = Q[Up(k, i)]
  BY TakenQueue DEF Taken
<1>2. Q[k] \in C => \A j \in 1..N : j < k => Q[j] \notin C
  <2>1. CASE \A v \in C : v.type \in AlloEvents
    BY <1>1, <2>1, StrategyTypes
  <2>2. CASE \A v \in C : v.type \notin AlloEvents
    BY <1>1, <2>2 DEF NeedsHandler
  <2>. QED BY <2>1, <2>2
<1>3. Without(C) => Without(C)'
  BY <1>1 DEF Without
<1>. QED BY <1>1, <1>2, <1>3, LastRemoved

\* The classes in question.
LEMMA ClassTypes ==
    /\ \A v \in Creations : v.type \in AlloEvents
    /\ \A v \in Documents : v.type \in AlloEvents
    /\ \A v \in TimesEvents : v.type \notin AlloEvents
    /\ \A v \in Finals : v.type \notin AlloEvents
    /\ \A i : \A v \in Registrations(i) : v.type \notin AlloEvents
    /\ \A i, r : \A v \in Givers(i, r) : v.type \notin AlloEvents
BY DEF Creations, Documents, TimesEvents, Finals, Registrations, Givers, Changers, AlloEvents

\* Types, the contract and the build.
LEMMA FreshIsRound ==
    ASSUME IInv, NEW e \in Events, e.type = "PoolCreated"
    PROVE  /\ Fresh(e) \in Round /\ Fresh(e) # Nil
           /\ Fresh(e).timings = Timings /\ Fresh(e).match = FetchedMatch(e.meta)
           /\ Fresh(e).funded = e.amount /\ Fresh(e).distributed = 0 /\ Fresh(e).final = Nil
           /\ Fresh(e).count = 0 /\ Fresh(e).donors = 0
<1>1. e.amount \in Nat /\ e.meta \in Nat
  BY EventFields
<1>2. Timings \in Timing
  BY TimingsFacts DEF IInv
<1>3. FetchedMatch(e.meta) \in Nat
  <2>1. FetchedMatch(e.meta) = IF ~handled \/ ~pool.known THEN 0
                               ELSE IF pool.kind \in {"DVMD", "ERF"} THEN e.meta ELSE 0
    BY DEF FetchedMatch, DVMDMatch, ERFMatch, BaseMatch
  <2>. QED BY <1>1, <2>1
<1>4. Fresh(e) \in Round
  BY <1>1, <1>2, <1>3 DEF Fresh, Round
<1>5. Fresh(e) # Nil
  BY <1>4, NilAssumption
<1>. QED BY <1>4, <1>5 DEF Fresh

\* The tables when the round is inserted.
LEMMA StartedFields ==
    ASSUME IInv, NEW e, NEW k, Taken(e, k), Started(e)
    PROVE  /\ e \in Creations /\ e \in Events /\ e.type = "PoolCreated"
           /\ db.round = Nil /\ db.apps = <<>> /\ db.payouts = <<>> /\ db.donations = {}
           /\ db'.round = Fresh(e) /\ db'.apps = <<>> /\ db'.payouts = <<>> /\ db'.donations = {}
           /\ db' = Db(db'.round, db'.apps, db'.payouts, db'.donations)
           /\ Ids = {} /\ Ids' = {} /\ damaged' = damaged /\ half' = Nil
           /\ early' = handled /\ ~early /\ cache' = (IF handled THEN Timings ELSE cache)
           /\ Fresh(e) \in Round /\ Fresh(e) # Nil
           /\ pool' = pool /\ emitted' = emitted /\ handled' = handled /\ skipped' = skipped
<1>1. e \in Events /\ e.type = "PoolCreated" /\ e \in Creations
  BY TakenQueue DEF Started, Creations
<1>2. db.round = Nil /\ db.apps = <<>> /\ db.payouts = <<>> /\ db.donations = {} /\ ~early
  BY DEF Started, IInv, DbOK, BuildOK
<1>3. db' = Db(Fresh(e), <<>>, <<>>, {})
  BY <1>2 DEF Started, With
<1>4. db'.round = Fresh(e) /\ db'.apps = <<>> /\ db'.payouts = <<>> /\ db'.donations = {}
  BY <1>3, DbFields
<1>5. Ids = {} /\ Ids' = {}
  BY <1>2, <1>4 DEF Ids
<1>6. cache' = IF handled THEN Timings ELSE cache
  BY <1>1 DEF Started, CacheAfter
<1>7. Fresh(e) \in Round /\ Fresh(e) # Nil
  BY <1>1, FreshIsRound
<1>8. /\ pool' = pool /\ emitted' = emitted /\ handled' = handled /\ skipped' = skipped
      /\ early' = handled /\ damaged' = damaged /\ half' = Nil
  BY DEF Taken, Started
<1>. QED BY <1>1, <1>2, <1>3, <1>4, <1>5, <1>6, <1>7, <1>8

\* Taking an event keeps the types of the variables and what holds of the build,
LEMMA TakenTypes ==
    ASSUME IInv, NEW e, NEW k, Taken(e, k), Started(e) \/ Changed(e) \/ Dropped(e)
    PROVE  VarTypes' /\ PoolOK' /\ BuildOK' /\ EventsFit'
<1>1. /\ feed # <<>> /\ feed' = Tail(feed) /\ failed' = failed /\ lost' \in {lost, lost + 1}
      /\ pool' = pool /\ emitted' = emitted /\ handled' = handled /\ skipped' = skipped
  BY DEF Taken
<1>2. VarTypes /\ PoolOK /\ BuildOK /\ EventsFit /\ StoredOK
  BY DEF IInv
<1>3. half' \in {half, Nil} /\ damaged' \subseteq AllColumns
  BY <1>2 DEF Started, Changed, Dropped, VarTypes
<1>4. cache' = cache \/ (handled /\ cache' = Timings)
  BY StartedFields DEF Changed, Dropped
<1>5. early' = early \/ early' = handled
  BY DEF Started, Changed, Dropped
<1>6. VarTypes'
  <2>1. feed' \in Seq(Events)
    BY <1>1, <1>2 DEF VarTypes
  <2>2. cache' \in Timing \cup {Nil} /\ half' \in Dates
    BY <1>2, <1>3, <1>4, TimingsFacts DEF VarTypes, Dates
  <2>3. lost' \in Nat
    BY <1>1, <1>2 DEF VarTypes
  <2>. QED BY <1>1, <1>2, <1>3, <1>5, <2>1, <2>2, <2>3 DEF VarTypes
<1>7. PoolOK'
  <2>1. pool.created /\ pool'.created
    BY <1>1, TakenQueue
  <2>. QED BY <1>1, <1>2, <2>1 DEF PoolOK, Timed
<1>8. BuildOK'
  <2>1. early' => db'.round # Nil
    <3>1. CASE Started(e)
      BY <3>1, StartedFields
    <3>2. CASE Changed(e)
      BY <3>2, NilAssumption DEF Changed, RoundAfter
    <3>3. CASE Dropped(e)
      BY <1>2, <3>3 DEF Dropped, BuildOK
    <3>. QED BY <3>1, <3>2, <3>3
  <2>2. ~handled => ~early'
    BY <1>2, <1>5, Zenon DEF BuildOK
  <2>3. ~handled => cache' = Nil /\ half' = Nil
    BY <1>2, <1>3, <1>4 DEF BuildOK
  <2>. QED BY <1>1, <1>2, <2>1, <2>2, <2>3 DEF BuildOK
<1>9. EventsFit'
  <2>1. \A v : Fits(v)' <=> Fits(v)
    BY <1>1 DEF Fits, Timed
  <2>2. ASSUME NEW i \in 1..N' PROVE Fits(Q[i])'
    <3> PICK v : v = Q'[i]
      OBVIOUS
    <3>1. Fits(v)
      BY <1>2, TakenQueue DEF EventsFit
    <3>. QED BY <2>1, <3>1
  <2>. QED BY <2>2 DEF EventsFit
<1>. QED BY <1>6, <1>7, <1>8, <1>9

\* the types of the tables,
LEMMA TakenTables ==
    ASSUME IInv, NEW e, NEW k, Taken(e, k), Started(e) \/ Changed(e) \/ Dropped(e)
    PROVE  DbOK'
<1>1. DbOK
  BY DEF IInv
<1>2. CASE Started(e)
  <2>1. /\ db'.round \in Round /\ db'.apps = <<>> /\ db'.payouts = <<>> /\ db'.donations = {}
        /\ db' = Db(db'.round, db'.apps, db'.payouts, db'.donations) /\ Ids' = {} /\ db'.round # Nil
    BY <1>2, StartedFields
  <2>2. IsFiniteSet({}) /\ <<>> \in Seq([recipient : Recipients, amount : Nat])
    BY FS_EmptySet
  <2>3. <<>> = [id \in {} |-> db'.apps[id]]
    OBVIOUS
  <2>. QED BY <2>1, <2>2, <2>3 DEF DbOK, Db
<1>3. CASE Changed(e)
  <2>1. /\ RoundAfter(e, db'.round) /\ TablesAfter(e, db') /\ AppsAfter(e, db'.apps) /\ e \in Events
    BY <1>3 DEF Changed, Taken
  <2>2. db'.round \in Round /\ db'.round # Nil
    BY <2>1, NilAssumption DEF RoundAfter
  <2>3. /\ db'.apps = [id \in Ids' |-> db'.apps[id]] /\ IsFiniteSet(Ids')
        /\ \A id \in Ids' : db'.apps[id] \in Application
    BY <2>1 DEF AppsAfter, Ids
  <2>4. db'.payouts \in Seq([recipient : Recipients, amount : Nat])
    <3>1. CASE e.type = "Allocated"
      <4>1. [recipient |-> e.recipient, amount |-> e.amount] \in [recipient : Recipients, amount : Nat]
        BY <2>1, <3>1, EventFields
      <4>2. db'.payouts = Append(db.payouts, [recipient |-> e.recipient, amount |-> e.amount])
        BY <2>1, <3>1 DEF TablesAfter
      <4>. QED BY <1>1, <4>1, <4>2, AppendProperties DEF DbOK
    <3>2. CASE e.type # "Allocated"
      BY <1>1, <2>1, <3>2 DEF DbOK, TablesAfter
    <3>. QED BY <3>1, <3>2
  <2>5. IsFiniteSet(db'.donations) /\ db'.donations \subseteq [id : Nat, donor : Donors]
    <3>1. CASE e.type = "DirectAllocated"
      <4>1. Donation(e) \in [id : Nat, donor : Donors]
        BY <2>1, <3>1, EventFields DEF Donation
      <4>2. db'.donations = db.donations \cup {Donation(e)}
        BY <2>1, <3>1 DEF TablesAfter
      <4>3. IsFiniteSet(db.donations) /\ db.donations \subseteq [id : Nat, donor : Donors]
        BY <1>1 DEF DbOK
      <4>4. IsFiniteSet(db'.donations)
        BY <4>2, <4>3, FS_AddElement
      <4>. QED BY <4>1, <4>2, <4>3, <4>4
    <3>2. CASE e.type # "DirectAllocated"
      BY <1>1, <2>1, <3>2 DEF DbOK, TablesAfter
    <3>. QED BY <3>1, <3>2
  <2>6. db' = [round |-> db'.round, apps |-> db'.apps, payouts |-> db'.payouts, donations |-> db'.donations]
    BY <2>1 DEF TablesAfter, Db
  <2>. QED BY <2>2, <2>3, <2>4, <2>5, <2>6 DEF DbOK
<1>4. CASE Dropped(e)
  BY <1>1, <1>4 DEF Dropped, DbOK, Ids
<1>. QED BY <1>2, <1>3, <1>4

\* and that the round is there once its creation is handled, or was lost.
LEMMA TakenCreation ==
    ASSUME IInv, NEW e, NEW k, Taken(e, k), Started(e) \/ Changed(e) \/ Dropped(e)
    PROVE  CreationOK'
<1>1. /\ N \in Nat /\ k \in 1..N /\ Q[k] = e /\ e \in Events
      /\ \A i \in 1..N' : Up(k, i) \in 1..N /\ Up(k, i) # k /\ Q'[i] = Q[Up(k, i)]
      /\ \A i, j \in 1..N' : i < j <=> Up(k, i) < Up(k, j)
      /\ \A i, j \in 1..N' : Up(k, i) = Up(k, j) => i = j
  BY TakenQueue
<1>2. CreationOK /\ pool' = pool
  BY DEF IInv, Taken
<1>3. \A i, j \in 1..N' : Q'[i] \in Creations /\ Q'[j] \in Creations => i = j
  BY <1>1, <1>2 DEF CreationOK
<1>4. \A i, j \in 1..N' : Q'[j] \in Creations /\ i < j => Q'[i].type \in {"TimestampsUpdated", "PoolFunded"}
  BY <1>1, <1>2 DEF CreationOK
<1>5. /\ Without(Creations) => Without(Creations)'
      /\ Without(Creations)' => IF e \in Creations THEN TRUE ELSE Without(Creations)
  BY TakenLast, ClassTypes
<1>6. db'.round # Nil => Without(Creations)'
  <2>1. CASE Started(e)
    <3>1. Q[k] \in Creations
      BY <1>1, <2>1, StartedFields
    <3>. QED BY <1>1, <1>2, <3>1 DEF CreationOK, Without
  <2>2. CASE ~Started(e)
    BY <1>2, <1>5, <2>2 DEF Changed, Dropped, CreationOK
  <2>. QED BY <2>1, <2>2
<1>7. pool'.created /\ db'.round = Nil /\ Without(Creations)' => AllColumns \subseteq damaged'
  <2>1. CASE Started(e)
    BY <2>1, StartedFields
  <2>2. CASE Changed(e)
    BY <2>2, NilAssumption DEF Changed, RoundAfter
  <2>3. CASE Dropped(e)
    <3>1. CASE e \in Creations
      BY <2>3, <3>1 DEF Dropped, Creations
    <3>2. CASE e \notin Creations
      BY <1>2, <1>5, <2>3, <3>2 DEF Dropped, CreationOK
    <3>. QED BY <3>1, <3>2
  <2>. QED BY <2>1, <2>2, <2>3
<1>. QED BY <1>3, <1>4, <1>6, <1>7 DEF CreationOK
\* The recipients keep their numbers.
LEMMA TakenIds ==
    ASSUME IInv, NEW e, NEW k, Taken(e, k)
    PROVE  /\ pool' = pool /\ \A i : IdOf(i)' = IdOf(i)
           /\ \A i, j \in DOMAIN pool.index : IdOf(i) = IdOf(j) => i = j
           /\ \A i \in DOMAIN pool.index : IdOf(i) \in Ids => db.apps[IdOf(i)].recipient = pool.index[i]
           /\ DOMAIN pool.index \subseteq Nat
<1>1. pool' = pool /\ \A i : IdOf(i)' = IdOf(i)
  BY DEF Taken, IdOf
<1>2. DOMAIN pool.index \subseteq Nat
  BY DEF IInv, VarTypes, PoolType
<1>3. \A i, j \in DOMAIN pool.index : IdOf(i) = IdOf(j) => i = j
  BY <1>2 DEF IInv, PoolOK, IdOf
<1>4. \A i \in DOMAIN pool.index : IdOf(i) \in Ids => db.apps[IdOf(i)].recipient = pool.index[i]
  BY <1>3 DEF IInv, AppsOK
<1>. QED BY <1>1, <1>2, <1>3, <1>4

\* Every application is of the recipient with its number.
LEMMA TakenApps ==
    ASSUME IInv, NEW e, NEW k, Taken(e, k), Started(e) \/ Changed(e) \/ Dropped(e)
    PROVE  AppsOK'
<1>1. pool' = pool /\ (\A i : IdOf(i)' = IdOf(i)) /\ AppsOK
  BY TakenIds DEF IInv
<1>2. "apps" \in damaged' => "distributed" \in damaged'
  BY <1>1 DEF Started, Changed, Dropped, AppsOK
<1>3. \A id \in Ids' : \E i \in DOMAIN pool.index : id = IdOf(i) /\ db'.apps[id].recipient = pool.index[i]
  <2>1. CASE Started(e)
    BY <2>1, StartedFields
  <2>2. CASE Changed(e)
    <3> TAKE id \in Ids'
    <3>1. id \in IdsAfter(e) /\ db'.apps[id].recipient = RecipientAfter(e, id)
      BY <2>2 DEF Changed, AppsAfter, Ids
    <3>2. CASE NewApp(e, id)
      <4>1. e.counter \in DOMAIN pool.index /\ pool.index[e.counter] = e.recipient
        BY <3>2, TakenQueue DEF NewApp, Fits
      <4>. QED BY <3>1, <3>2, <4>1 DEF NewApp, RecipientAfter
    <3>3. CASE ~NewApp(e, id)
      <4>1. id \in Ids /\ db'.apps[id].recipient = db.apps[id].recipient
        BY <3>1, <3>3 DEF NewApp, IdsAfter, RecipientAfter
      <4>. QED BY <1>1, <4>1 DEF AppsOK
    <3>. QED BY <3>2, <3>3
  <2>3. CASE Dropped(e)
    <3>1. db' = db /\ Ids' = Ids
      BY <2>3 DEF Dropped, Ids
    <3>. QED BY <1>1, <3>1 DEF AppsOK
  <2>. QED BY <2>1, <2>2, <2>3
<1>. QED BY <1>1, <1>2, <1>3 DEF AppsOK

\* A registration that is handled leaves the application in the table.
LEMMA TakenArrives ==
    ASSUME IInv, NEW e, NEW k, Taken(e, k), Started(e) \/ Changed(e) \/ Dropped(e)
    PROVE  Arrives'
<1>1. /\ N \in Nat /\ k \in 1..N /\ Q[k] = e /\ e \in Events /\ Fits(e)
      /\ \A i \in 1..N' : Up(k, i) \in 1..N /\ Up(k, i) # k /\ Q'[i] = Q[Up(k, i)]
      /\ \A i, j \in 1..N' : i < j <=> Up(k, i) < Up(k, j)
      /\ \A i, j \in 1..N' : Up(k, i) = Up(k, j) => i = j
  BY TakenQueue
<1>2. /\ pool' = pool /\ \A i : IdOf(i)' = IdOf(i)
      /\ \A i, j \in DOMAIN pool.index : IdOf(i) = IdOf(j) => i = j
  BY TakenIds
<1>3. damaged \subseteq damaged'
  BY DEF Started, Changed, Dropped
<1>4. Ids \subseteq Ids' /\ \A id \in Ids' : id \notin Ids => Changed(e) /\ NewApp(e, id)
  <2>1. CASE Started(e)
    BY <2>1, StartedFields
  <2>2. CASE Changed(e)
    BY <2>2 DEF Changed, AppsAfter, IdsAfter, NewApp, Ids
  <2>3. CASE Dropped(e)
    BY <2>3 DEF Dropped, Ids
  <2>. QED BY <2>1, <2>2, <2>3
<1> SUFFICES ASSUME NEW i \in DOMAIN pool.index
    PROVE  /\ \A j, m \in 1..N' : Q'[j] \in Registrations(i) /\ Q'[m] \in Registrations(i) => j = m
           /\ \A j, m \in 1..N' :
                 Q'[m] \in Registrations(i) /\ Q'[j] \in Changers(i, pool.index[i]) \cup Payments(pool.index[i])
                     => m < j
           /\ "apps" \notin damaged' /\ Without(Registrations(i))' => IdOf(i) \in Ids'
           /\ IdOf(i) \in Ids' => Without(Registrations(i))'
  BY <1>2 DEF Arrives, Changers, Payments
<1>5. /\ \A j, m \in 1..N : Q[j] \in Registrations(i) /\ Q[m] \in Registrations(i) => j = m
      /\ \A j, m \in 1..N :
            Q[m] \in Registrations(i) /\ Q[j] \in Changers(i, pool.index[i]) \cup Payments(pool.index[i]) => m < j
      /\ "apps" \notin damaged /\ Without(Registrations(i)) => IdOf(i) \in Ids
      /\ IdOf(i) \in Ids => Without(Registrations(i))
  BY DEF IInv, Arrives
<1>6. /\ Without(Registrations(i))' => e \in Registrations(i) \/ Without(Registrations(i))
      /\ Without(Registrations(i)) => Without(Registrations(i))'
  BY TakenLast, ClassTypes
<1>7. \A j, m \in 1..N' : Q'[j] \in Registrations(i) /\ Q'[m] \in Registrations(i) => j = m
  BY <1>1, <1>5
<1>8. \A j, m \in 1..N' :
         Q'[m] \in Registrations(i) /\ Q'[j] \in Changers(i, pool.index[i]) \cup Payments(pool.index[i]) => m < j
  BY <1>1, <1>5
<1>9. "apps" \notin damaged' /\ Without(Registrations(i))' => IdOf(i) \in Ids'
  <2> SUFFICES ASSUME "apps" \notin damaged', Without(Registrations(i))' PROVE IdOf(i) \in Ids'
    OBVIOUS
  <2>1. CASE e \in Registrations(i)
    <3>1. e.type = "Registered" /\ e.counter = i
      BY <2>1 DEF Registrations
    <3>2. Changed(e)
      BY <3>1 DEF Started, Dropped, Column, Harmless
    <3>. QED BY <3>1, <3>2 DEF Changed, AppsAfter, IdsAfter, Ids
  <2>2. CASE e \notin Registrations(i)
    BY <1>3, <1>4, <1>5, <1>6, <2>2
  <2>. QED BY <2>1, <2>2
<1>10. IdOf(i) \in Ids' => Without(Registrations(i))'
  <2> SUFFICES ASSUME IdOf(i) \in Ids' PROVE Without(Registrations(i))'
    OBVIOUS
  <2>1. CASE IdOf(i) \in Ids
    BY <1>5, <1>6, <2>1
  <2>2. CASE IdOf(i) \notin Ids
    <3>1. e.type = "Registered" /\ IdOf(i) = IdOf(e.counter)
      BY <1>4, <2>2 DEF NewApp
    <3>2. i = e.counter
      BY <1>1, <1>2, <3>1 DEF Fits
    <3>3. Q[k] \in Registrations(i)
      BY <1>1, <3>1, <3>2 DEF Registrations
    <3>. QED BY <1>1, <1>5, <3>3 DEF Without
  <2>. QED BY <2>1, <2>2
<1>. QED BY <1>7, <1>8, <1>9, <1>10

\* The status in the table is that of the last event about the application.
LEMMA TakenStatus ==
    ASSUME IInv, NEW e, NEW k, Taken(e, k), Started(e) \/ Changed(e) \/ Dropped(e)
    PROVE  StatusOK'
<1>1. N \in Nat /\ k \in 1..N /\ Q[k] = e /\ e \in Events /\ Fits(e)
  BY TakenQueue
<1>2. /\ pool' = pool /\ (\A i : IdOf(i)' = IdOf(i))
      /\ \A i, j \in DOMAIN pool.index : IdOf(i) = IdOf(j) => i = j
      /\ \A i \in DOMAIN pool.index : IdOf(i) \in Ids => db.apps[IdOf(i)].recipient = pool.index[i]
      /\ DOMAIN pool.index \subseteq Nat
  BY TakenIds
<1>3. Arrives' /\ damaged \subseteq damaged'
  BY TakenArrives DEF Started, Changed, Dropped
<1> SUFFICES ASSUME NEW i \in DOMAIN pool.index, NEW r, r = pool.index[i]
    PROVE  /\ \A j \in 1..N' : IsLast(j, Givers(i, r))' => Given(Q'[j], i) = pool.status[i]
           /\ "apps" \notin damaged' /\ Without(Givers(i, r))'
                 => IdOf(i) \in Ids' /\ db'.apps[IdOf(i)].status = pool.status[i]
  <2>1. \A i \in DOMAIN pool.index :
        /\ \A j \in 1..N' : IsLast(j, Givers(i, pool.index[i]))' => Given(Q'[j], i) = pool.status[i]
        /\ "apps" \notin damaged' /\ Without(Givers(i, pool.index[i]))'
              => IdOf(i)' \in Ids' /\ db'.apps[IdOf(i)'].status = pool.status[i]
    <3> TAKE i \in DOMAIN pool.index
    <3> PICK r : r = pool.index[i]
      OBVIOUS
    <3>1. /\ \A j \in 1..N' : IsLast(j, Givers(i, pool.index[i]))' <=> IsLast(j, Givers(i, r))'
          /\ Without(Givers(i, pool.index[i]))' <=> Without(Givers(i, r))'
      BY <1>2 DEF IsLast, Without, Givers, Changers, Registrations
    <3>. QED BY <1>2, <3>1
  <2>. QED BY <1>2, <2>1 DEF StatusOK, Given
<1> DEFINE C == Givers(i, r)
<1>4. /\ \A j \in 1..N : IsLast(j, C) => Given(Q[j], i) = pool.status[i]
      /\ "apps" \notin damaged /\ Without(C) => IdOf(i) \in Ids /\ db.apps[IdOf(i)].status = pool.status[i]
  BY DEF IInv, StatusOK
<1>5. /\ \A j \in 1..N' : IsLast(j, C)' => \E m \in 1..N : IsLast(m, C) /\ Q'[j] = Q[m]
      /\ Without(C)' => IF e \in C THEN IsLast(k, C) ELSE Without(C)
  <2>1. \A v \in C : v.type \notin AlloEvents
    BY ClassTypes
  <2> HIDE DEF C
  <2>. QED BY <2>1, TakenLast
<1>6. Without(C)' => Without(Registrations(i))'
  BY DEF Without, Givers
<1> HIDE DEF C
<1>7. \A j \in 1..N' : IsLast(j, C)' => Given(Q'[j], i) = pool.status[i]
  BY <1>4, <1>5
<1>8. ASSUME "apps" \notin damaged', Without(C)'
      PROVE  IdOf(i) \in Ids' /\ db'.apps[IdOf(i)].status = pool.status[i]
  <2>1. IdOf(i) \in Ids'
    BY <1>2, <1>3, <1>6, <1>8 DEF Arrives
  <2>2. e \in C => Given(e, i) = pool.status[i]
    BY <1>1, <1>4, <1>5, <1>8
  <2>3. e \notin C => IdOf(i) \in Ids /\ db.apps[IdOf(i)].status = pool.status[i]
    BY <1>3, <1>4, <1>5, <1>8
  <2>4. CASE Started(e)
    <3>1. e \notin C
      BY <2>4 DEF C, Givers, Registrations, Changers, Started
    <3>2. db.apps = <<>> /\ Ids = {}
      BY <2>4, StartedFields
    <3>. QED BY <2>3, <3>1, <3>2
  <2>5. CASE Dropped(e)
    <3>1. e \notin C
      BY <1>8, <2>5 DEF C, Givers, Registrations, Changers, Dropped, Column, Harmless
    <3>. QED BY <2>1, <2>3, <2>5, <3>1 DEF Dropped
  <2>6. CASE Changed(e)
    <3>1. db'.apps[IdOf(i)].status = StatusAfter(e, IdOf(i))
      BY <2>1, <2>6 DEF Changed, AppsAfter, Ids
    <3>2. NewApp(e, IdOf(i)) <=> e \in Registrations(i)
      BY <1>1, <1>2 DEF NewApp, Registrations, Fits
    <3>3. CASE e \in Registrations(i)
      <4>1. Given(e, i) = "PENDING" /\ e \in C
        BY <3>3 DEF Registrations, Given, C, Givers
      <4>. QED BY <2>1, <2>2, <3>1, <3>2, <3>3, <4>1 DEF StatusAfter
    <3>4. CASE e \notin Registrations(i)
      <4>1. IdOf(i) \in Ids
        BY <2>1, <2>6, <3>2, <3>4 DEF Changed, AppsAfter, IdsAfter, NewApp, Ids
      <4>2. db.apps[IdOf(i)].recipient = r
        BY <1>2, <4>1
      <4>3. CASE e.type = "UpdatedRegistration"
        <5>1. e \in C <=> e.recipient = r
          BY <1>1, <3>4, <4>3 DEF C, Givers, Changers
        <5>. QED BY <2>1, <2>2, <2>3, <3>1, <3>2, <3>4, <4>2, <4>3, <5>1 DEF StatusAfter, Given
      <4>4. CASE e.type = "RecipientStatusUpdated"
        <5>1. e \in C <=> i \in DOMAIN e.row
          BY <1>1, <3>4, <4>4 DEF C, Givers, Changers
        <5>2. IdOf(i) + 1 = i
          BY <1>1, <1>2, <4>4 DEF IdOf, Fits
        <5>. QED BY <2>1, <2>2, <2>3, <3>1, <3>2, <3>4, <4>4, <5>1, <5>2 DEF StatusAfter, Given
      <4>5. CASE e.type \notin {"UpdatedRegistration", "RecipientStatusUpdated"}
        <5>1. e \notin C
          BY <3>4, <4>5 DEF C, Givers, Changers
        <5>. QED BY <2>1, <2>3, <3>1, <3>2, <3>4, <4>5, <5>1 DEF StatusAfter
      <4>. QED BY <4>3, <4>4, <4>5
    <3>. QED BY <3>3, <3>4
  <2>. QED BY <2>4, <2>5, <2>6
<1>. QED BY <1>7, <1>8 DEF C

\* The distribution and the match amount are those of the last event about them.
LEMMA TakenValues ==
    ASSUME IInv, NEW e, NEW k, Taken(e, k), Started(e) \/ Changed(e) \/ Dropped(e)
    PROVE  FinalOK' /\ MatchOK'
<1>1. N \in Nat /\ k \in 1..N /\ Q[k] = e /\ e \in Events /\ Fits(e) /\ pool' = pool
  BY TakenQueue, TakenIds
<1>2. FinalOK /\ MatchOK
  BY DEF IInv
<1>3. damaged \subseteq damaged'
  BY DEF Started, Changed, Dropped
<1>4. FinalOK'
  <2>1. /\ \A i \in 1..N' : IsLast(i, Finals)' => \E m \in 1..N : IsLast(m, Finals) /\ Q'[i] = Q[m]
        /\ Without(Finals)' => IF e \in Finals THEN IsLast(k, Finals) ELSE Without(Finals)
    <3> PICK C : C = Finals
      OBVIOUS
    <3>1. (\A v \in C : v.type \in AlloEvents) \/ (\A v \in C : v.type \notin AlloEvents)
      BY ClassTypes
    <3>. QED BY <3>1, TakenLast
  <2>2. \A i \in 1..N' : IsLast(i, Finals)' => Q'[i].final = pool.final
    BY <1>2, <2>1 DEF FinalOK
  <2>3. ASSUME "final" \notin damaged', Without(Finals)' PROVE FinalNow' = pool.final
    <3>1. e \in Finals => e.final = pool.final
      BY <1>1, <1>2, <2>1, <2>3 DEF FinalOK
    <3>2. e \notin Finals => FinalNow = pool.final
      BY <1>2, <1>3, <2>1, <2>3 DEF FinalOK
    <3>3. CASE Started(e)
      <4>1. e \notin Finals /\ FinalNow = Nil
        BY <3>3 DEF Started, Finals, FinalNow
      <4>2. db'.round # Nil /\ db'.round.final = Nil
        BY <1>1, <3>3, StartedFields, FreshIsRound
      <4>. QED BY <3>2, <4>1, <4>2 DEF FinalNow
    <3>4. CASE Changed(e)
      <4>1. db.round # Nil /\ db'.round # Nil
        BY <3>4, NilAssumption DEF Changed, RoundAfter
      <4>2. db'.round.final = IF e.type = "DistributionUpdated" THEN e.final ELSE db.round.final
        BY <3>4 DEF Changed, RoundAfter
      <4>3. e \in Finals <=> e.type = "DistributionUpdated"
        BY <1>1, <3>4 DEF Changed, Throws, Unreadable, Finals
      <4>. QED BY <3>1, <3>2, <4>1, <4>2, <4>3 DEF FinalNow
    <3>5. CASE Dropped(e)
      <4>1. e \notin Finals
        BY <2>3, <3>5 DEF Finals, Dropped, Column, Harmless
      <4>. QED BY <3>2, <3>5, <4>1 DEF Dropped, FinalNow
    <3>. QED BY <3>3, <3>4, <3>5
  <2>. QED BY <1>1, <2>2, <2>3 DEF FinalOK
<1>5. MatchOK'
  <2>1. /\ \A i \in 1..N' : IsLast(i, Documents)' => \E m \in 1..N : IsLast(m, Documents) /\ Q'[i] = Q[m]
        /\ Without(Documents)' => IF e \in Documents THEN IsLast(k, Documents) ELSE Without(Documents)
    <3> PICK C : C = Documents
      OBVIOUS
    <3>1. (\A v \in C : v.type \in AlloEvents) \/ (\A v \in C : v.type \notin AlloEvents)
      BY ClassTypes
    <3>. QED BY <3>1, TakenLast
  <2>2. \A i \in 1..N' : IsLast(i, Documents)' => Q'[i].meta = pool.meta
    BY <1>2, <2>1 DEF MatchOK
  <2>3. ASSUME Matched', db'.round # Nil, Without(Documents)' PROVE db'.round.match = pool.meta
    <3>1. /\ "match" \notin damaged' /\ pool.known /\ early' /\ pool.kind \in {"DVMD", "ERF"}
      BY <1>1, <2>3 DEF Matched
    <3>2. e \in Documents => e.meta = pool.meta
      BY <1>1, <1>2, <2>1, <2>3 DEF MatchOK
    <3>3. e \notin Documents /\ early /\ db.round # Nil => db.round.match = pool.meta
      BY <1>2, <1>3, <2>1, <2>3, <3>1 DEF MatchOK, Matched
    <3>4. CASE Started(e)
      <4>1. e \in Documents
        BY <3>4, StartedFields DEF Documents
      <4>2. handled
        BY <3>1, <3>4, Zenon DEF Started
      <4>3. db'.round = Fresh(e) /\ e.type = "PoolCreated"
        BY <3>4, StartedFields
      <4>4. db'.round.match = FetchedMatch(e.meta) /\ handled
        BY <1>1, <4>2, <4>3, FreshIsRound
      <4>5. FetchedMatch(e.meta) = e.meta
        BY <3>1, <4>4 DEF FetchedMatch, DVMDMatch, ERFMatch
      <4>. QED BY <3>2, <4>1, <4>4, <4>5
    <3>5. CASE Changed(e)
      <4>1. db'.round.match = IF e.type = "PoolMetadataUpdated" /\ e.meta > 0 /\ pool.known
                              THEN e.meta ELSE db.round.match
        BY <3>5 DEF Changed, RoundAfter
      <4>2. e \in Documents <=> e.type = "PoolMetadataUpdated" /\ e.meta > 0
        BY <1>1, <3>5 DEF Changed, Documents, Creations
      <4>3. early /\ db.round # Nil
        BY <3>1, <3>5 DEF Changed
      <4>. QED BY <3>1, <3>2, <3>3, <4>1, <4>2, <4>3
    <3>6. CASE Dropped(e)
      <4>1. e \notin Documents
        BY <3>1, <3>6 DEF Documents, Creations, Dropped, Column, Harmless, AllColumns
      <4>. QED BY <2>3, <3>1, <3>3, <3>6, <4>1 DEF Dropped
    <3>. QED BY <3>4, <3>5, <3>6
  <2>. QED BY <1>1, <2>2, <2>3 DEF MatchOK
<1>. QED BY <1>4, <1>5
\* The times are those of the last event, or those read when none came later.
LEMMA TakenTimings ==
    ASSUME IInv, NEW e, NEW k, Taken(e, k), Started(e) \/ Changed(e) \/ Dropped(e)
    PROVE  TimesOK' /\ StoredOK'
<1>1. /\ N \in Nat /\ k \in 1..N /\ Q[k] = e /\ e \in Events /\ Fits(e) /\ pool' = pool
      /\ NeedsHandler(e) => k = 1 /\ handled
      /\ \A i \in 1..N' : Up(k, i) \in 1..N /\ Up(k, i) # k /\ Q'[i] = Q[Up(k, i)]
      /\ \A i, j \in 1..N' : i < j <=> Up(k, i) < Up(k, j)
      /\ \A m \in 1..N : m # k => \E i \in 1..N' : Up(k, i) = m
  BY TakenQueue, TakenIds
<1>2. TimesOK /\ StoredOK /\ CreationOK /\ PoolOK /\ VarTypes
  BY DEF IInv
<1>3. damaged \subseteq damaged' /\ handled' = handled
  BY DEF Started, Changed, Dropped, Taken
<1>4. ExpectedTimings' = ExpectedTimings /\ (Timed' <=> Timed)
  BY <1>1 DEF ExpectedTimings, Timed
<1>5. /\ \A i \in 1..N' : IsLast(i, TimesEvents)' => \E m \in 1..N : IsLast(m, TimesEvents) /\ Q'[i] = Q[m]
      /\ Without(TimesEvents)' => IF e \in TimesEvents THEN IsLast(k, TimesEvents) ELSE Without(TimesEvents)
  <2> PICK C : C = TimesEvents
    OBVIOUS
  <2>1. (\A v \in C : v.type \in AlloEvents) \/ (\A v \in C : v.type \notin AlloEvents)
    BY ClassTypes
  <2>. QED BY <2>1, TakenLast
<1>6. e \in TimesEvents <=> e.type = "TimestampsUpdated"
  BY <1>1 DEF TimesEvents
<1>7. \A i \in 1..N' : IsLast(i, TimesEvents)' => Q'[i].times = pool.times
  BY <1>2, <1>5 DEF TimesOK
<1>8. ASSUME db'.round # Nil, Reread', Without(TimesEvents)' PROVE db'.round.timings = ExpectedTimings
  <2>1. "timings" \notin damaged' /\ (pool.kind = "DGSimple" => ~early')
    BY <1>1, <1>8 DEF Reread
  <2>2. e \in TimesEvents => e.times = pool.times
    BY <1>1, <1>2, <1>5, <1>8 DEF TimesOK
  <2>3. CASE Started(e)
    <3>1. Without(TimesEvents) /\ e \in Creations
      BY <1>5, <1>6, <1>8, <2>3, StartedFields
    <3>2. db'.round.timings = Timings
      <4>1. db'.round = Fresh(e) /\ e.type = "PoolCreated"
        BY <2>3, StartedFields
      <4>. QED BY <1>1, <4>1, FreshIsRound
    <3>3. CASE handled
      <4>1. pool.kind # "DGSimple"
        BY <2>1, <2>3, <3>3, Zenon DEF Started
      <4>2. ReadsLast(k)
        BY <1>1, <3>1 DEF ReadsLast, Without
      <4>. QED BY <1>1, <1>2, <3>2, <3>3, <4>1, <4>2, TimingsFacts
    <3>4. CASE ~handled
      <4>1. ~Timed
        BY <1>1, <1>2, <3>1, <3>4 DEF TimesOK, Without
      <4>2. Timings = NoTimings
        BY <3>4 DEF Timings
      <4>3. pool.times = Nil /\ pool.kind = "DirectAllocation"
        BY <1>2, <4>1 DEF PoolOK, Timed
      <4>4. ExpectedTimings = NoTimings
        BY <4>3 DEF ExpectedTimings, NoTimings, DateOf
      <4>. QED BY <3>2, <4>2, <4>4
    <3>. QED BY <3>3, <3>4
  <2>4. CASE Changed(e)
    <3>1. db'.round.timings = IF e.type = "TimestampsUpdated" THEN Later(e) ELSE db.round.timings
      BY <2>4 DEF Changed, RoundAfter
    <3>2. CASE e.type = "TimestampsUpdated"
      <4>1. db.round \in Round /\ (pool.kind \notin {"DVMD", "ERF"} => db.round.timings.donations = Nil)
        BY <1>2, <2>4 DEF Changed, StoredOK, IInv, DbOK
      <4>2. Later(e) = ExpectedTimings
        <5>1. CASE pool.kind \in {"DVMD", "ERF"}
          BY <1>6, <2>2, <3>2, <5>1 DEF Later, ExpectedTimings
        <5>2. CASE pool.kind \notin {"DVMD", "ERF"}
          <6>1. db.round.timings \in Timing /\ db.round.timings.donations = Nil
            BY <4>1, <5>2 DEF Round
          <6>2. [db.round.timings EXCEPT !.applications = DateOf(e.times)]
                   = [applications |-> DateOf(e.times), donations |-> Nil]
            BY <6>1 DEF Timing
          <6>. QED BY <1>6, <2>2, <3>2, <5>2, <6>2 DEF Later, ExpectedTimings
        <5>. QED BY <5>1, <5>2
      <4>. QED BY <3>1, <3>2, <4>2
    <3>3. CASE e.type # "TimestampsUpdated"
      <4>1. Without(TimesEvents) /\ Reread /\ db.round # Nil
        BY <1>3, <1>5, <1>6, <1>8, <2>1, <2>4, <3>3 DEF Reread, Changed
      <4>. QED BY <1>2, <3>1, <3>3, <4>1 DEF TimesOK
    <3>. QED BY <3>2, <3>3
  <2>5. CASE Dropped(e)
    <3>1. db' = db /\ early' = early
      BY <2>5 DEF Dropped
    <3>2. e \notin TimesEvents
      BY <1>6, <1>8, <2>1, <2>5 DEF Dropped, Column, Harmless
    <3>3. Without(TimesEvents) /\ Reread /\ db.round # Nil
      BY <1>3, <1>5, <1>8, <2>1, <3>1, <3>2 DEF Reread
    <3>. QED BY <1>2, <3>1, <3>3 DEF TimesOK
  <2>. QED BY <2>3, <2>4, <2>5
<1>9. Timed' /\ ~handled' /\ Without(TimesEvents)' => Without(Creations)'
  <2> SUFFICES ASSUME Timed, ~handled, Without(TimesEvents)' PROVE Without(Creations)'
    BY <1>3, <1>4
  <2>1. ~NeedsHandler(e)
    BY <1>1
  <2>2. e \notin TimesEvents
    BY <1>6, <2>1 DEF NeedsHandler, AlloEvents
  <2>3. Without(Creations)
    BY <1>2, <1>5, <2>2 DEF TimesOK
  <2>. QED BY <1>1, <2>3 DEF Without
<1>10. TimesOK'
  BY <1>1, <1>4, <1>7, <1>8, <1>9 DEF TimesOK
<1>11. db'.round # Nil /\ pool.kind \notin {"DVMD", "ERF"} => db'.round.timings.donations = Nil
  <2> SUFFICES ASSUME db'.round # Nil, pool.kind \notin {"DVMD", "ERF"} PROVE db'.round.timings.donations = Nil
    OBVIOUS
  <2>1. CASE Started(e)
    <3>1. db'.round = Fresh(e) /\ e.type = "PoolCreated"
      BY <2>1, StartedFields
    <3>2. db'.round.timings = Timings
      BY <1>1, <3>1, FreshIsRound
    <3>. QED BY <1>2, <3>2, TimingsFacts
  <2>2. CASE Changed(e)
    <3>1. db'.round.timings = IF e.type = "TimestampsUpdated" THEN Later(e) ELSE db.round.timings
      BY <2>2 DEF Changed, RoundAfter
    <3>2. db.round \in Round /\ db.round.timings.donations = Nil
      BY <1>2, <2>2 DEF Changed, StoredOK, IInv, DbOK
    <3>3. db.round.timings \in Timing
      BY <3>2 DEF Round
    <3>4. Later(e).donations = Nil
      BY <3>2, <3>3 DEF Later, Timing
    <3>. QED BY <3>1, <3>2, <3>4
  <2>3. CASE Dropped(e)
    BY <1>2, <2>3 DEF Dropped, StoredOK
  <2>. QED BY <2>1, <2>2, <2>3
<1>12. /\ cache' # Nil /\ pool.kind \notin {"DVMD", "ERF"} => cache'.donations = Nil
       /\ cache' # Nil /\ ~Timed => cache' = NoTimings
  <2>1. cache' = cache \/ cache' = Timings
    BY StartedFields DEF Changed, Dropped
  <2>. QED BY <1>2, <2>1, TimingsFacts DEF StoredOK
<1>13. ASSUME handled, pool.kind # "DGSimple", NEW i \in 1..N', ReadsLast(i)'
       PROVE  cache' \in {Nil, ExpectedTimings} /\ half' \in {Nil, ExpectedTimings.applications}
  <2> DEFINE m == Up(k, i)
  <2>1. m \in 1..N /\ m # k /\ Q'[i] = Q[m] /\ Q[m] \in Creations
    BY <1>1, <1>13 DEF ReadsLast
  <2>2. e \notin Creations
    BY <1>1, <1>2, <2>1 DEF CreationOK
  <2>3. ASSUME NEW j \in 1..N, m < j PROVE Q[j] \notin TimesEvents
    <3>1. CASE j = k
      <4>1. ~NeedsHandler(e)
        BY <1>1, <2>1, <2>3, <3>1
      <4>. QED BY <1>1, <1>6, <3>1, <4>1 DEF NeedsHandler, AlloEvents
    <3>2. CASE j # k
      <4>1. PICK n \in 1..N' : Up(k, n) = j
        BY <1>1, <3>2
      <4>2. i < n /\ Q'[n] = Q[j]
        BY <1>1, <2>3, <4>1
      <4>. QED BY <1>13, <4>2 DEF ReadsLast
    <3>. QED BY <3>1, <3>2
  <2>4. ReadsLast(m)
    BY <2>1, <2>3 DEF ReadsLast
  <2> HIDE DEF m
  <2>5. cache \in {Nil, ExpectedTimings} /\ half \in {Nil, ExpectedTimings.applications}
    BY <1>2, <1>13, <2>1, <2>4 DEF StoredOK
  <2>6. cache' = cache /\ half' \in {half, Nil}
    <3>1. ~Started(e)
      BY <1>1, <2>2 DEF Started, Creations
    <3>. QED BY <3>1 DEF Changed, Dropped
  <2>. QED BY <2>5, <2>6
<1>14. StoredOK'
  BY <1>1, <1>3, <1>4, <1>11, <1>12, <1>13 DEF StoredOK
<1>. QED BY <1>10, <1>14

\* The values around the event that is taken out.
LEMMA FundsTaken ==
    ASSUME IInv, NEW e, NEW k, Taken(e, k), NEW h, FundsRun(h)
    PROVE  \E g \in [0..N' -> Nat] :
              /\ g[N'] = pool.funds /\ g[0] = FundedAfter(h[0], e)
              /\ \A i \in 1..N' : g[i] = FundedAfter(g[i - 1], Q'[i])
<1>1. /\ N \in Nat /\ N' \in Nat /\ N' = N - 1 /\ k \in 1..N /\ Q[k] = e
      /\ \A j \in 1..N : j < k => Q[j] \in StrategyEvent
      /\ \A i \in 1..N' : Q'[i] = Q[Up(k, i)]
  BY TakenQueue
<1>2. /\ h \in [0..N -> Nat] /\ h[N] = pool.funds
      /\ \A i \in 1..N : h[i] = FundedAfter(h[i - 1], Q[i])
  BY DEF FundsRun
<1>3. \A i \in 1..N : i < k => \A n : FundedAfter(n, Q[i]) = n
  BY <1>1, StrategyTypes DEF FundedAfter, AlloEvents
<1> DEFINE Bad == {i \in Nat : i < k /\ h[i] # h[0]}
<1>4. Bad = {}
  <2> SUFFICES ASSUME Bad # {} PROVE FALSE
    OBVIOUS
  <2>1. PICK i \in Bad : \A j \in Bad : i <= j
    BY LeastElement
  <2>2. i # 0 /\ i \in 1..N /\ i < k
    BY <1>1, <2>1
  <2>3. i - 1 \in Nat /\ i - 1 \notin Bad /\ i - 1 < k
    BY <1>1, <2>1, <2>2
  <2>4. h[i - 1] = h[0]
    BY <2>3
  <2>5. h[i] = h[i - 1]
    BY <1>2, <1>3, <2>2
  <2>. QED BY <2>1, <2>4, <2>5
<1>5. h[k - 1] = h[0] /\ h[k] = FundedAfter(h[0], e)
  <2>1. k - 1 \in Nat /\ k - 1 < k /\ k - 1 \notin Bad
    BY <1>1, <1>4
  <2>2. h[k - 1] = h[0]
    BY <2>1
  <2>. QED BY <1>1, <1>2, <2>2
<1> PICK g : g = [i \in 0..N' |-> IF i < k THEN h[k] ELSE h[i + 1]]
  OBVIOUS
<1>6. \A i \in 0..N' : g[i] = IF i < k THEN h[k] ELSE h[i + 1]
  OBVIOUS
<1>7. g \in [0..N' -> Nat]
  <2>1. \A i \in 0..N' : (IF i < k THEN h[k] ELSE h[i + 1]) \in Nat
    BY <1>1, <1>2
  <2>. QED BY <2>1
<1>8. g[N'] = pool.funds
  <2>1. N' \in 0..N' /\ (N' < k => k = N) /\ N' + 1 = N
    BY <1>1
  <2>. QED BY <1>2, <1>6, <2>1
<1>9. g[0] = FundedAfter(h[0], e)
  <2>1. 0 \in 0..N' /\ 0 < k
    BY <1>1
  <2>. QED BY <1>5, <1>6, <2>1
<1>10. ASSUME NEW i \in 1..N' PROVE g[i] = FundedAfter(g[i - 1], Q'[i])
  <2>1. i \in 0..N' /\ i - 1 \in 0..N' /\ i \in 1..N /\ i + 1 \in 1..N
    BY <1>1
  <2>2. CASE i < k
    <3>1. g[i] = h[k] /\ g[i - 1] = h[k] /\ Q'[i] = Q[i]
      BY <1>1, <1>6, <2>1, <2>2 DEF Up
    <3>. QED BY <1>3, <2>1, <2>2, <3>1
  <2>3. CASE ~(i < k)
    <3>1. g[i] = h[i + 1] /\ Q'[i] = Q[i + 1]
      BY <1>1, <1>6, <2>1, <2>3 DEF Up
    <3>2. g[i - 1] = h[i]
      <4>1. i - 1 < k => i = k
        BY <1>1, <2>3
      <4>2. ~(i - 1 < k) => (i - 1) + 1 = i
        BY <1>1
      <4>. QED BY <1>6, <2>1, <4>1, <4>2
    <3>3. h[i + 1] = FundedAfter(h[(i + 1) - 1], Q[i + 1])
      BY <1>2, <2>1
    <3>4. (i + 1) - 1 = i
      BY <2>1
    <3>. QED BY <3>1, <3>2, <3>3, <3>4
  <2>. QED BY <2>2, <2>3
<1>. QED BY <1>7, <1>8, <1>9, <1>10

\* The same for payments.
LEMMA SharesTaken ==
    ASSUME IInv, NEW e, NEW k, Taken(e, k), NEW h, SharesRun(h)
    PROVE  \E g \in [0..N' -> Nat] :
              /\ g[N'] = pool.shares /\ g[0] = h[0] + ShareOf(e)
              /\ \A i \in 1..N' : g[i] = g[i - 1] + ShareOf(Q'[i])
<1>1. /\ N \in Nat /\ N' \in Nat /\ N' = N - 1 /\ k \in 1..N /\ Q[k] = e
      /\ \A i \in 1..N' : Q'[i] = Q[Up(k, i)]
      /\ \A i \in 1..N : Q[i] \in Events
  BY TakenQueue
<1>2. /\ h \in [0..N -> Nat] /\ h[N] = pool.shares
      /\ \A i \in 1..N : h[i] = h[i - 1] + ShareOf(Q[i])
  BY DEF SharesRun
<1>3. \A i \in 1..N : ShareOf(Q[i]) \in Nat
  BY <1>1, EventFields DEF ShareOf
<1> PICK s : s = ShareOf(e)
  OBVIOUS
<1>4. s \in Nat /\ h[k] = h[k - 1] + s
  BY <1>1, <1>2, <1>3
<1> PICK g : g = [i \in 0..N' |-> IF i < k THEN h[i] + s ELSE h[i + 1]]
  OBVIOUS
<1>5. \A i \in 0..N' : g[i] = IF i < k THEN h[i] + s ELSE h[i + 1]
  OBVIOUS
<1>6. g \in [0..N' -> Nat]
  <2>1. \A i \in 0..N' : (IF i < k THEN h[i] + s ELSE h[i + 1]) \in Nat
    BY <1>1, <1>2, <1>4
  <2>. QED BY <2>1
<1>7. g[N'] = pool.shares
  <2>1. N' \in 0..N' /\ (N' < k => k = N /\ N' = k - 1) /\ N' + 1 = N
    BY <1>1
  <2>. QED BY <1>2, <1>4, <1>5, <2>1
<1>8. g[0] = h[0] + s
  <2>1. 0 \in 0..N' /\ 0 < k
    BY <1>1
  <2>. QED BY <1>5, <2>1
<1>9. ASSUME NEW i \in 1..N' PROVE g[i] = g[i - 1] + ShareOf(Q'[i])
  <2>1. i \in 0..N' /\ i - 1 \in 0..N' /\ i \in 1..N /\ i + 1 \in 1..N
    BY <1>1
  <2>2. CASE i < k
    <3>1. g[i] = h[i] + s /\ g[i - 1] = h[i - 1] + s /\ Q'[i] = Q[i]
      BY <1>1, <1>5, <2>1, <2>2 DEF Up
    <3>2. h[i] = h[i - 1] + ShareOf(Q[i]) /\ h[i - 1] \in Nat /\ ShareOf(Q[i]) \in Nat
      BY <1>1, <1>2, <1>3, <2>1
    <3>. QED BY <1>4, <3>1, <3>2
  <2>3. CASE ~(i < k)
    <3>1. g[i] = h[i + 1] /\ Q'[i] = Q[i + 1]
      BY <1>1, <1>5, <2>1, <2>3 DEF Up
    <3>2. g[i - 1] = h[i]
      <4>1. i - 1 < k => i = k /\ g[i - 1] = h[i - 1] + s
        BY <1>1, <1>5, <2>1, <2>3
      <4>2. ~(i - 1 < k) => (i - 1) + 1 = i
        BY <1>1
      <4>. QED BY <1>4, <1>5, <2>1, <4>1, <4>2
    <3>3. h[i + 1] = h[(i + 1) - 1] + ShareOf(Q[i + 1])
      BY <1>2, <2>1
    <3>4. (i + 1) - 1 = i
      BY <2>1
    <3>. QED BY <3>1, <3>2, <3>3, <3>4
  <2>. QED BY <2>2, <2>3
<1>. QED BY <1>6, <1>7, <1>8, <1>9

\* What the event adds to the table is what its place in the queue added.
LEMMA TakenSums ==
    ASSUME IInv, NEW e, NEW k, Taken(e, k), Started(e) \/ Changed(e) \/ Dropped(e)
    PROVE  FundsOK' /\ SharesOK'
<1>1. N \in Nat /\ k \in 1..N /\ Q[k] = e /\ e \in Events /\ Fits(e) /\ pool' = pool
  BY TakenQueue, TakenIds
<1>2. damaged \subseteq damaged'
  BY DEF Started, Changed, Dropped
<1>3. ASSUME "funded" \notin damaged', pool.known PROVE FundsOK'
  <2>1. PICK h : FundsRun(h)
    BY <1>2, <1>3 DEF IInv, FundsOK
  <2>2. PICK g \in [0..N' -> Nat] :
              /\ g[N'] = pool.funds /\ g[0] = FundedAfter(h[0], e)
              /\ \A i \in 1..N' : g[i] = FundedAfter(g[i - 1], Q'[i])
    BY <2>1, FundsTaken
  <2>3. db'.round # Nil => FundedAfter(h[0], e) = db'.round.funded
    <3>1. CASE Started(e)
      <4>1. db'.round = Fresh(e) /\ e.type = "PoolCreated"
        BY <3>1, StartedFields
      <4>2. db'.round.funded = e.amount
        BY <1>1, <4>1, FreshIsRound
      <4>. QED BY <4>1, <4>2 DEF FundedAfter
    <3>2. CASE Changed(e)
      BY <2>1, <3>2 DEF Changed, RoundAfter, FundsRun, FundedAfter
    <3>3. CASE Dropped(e)
      <4>1. e.type # "PoolCreated" /\ (e.type = "PoolFunded" => db.round = Nil)
        BY <1>3, <3>3 DEF Dropped, AllColumns, Column, Harmless
      <4>. QED BY <2>1, <3>3, <4>1 DEF Dropped, FundsRun, FundedAfter
    <3>. QED BY <3>1, <3>2, <3>3
  <2>4. FundsRun(g)'
    BY <1>1, <2>2, <2>3 DEF FundsRun, FundedAfter
  <2>. QED BY <2>4 DEF FundsOK
<1>4. ASSUME "distributed" \notin damaged', pool.kind = "DGLite" => pool.known PROVE SharesOK'
  <2>1. PICK h : SharesRun(h)
    BY <1>2, <1>4 DEF IInv, SharesOK
  <2>2. PICK g \in [0..N' -> Nat] :
              /\ g[N'] = pool.shares /\ g[0] = h[0] + ShareOf(e)
              /\ \A i \in 1..N' : g[i] = g[i - 1] + ShareOf(Q'[i])
    BY <2>1, SharesTaken
  <2>3. DistributedNow' = DistributedNow + ShareOf(e)
    <3>1. DistributedNow \in Nat
      BY DEF IInv, DbOK, Round, DistributedNow
    <3>2. CASE Started(e)
      <4>1. db'.round = Fresh(e) /\ e.type = "PoolCreated" /\ db.round = Nil /\ Fresh(e) # Nil
        BY <3>2, StartedFields
      <4>2. db'.round.distributed = 0
        BY <1>1, <4>1, FreshIsRound
      <4>. QED BY <4>1, <4>2 DEF DistributedNow, ShareOf
    <3>3. CASE Changed(e)
      <4>1. db.round # Nil /\ db'.round # Nil /\ db'.round.distributed = db.round.distributed + ShareOf(e)
        BY <3>3, NilAssumption DEF Changed, RoundAfter
      <4>. QED BY <4>1 DEF DistributedNow
    <3>4. CASE Dropped(e)
      <4>1. ShareOf(e) = 0
        BY <1>1, <1>4, <3>4 DEF Dropped, Column, Harmless, ShareOf, Fits
      <4>. QED BY <3>1, <3>4, <4>1 DEF Dropped, DistributedNow
    <3>. QED BY <3>2, <3>3, <3>4
  <2>4. SharesRun(g)'
    BY <1>1, <2>1, <2>2, <2>3 DEF SharesRun, ShareOf
  <2>. QED BY <2>4 DEF SharesOK
<1>. QED BY <1>1, <1>3, <1>4 DEF FundsOK, SharesOK

\* The sums of the first payouts exist for every number of them.
Sums(s, n, f) == f = [i \in 0..n |-> IF i = 0 THEN 0 ELSE f[i - 1] + s[i].amount]

\* They are defined however many payouts there are.
LEMMA SumsExist ==
    ASSUME NEW s, NEW n \in Nat
    PROVE  \E f : Sums(s, n, f)
<1> DEFINE Bad == {k \in Nat : ~\E f : Sums(s, k, f)}
<1> SUFFICES ASSUME Bad # {} PROVE FALSE
  OBVIOUS
<1>1. PICK k \in Bad : \A j \in Bad : k <= j
  BY LeastElement
<1>2. CASE k = 0
  <2>1. Sums(s, 0, [i \in 0..0 |-> 0])
    BY DEF Sums
  <2>. QED BY <1>2, <2>1
<1>3. CASE k # 0
  <2>1. k - 1 \in Nat /\ k - 1 \notin Bad
    BY <1>1, <1>3
  <2>2. PICK f : Sums(s, k - 1, f)
    BY <2>1
  <2> DEFINE g == [i \in 0..k |-> IF i < k THEN f[i] ELSE f[k - 1] + s[k].amount]
  <2>3. ASSUME NEW i \in 0..k
        PROVE  g[i] = IF i = 0 THEN 0 ELSE g[i - 1] + s[i].amount
    <3>1. CASE i = k
      BY <1>3, <2>1, <3>1
    <3>2. CASE i # k
      <4>1. i \in 0..(k - 1) /\ i < k
        BY <1>3, <2>1, <3>2
      <4>2. f[i] = IF i = 0 THEN 0 ELSE f[i - 1] + s[i].amount
        BY <2>2, <4>1 DEF Sums
      <4>3. i # 0 => i - 1 \in 0..k /\ i - 1 < k
        BY <4>1
      <4>. QED BY <4>1, <4>2, <4>3
    <3>. QED BY <3>1, <3>2
  <2>4. g = [i \in 0..k |-> g[i]]
    OBVIOUS
  <2> HIDE DEF g
  <2>5. Sums(s, k, g)
    BY <2>3, <2>4 DEF Sums
  <2>. QED BY <1>1, <2>5
<1>. QED BY <1>2, <1>3

\* The sum of the payouts is the last of these sums.
SumOf(s) ==
    LET sum[i \in 0..Len(s)] == IF i = 0 THEN 0 ELSE sum[i - 1] + s[i].amount
    IN  sum[Len(s)]
Summed(s, f) ==
    /\ f[0] = 0
    /\ \A i \in 1..Len(s) : f[i] = f[i - 1] + s[i].amount
    /\ SumOf(s) = f[Len(s)]

\* The payouts have such sums.
LEMMA SumRun ==
    ASSUME NEW s, Len(s) \in Nat
    PROVE  \E f : Summed(s, f)
<1> DEFINE f == CHOOSE f : Sums(s, Len(s), f)
<1>1. Sums(s, Len(s), f)
  BY SumsExist
<1>2. SumOf(s) = f[Len(s)]
  BY DEF SumOf, Sums
<1> HIDE DEF f
<1>3. f[0] = 0 /\ \A i \in 1..Len(s) : f[i] = f[i - 1] + s[i].amount
  BY <1>1 DEF Sums
<1>. QED BY <1>2, <1>3 DEF Summed

\* No payout, and one payout more.
LEMMA SumNone == SumOf(<<>>) = 0
<1> PICK s : s = <<>>
  OBVIOUS
<1>1. Len(s) = 0 /\ Len(s) \in Nat
  OBVIOUS
<1>2. PICK f : Summed(s, f)
  BY <1>1, SumRun
<1>. QED BY <1>1, <1>2 DEF Summed

\* A payout adds its amount.
LEMMA SumMore ==
    ASSUME NEW C, NEW s \in Seq(C), NEW p \in C
    PROVE  SumOf(Append(s, p)) = SumOf(s) + p.amount
<1> PICK n, t : n = Len(s) /\ t = Append(s, p)
  OBVIOUS
<1>1. n \in Nat /\ Len(t) = n + 1 /\ t[n + 1] = p /\ \A i \in 1..n : t[i] = s[i]
  OBVIOUS
<1>2. Len(t) \in Nat /\ Len(s) \in Nat
  BY <1>1
<1>3. PICK f : Summed(s, f)
  BY <1>2, SumRun
<1>4. PICK g : Summed(t, g)
  BY <1>2, SumRun
<1>5. f[0] = 0 /\ (\A i \in 1..n : f[i] = f[i - 1] + s[i].amount) /\ SumOf(s) = f[n]
  BY <1>3 DEF Summed
<1>6. g[0] = 0 /\ (\A i \in 1..(n + 1) : g[i] = g[i - 1] + t[i].amount) /\ SumOf(t) = g[n + 1]
  BY <1>1, <1>4 DEF Summed
<1> DEFINE Bad == {i \in Nat : i <= n /\ f[i] # g[i]}
<1>7. Bad = {}
  <2> SUFFICES ASSUME Bad # {} PROVE FALSE
    OBVIOUS
  <2>1. PICK k \in Bad : \A j \in Bad : k <= j
    BY LeastElement
  <2>2. k # 0 /\ k \in 1..n
    BY <1>1, <1>5, <1>6, <2>1
  <2>3. k - 1 \in Nat /\ k - 1 \notin Bad
    BY <2>1, <2>2
  <2>4. f[k - 1] = g[k - 1]
    BY <1>1, <2>2, <2>3
  <2>5. f[k] = f[k - 1] + s[k].amount /\ g[k] = g[k - 1] + t[k].amount /\ t[k] = s[k]
    BY <1>1, <1>5, <1>6, <2>2
  <2>. QED BY <2>1, <2>4, <2>5
<1>8. f[n] = g[n]
  BY <1>1, <1>7
<1>9. g[n + 1] = g[n] + p.amount
  BY <1>1, <1>6
<1>. QED BY <1>5, <1>6, <1>8, <1>9

\* The amount distributed is the sum of the payouts still.
LEMMA TakenPayouts ==
    ASSUME IInv, NEW e, NEW k, Taken(e, k), Started(e) \/ Changed(e) \/ Dropped(e)
    PROVE  PayoutsOK'
<1> SUFFICES ASSUME pool.kind = "DGLite", db'.round # Nil PROVE db'.round.distributed = Paid'
  BY TakenIds DEF PayoutsOK
<1>1. e \in Events /\ Fits(e)
  BY TakenQueue
<1>2. Paid = SumOf(db.payouts)
  BY DEF Paid, SumOf
<1>3. Paid' = SumOf(db'.payouts)
  BY DEF Paid, SumOf
<1>4. db.round # Nil => db.round.distributed = SumOf(db.payouts)
  BY <1>2 DEF IInv, PayoutsOK
<1>5. CASE Started(e)
  <2>1. db'.round = Fresh(e) /\ e.type = "PoolCreated" /\ db'.payouts = <<>>
    BY <1>5, StartedFields
  <2>2. db'.round.distributed = 0
    BY <1>1, <2>1, FreshIsRound
  <2>. QED BY <1>3, <2>1, <2>2, SumNone
<1>6. CASE Changed(e)
  <2>1. /\ db.round # Nil
        /\ db'.round.distributed = db.round.distributed + ShareOf(e)
        /\ db'.payouts = IF e.type = "Allocated"
                         THEN Append(db.payouts, [recipient |-> e.recipient, amount |-> e.amount])
                         ELSE db.payouts
    BY <1>6 DEF Changed, RoundAfter, TablesAfter
  <2>2. db.payouts \in Seq([recipient : Recipients, amount : Nat]) /\ db.round.distributed \in Nat
    BY <2>1 DEF IInv, DbOK, Round
  <2>3. CASE e.type = "Allocated"
    <3>1. PICK p : p = [recipient |-> e.recipient, amount |-> e.amount]
      OBVIOUS
    <3>2. p \in [recipient : Recipients, amount : Nat] /\ p.amount = e.amount
      BY <1>1, <2>3, <3>1, EventFields
    <3>3. SumOf(Append(db.payouts, p)) = SumOf(db.payouts) + p.amount
      BY <2>2, <3>2, SumMore
    <3>4. ShareOf(e) = e.amount
      BY <2>3 DEF ShareOf
    <3>. QED BY <1>3, <1>4, <2>1, <2>3, <3>1, <3>2, <3>3, <3>4
  <2>4. CASE e.type # "Allocated"
    <3>1. ShareOf(e) = 0
      BY <1>1, <2>4 DEF ShareOf, Fits
    <3>. QED BY <1>3, <1>4, <2>1, <2>2, <2>4, <3>1
  <2>. QED BY <2>3, <2>4
<1>7. CASE Dropped(e)
  BY <1>3, <1>4, <1>7 DEF Dropped
<1>. QED BY <1>5, <1>6, <1>7

\* Each donation has an id of its own, and the round counts them.
LEMMA TakenDonations ==
    ASSUME IInv, NEW e, NEW k, Taken(e, k), Started(e) \/ Changed(e) \/ Dropped(e)
    PROVE  DonationsOK'
<1>1. /\ N \in Nat /\ k \in 1..N /\ Q[k] = e /\ e \in Events /\ Fits(e) /\ emitted' = emitted
      /\ NeedsHandler(e) => k = 1
      /\ \A i \in 1..N' : Up(k, i) \in 1..N /\ Up(k, i) # k /\ Q'[i] = Q[Up(k, i)]
      /\ \A i, j \in 1..N' : i < j <=> Up(k, i) < Up(k, j)
  BY TakenQueue DEF Taken
<1>2. /\ DonationsOK /\ IsFiniteSet(db.donations) /\ db.donations \subseteq [id : Nat, donor : Donors]
      /\ db.round \in Round \cup {Nil}
  BY DEF IInv, DbOK
<1>3. CASE e.type = "DirectAllocated" /\ Changed(e)
  <2>1. /\ db.round # Nil /\ db'.donations = db.donations \cup {Donation(e)}
        /\ db'.round.count = db.round.count + 1
        /\ db'.round.donors = Cardinality({n.donor : n \in db'.donations})
    BY <1>3 DEF Changed, TablesAfter
  <2>2. k = 1 /\ e \in Directs /\ e.id < emitted /\ Donation(e).id = e.id
    BY <1>1, <1>3 DEF NeedsHandler, AlloEvents, Directs, Fits, Donation
  <2>3. \A d \in db.donations : d.id < e.id /\ d.id \in Nat
    BY <1>1, <1>2, <2>2 DEF DonationsOK
  <2>4. e.id \in Nat
    BY <1>1, <1>3, EventFields
  <2>5. Donation(e) \notin db.donations
    BY <2>2, <2>3, <2>4
  <2>6. Cardinality(db'.donations) = Cardinality(db.donations) + 1
    BY <1>2, <2>1, <2>5, FS_AddElement, ZenonT(60)
  <2>7. \A d \in db'.donations : d.id < emitted'
    BY <1>1, <1>2, <2>1, <2>2 DEF DonationsOK
  <2>8. ASSUME NEW i \in 1..N', Q'[i] \in Directs
        PROVE  /\ \A d \in db'.donations : d.id < Q'[i].id
               /\ \A j \in 1..N' : i < j /\ Q'[j] \in Directs => Q'[i].id < Q'[j].id
    <3>1. Up(k, i) \in 1..N /\ k < Up(k, i) /\ Q[Up(k, i)] \in Directs /\ Q'[i] = Q[Up(k, i)]
      BY <1>1, <2>2, <2>8
    <3>2. e.id < Q'[i].id
      BY <1>1, <1>2, <2>2, <3>1 DEF DonationsOK
    <3>3. \A d \in db.donations : d.id < Q'[i].id
      BY <1>2, <3>1 DEF DonationsOK
    <3>4. \A j \in 1..N' : i < j /\ Q'[j] \in Directs => Q'[i].id < Q'[j].id
      BY <1>1, <1>2, <3>1 DEF DonationsOK
    <3>. QED BY <2>1, <2>2, <3>2, <3>3, <3>4
  <2>9. db'.round.count = Cardinality(db'.donations)
    BY <1>2, <2>1, <2>6 DEF DonationsOK
  <2>. QED BY <2>1, <2>7, <2>8, <2>9 DEF DonationsOK
<1>4. CASE ~(e.type = "DirectAllocated" /\ Changed(e))
  <2>1. db'.donations = db.donations
    <3>1. Started(e) => db'.donations = {} /\ db.donations = {}
      BY StartedFields
    <3>. QED BY <1>4, <3>1 DEF Changed, Dropped, TablesAfter
  <2>2. db'.round # Nil =>
          /\ db'.round.count = Cardinality(db'.donations)
          /\ db'.round.donors = Cardinality({d.donor : d \in db'.donations})
    <3>1. CASE Started(e)
      <4>1. /\ db'.round = Fresh(e) /\ e.type = "PoolCreated" /\ db'.donations = {}
        BY <3>1, StartedFields
      <4>2. db'.round.count = 0 /\ db'.round.donors = 0
        BY <1>1, <4>1, FreshIsRound
      <4>3. {d.donor : d \in db'.donations} = {} /\ Cardinality({}) = 0
        BY <4>1, FS_EmptySet
      <4>. QED BY <4>1, <4>2, <4>3
    <3>2. CASE Changed(e)
      <4>1. db.round # Nil /\ db'.round.count = db.round.count /\ db'.round.donors = db.round.donors
        BY <1>4, <3>2 DEF Changed, RoundAfter
      <4>. QED BY <1>2, <2>1, <4>1 DEF DonationsOK
    <3>3. CASE Dropped(e)
      BY <1>2, <3>3 DEF Dropped, DonationsOK
    <3>. QED BY <3>1, <3>2, <3>3
  <2>3. ASSUME NEW i \in 1..N', Q'[i] \in Directs
        PROVE  /\ \A d \in db'.donations : d.id < Q'[i].id
               /\ \A j \in 1..N' : i < j /\ Q'[j] \in Directs => Q'[i].id < Q'[j].id
    BY <1>1, <1>2, <2>1, <2>3 DEF DonationsOK
  <2>. QED BY <1>1, <1>2, <2>1, <2>2, <2>3 DEF DonationsOK
<1>. QED BY <1>3, <1>4

\* All parts together.
LEMMA TakenKeeps ==
    ASSUME IInv, NEW e, NEW k, Taken(e, k), Started(e) \/ Changed(e) \/ Dropped(e)
    PROVE  IInv'
BY TakenTypes, TakenTables, TakenCreation, TakenApps, TakenArrives, TakenStatus, TakenValues,
   TakenTimings, TakenSums, TakenPayouts, TakenDonations DEF IInv
-----------------------------------------------------------------------------
(* The invariant. *)

\* It holds before the pool is created,
LEMMA InitHolds == Init => IInv
<1> SUFFICES ASSUME Init PROVE IInv
  OBVIOUS
<1>1. /\ pool \in PoolType /\ ~pool.created /\ pool.times = Nil /\ pool.funds = 0 /\ pool.meta = 0
      /\ pool.final = Nil /\ pool.index = <<>> /\ pool.status = <<>> /\ pool.shares = 0
  <2>1. /\ pool = [kind |-> pool.kind, known |-> pool.known, created |-> FALSE, times |-> Nil,
                    funds |-> 0, meta |-> 0, final |-> Nil, index |-> <<>>, status |-> <<>>,
                    paid |-> {}, shares |-> 0]
        /\ pool.kind \in Kinds /\ pool.known \in BOOLEAN
    BY DEF Init
  <2>2. <<>> \in Seq(Recipients) /\ <<>> \in Seq(Statuses) /\ {} \in SUBSET Nat
    OBVIOUS
  <2>3. pool \in PoolType
    <3>1. ASSUME NEW kind \in Kinds, NEW known \in BOOLEAN, NEW created \in BOOLEAN
          PROVE  [kind |-> kind, known |-> known, created |-> created, times |-> Nil,
                  funds |-> 0, meta |-> 0, final |-> Nil, index |-> <<>>, status |-> <<>>,
                  paid |-> {}, shares |-> 0] \in PoolType
      BY <2>2 DEF PoolType
    <3>2. FALSE \in BOOLEAN
      OBVIOUS
    <3>. QED BY <2>1, <3>1, <3>2, Zenon
  <2>. QED BY <2>1, <2>3
<1>2. /\ feed = <<>> /\ skipped = <<>> /\ handled \in BOOLEAN /\ early = FALSE /\ half = Nil /\ cache = Nil
      /\ damaged = {} /\ emitted = 0 /\ failed = 0 /\ lost = 0
      /\ db = [round |-> Nil, apps |-> <<>>, payouts |-> <<>>, donations |-> {}]
  BY DEF Init
<1>3. Q = <<>> /\ N = 0
  BY <1>2 DEF Q, N
<1>4. Ids = {} /\ IsFiniteSet(Ids) /\ db.apps = [id \in Ids |-> db.apps[id]]
  BY <1>2, FS_EmptySet DEF Ids
<1>5. db.round = Nil /\ db.apps = <<>> /\ db.payouts = <<>> /\ db.donations = {} /\ IsFiniteSet(db.donations)
  BY <1>2, FS_EmptySet
<1>6. VarTypes
  <2>1. <<>> \in Seq(Events) /\ <<>> \in Seq(StrategyEvent)
    OBVIOUS
  <2>2. early \in BOOLEAN
    BY <1>2
  <2>3. half \in Dates /\ cache \in Timing \cup {Nil} /\ damaged \subseteq AllColumns
    BY <1>2 DEF Dates
  <2>. QED BY <1>1, <1>2, <2>1, <2>2, <2>3 DEF VarTypes
<1>7. DbOK
  BY <1>2, <1>4, <1>5 DEF DbOK
<1>8. Timed \/ ~Timed
  OBVIOUS
<1>9. PoolOK
  <2>1. DOMAIN pool.index = {} /\ Len(pool.status) = Len(pool.index)
    BY <1>1
  <2>. QED BY <1>1, <1>2, <1>3, <1>5, <2>1 DEF PoolOK
<1>10. BuildOK /\ EventsFit
  BY <1>2, <1>3 DEF BuildOK, EventsFit
<1>11. DOMAIN pool.index = {}
  BY <1>1
<1>12. CreationOK /\ AppsOK /\ Arrives /\ StatusOK
  BY <1>1, <1>2, <1>3, <1>4, <1>5, <1>11 DEF CreationOK, AppsOK, Arrives, StatusOK
<1>13. FinalOK /\ MatchOK /\ TimesOK /\ StoredOK
  <2>1. Timed /\ ~handled /\ Without(TimesEvents) => Without(Creations)
    BY <1>3 DEF Without
  <2>. QED BY <1>1, <1>2, <1>3, <1>5, <2>1 DEF FinalOK, FinalNow, MatchOK, TimesOK, StoredOK
<1>14. FundsOK /\ SharesOK
  <2> PICK h : h = [i \in 0..N |-> 0]
    OBVIOUS
  <2>1. h \in [0..N -> Nat] /\ h[N] = 0 /\ h[0] = 0 /\ 1..N = {}
    BY <1>3
  <2>2. FundsRun(h)
    BY <1>1, <1>5, <2>1 DEF FundsRun
  <2>3. SharesRun(h)
    BY <1>1, <1>5, <2>1 DEF SharesRun, DistributedNow
  <2>. QED BY <2>2, <2>3 DEF FundsOK, SharesOK
<1>15. PayoutsOK /\ DonationsOK
  BY <1>3, <1>5 DEF PayoutsOK, DonationsOK
<1>. QED BY <1>6, <1>7, <1>9, <1>10, <1>12, <1>13, <1>14, <1>15 DEF IInv

\* and every step keeps it.
LEMMA NextKeeps == IInv /\ [Next]_vars => IInv'
<1> SUFFICES ASSUME IInv, [Next]_vars PROVE IInv'
  OBVIOUS
<1>1. CASE Create
  BY <1>1, CreateBorn, BornKeeps
<1>2. CASE SetsTimes \/ Funds \/ SetsMetadata \/ Registers \/ Updates \/ Reviews
           \/ Finalizes \/ Pays \/ Allocates
  BY <1>2, Announces, AnnouncedKeeps
<1>3. CASE ReadHalf \/ Bootstrap \/ NewBuild
  BY <1>3, ReadHalfKeeps, BootstrapKeeps, NewBuildKeeps
<1>4. ASSUME NEW e \in ToSet(feed), Step(e) PROVE IInv'
  <2>1. CASE Handle(e) \/ Refuse(e) \/ GiveUp(e)
    BY <2>1, TakeStep, TakenKeeps
  <2>2. CASE Skip(e) \/ Fail(e)
    BY <2>2, SkipKeeps, FailKeeps
  <2>. QED BY <1>4, <2>1, <2>2 DEF Step
<1>5. CASE UNCHANGED vars
  BY <1>5, StutterKeeps
<1>. QED BY <1>1, <1>2, <1>3, <1>4, <1>5 DEF Next

\* What is missing in each column is still in the queue, always.
THEOREM Inductive == Spec => []IInv
<1>1. Init => IInv
  BY InitHolds
<1>2. IInv /\ [Next]_vars => IInv'
  BY NextKeeps
<1>. QED BY <1>1, <1>2, PTL DEF Spec
-----------------------------------------------------------------------------
(* The properties. *)

\* With nothing left to be handled the queue is empty.
LEMMA SettledQueue ==
    ASSUME Settled
    PROVE  N = 0 /\ db.round # Nil /\ \A C : Without(C)
<1>1. Q = <<>>
  BY DEF Settled, Q
<1>2. N = 0
  BY <1>1 DEF N
<1>. QED BY <1>2 DEF Settled, Without

\* The changes of an update of applications that are there.
LEMMA UpdatesTyped ==
    ASSUME NEW X, X \subseteq Ids, IsFiniteSet(X), NEW cols
    PROVE  \A ch \in ToSet(SetToSeq(UpdatesOf(X, cols))) : IsChangeset(ch)
<1>1. \A id \in X : IsChangeset(UpdateApplication(id, cols[id]))
  BY DEF IsChangeset, IsApplicationChangeset, UpdateApplication
<1>2. /\ SetToSeq(UpdatesOf(X, cols)) \in Seq(UpdatesOf(X, cols))
      /\ \A i \in 1..Len(SetToSeq(UpdatesOf(X, cols))) :
            \E id \in X : SetToSeq(UpdatesOf(X, cols))[i] = UpdateApplication(id, cols[id])
  BY UpdatesSeq
<1> DEFINE s == SetToSeq(UpdatesOf(X, cols))
<1>3. DOMAIN s = 1..Len(s)
  BY <1>2
<1> HIDE DEF s
<1>4. \A i \in DOMAIN s : IsChangeset(s[i])
  BY <1>1, <1>2, <1>3 DEF s
<1>5. \A ch \in ToSet(s) : IsChangeset(ch)
  BY <1>4 DEF ToSet
<1>. QED BY <1>5 DEF s

\* A new value of a column leaves the row a round.
LEMMA ColumnTyped ==
    ASSUME NEW r \in Round
    PROVE  /\ \A m \in Nat : [r EXCEPT !.match = m] \in Round
           /\ \A t \in Timing : [r EXCEPT !.timings = t] \in Round
           /\ \A f \in Nat : [r EXCEPT !.final = f] \in Round
BY DEF Round

\* An update of such a column is a change the data loader takes.
LEMMA UpdateRoundTyped ==
    ASSUME NEW v
    PROVE  /\ (db.round # Nil => [db.round EXCEPT !.match = v] \in Round)
                 => IsChangeset(UpdateRound([match |-> v]))
           /\ (db.round # Nil => [db.round EXCEPT !.timings = v] \in Round)
                 => IsChangeset(UpdateRound([timings |-> v]))
           /\ (db.round # Nil => [db.round EXCEPT !.final = v] \in Round)
                 => IsChangeset(UpdateRound([final |-> v]))
BY DEF IsChangeset, IsRoundChangeset, UpdateRound

\* Every change a handler asks for is one the data loader takes.
LEMMA ChangesTyped ==
    ASSUME IInv, NEW e \in Events, Fits(e), ~Throws(e)
    PROVE  \A ch \in ToSet(Changes(e)) : IsChangeset(ch)
<1>1. DbOK /\ VarTypes /\ db.round \in Round \cup {Nil} /\ (pool.kind # "DGSimple" => Ids \subseteq Nat)
  BY SMTT(60) DEF IInv, DbOK, AppsOK, IdOf, VarTypes, PoolType
<1>2. \A a : ToSet(<<a>>) = {a}
  BY DEF ToSet
<1>3. \A a, b : ToSet(<<a, b>>) = {a, b}
  BY DEF ToSet
<1>4. ToSet(<<>>) = {}
  BY DEF ToSet
<1>5. \A n \in Nat : IsChangeset(DistributedBy(n)) /\ IsChangeset(FundedBy(n))
  BY DEF IsChangeset, IsRoundChangeset, DistributedBy, FundedBy
<1>6. CASE e.type = "PoolCreated"
  <2>1. Changes(e) = <<InsertRound(Fresh(e))>>
    BY <1>6 DEF Changes, PoolCreated, Fresh
  <2>2. Fresh(e) \in Round
    BY <1>6, FreshIsRound
  <2>3. IsChangeset(InsertRound(Fresh(e)))
    BY <2>2 DEF IsChangeset, IsRoundChangeset, InsertRound
  <2>. QED BY <1>2, <2>1, <2>3
<1>7. CASE e.type = "PoolFunded"
  <2>1. Changes(e) = <<FundedBy(e.amount)>>
    BY <1>7 DEF Changes, PoolFunded
  <2>2. e.amount \in Nat
    BY <1>7, EventFields
  <2>. QED BY <1>2, <1>5, <2>1, <2>2
<1>8. CASE e.type = "PoolMetadataUpdated"
  <2>1. Changes(e) = <<>> \/ Changes(e) = <<UpdateRound([match |-> e.meta])>>
    BY <1>8 DEF Changes, PoolMetadataUpdated
  <2>2. e.meta \in Nat
    BY <1>8, EventFields
  <2>3. IsChangeset(UpdateRound([match |-> e.meta]))
    BY <1>1, <2>2, ColumnTyped, UpdateRoundTyped
  <2>. QED BY <1>2, <1>4, <2>1, <2>3
<1>9. CASE e.type = "TimestampsUpdated"
  <2>1. Changes(e) = <<UpdateRound([timings |-> Later(e)])>>
    BY <1>1, <1>9, TimesChanges
  <2>2. db.round # Nil => Later(e) \in Timing
    BY <1>1, <1>9, LaterIsTiming
  <2>3. db.round # Nil => [db.round EXCEPT !.timings = Later(e)] \in Round
    BY <1>1, <2>2, ColumnTyped
  <2>4. IsChangeset(UpdateRound([timings |-> Later(e)]))
    BY <2>3, UpdateRoundTyped
  <2>. QED BY <1>2, <2>1, <2>4
<1>10. CASE e.type = "DistributionUpdated"
  <2>1. Changes(e) = <<UpdateRound([final |-> e.final])>>
    BY <1>10, FinalChanges
  <2>2. e.final \in Nat
    BY <1>10, EventFields
  <2>3. IsChangeset(UpdateRound([final |-> e.final]))
    BY <1>1, <2>2, ColumnTyped, UpdateRoundTyped
  <2>. QED BY <1>2, <2>1, <2>3
<1>11. CASE e.type = "Registered"
  <2>1. Changes(e) = <<NewApplicationChange(e)>>
    BY <1>1, <1>11, RegisteredChanges
  <2>2. NewRow(e) \in Application
    <3>1. e.recipient \in Recipients
      BY <1>11, EventFields
    <3>2. ASSUME NEW b \in BOOLEAN
          PROVE  [recipient |-> e.recipient, status |-> "PENDING", distribution |-> b] \in Application
      BY <3>1 DEF Application, Statuses
    <3>. QED BY <3>2, Zenon DEF NewRow
  <2>3. IsChangeset(NewApplicationChange(e))
    BY <2>2 DEF IsChangeset, IsApplicationChangeset, NewApplicationChange
  <2>. QED BY <1>2, <2>1, <2>3
<1>12. CASE e.type = "UpdatedRegistration"
  BY <1>1, <1>12, UpdatedChanges, UpdatesTyped
<1>13. CASE e.type = "RecipientStatusUpdated"
  <2>1. Ids \subseteq Nat
    BY <1>1, <1>13 DEF Fits
  <2>. QED BY <1>1, <1>13, <2>1, ReviewedChanges, UpdatesTyped
<1>14. CASE e.type = "FundsDistributed"
  <2> PICK X, cols : X = ApplicationIds(e.recipient) /\ cols = MarkColumns(e)
    OBVIOUS
  <2>1. /\ Changes(e) = SetToSeq(UpdatesOf(X, cols)) \o <<DistributedBy(e.amount)>>
        /\ X \subseteq Ids /\ IsFiniteSet(X)
    BY <1>1, <1>14, PaidChanges
  <2>2. \A ch \in ToSet(SetToSeq(UpdatesOf(X, cols))) : IsChangeset(ch)
    BY <2>1, UpdatesTyped
  <2>3. SetToSeq(UpdatesOf(X, cols)) \in Seq(UpdatesOf(X, cols))
    BY <2>1, UpdatesSeq
  <2> PICK s, b : s = SetToSeq(UpdatesOf(X, cols)) /\ b = DistributedBy(e.amount)
    OBVIOUS
  <2>4. e.amount \in Nat
    BY <1>14, EventFields
  <2>5. IsChangeset(b)
    BY <1>5, <2>4
  <2>6. \A i \in DOMAIN (s \o <<b>>) : (i \in DOMAIN s /\ (s \o <<b>>)[i] = s[i]) \/ (s \o <<b>>)[i] = b
    BY <2>3
  <2>7. \A i \in DOMAIN (s \o <<b>>) : IsChangeset((s \o <<b>>)[i])
    BY <2>2, <2>5, <2>6 DEF ToSet
  <2>. QED BY <2>1, <2>7 DEF ToSet
<1>15. CASE e.type = "Distributed"
  <2>1. e.amount \in Nat
    BY <1>15, EventFields
  <2>. QED BY <1>2, <1>4, <1>5, <1>15, <2>1, DistributedChanges
<1>16. CASE e.type = "Allocated"
  <2> PICK ch : ch = [type |-> "InsertApplicationPayout", recipient |-> e.recipient, amount |-> e.amount]
    OBVIOUS
  <2>1. e.amount \in Nat
    BY <1>16, EventFields
  <2>2. IsChangeset(ch)
    BY <2>1 DEF IsChangeset, IsPayoutChangeset
  <2>3. Changes(e) = <<ch, DistributedBy(e.amount)>>
    BY <1>16, AllocatedChanges
  <2>. QED BY <1>3, <1>5, <2>1, <2>2, <2>3
<1>17. CASE e.type = "DirectAllocated"
  <2> PICK ch, st : /\ ch = [type |-> "InsertDonation", id |-> e.id, donor |-> e.donor]
                    /\ st = [type |-> "IncrementRoundDonationStats"]
    OBVIOUS
  <2>1. e.donor \in Donors
    BY <1>17, EventFields
  <2>2. IsChangeset(ch)
    BY <2>1 DEF IsChangeset, IsDonationChangeset
  <2>3. IsChangeset(st)
    BY DEF IsChangeset, IsRoundChangeset
  <2>4. Changes(e) = <<ch, st>>
    BY <1>17, DirectChanges
  <2>. QED BY <1>3, <2>2, <2>3, <2>4
<1>. QED BY <1>6, <1>7, <1>8, <1>9, <1>10, <1>11, <1>12, <1>13, <1>14, <1>15, <1>16, <1>17, EventTypes

\* The variables keep their types, and the data loader has a handler for every
\* change the next event asks for: the round, application, donation or payout of
\* each is complete, and an application that is updated is there.
THEOREM TypesHold == Spec => []TypeOK
<1>1. IInv => TypeOK
  <2> SUFFICES ASSUME IInv PROVE TypeOK
    OBVIOUS
  <2>1. VarTypes /\ DbOK
    BY DEF IInv
  <2>2. pool.kind \in Kinds /\ pool.times \in Times \cup {Nil}
    BY <2>1, PoolFields DEF VarTypes
  <2>3. \A i \in DOMAIN feed : feed[i] \in AlloEvent \cup StrategyEvent
    BY <2>1 DEF VarTypes, Events
  <2>4. \A i \in DOMAIN skipped : skipped[i] \in StrategyEvent
    BY <2>1 DEF VarTypes
  <2>5. ASSUME NEW e \in ToSet(feed), e = Head(feed), ~Throws(e)
        PROVE  \A ch \in ToSet(Changes(e)) : IsChangeset(ch)
    <3>1. feed \in Seq(Events) /\ skipped \in Seq(StrategyEvent) /\ feed # <<>>
      BY <2>1, <2>5 DEF VarTypes, ToSet
    <3>2. PICK k \in 1..N : Q[k] = e
      <4>1. skipped \in Seq(Events)
        BY <3>1 DEF Events
      <4>2. e = feed[1] /\ Len(feed) \in Nat \ {0} /\ Len(skipped) \in Nat
        BY <2>5, <3>1
      <4>3. Len(Q) = Len(skipped) + Len(feed) /\ Q[Len(skipped) + 1] = feed[1]
        BY <3>1, <4>1, <4>2 DEF Q
      <4>. QED BY <4>2, <4>3 DEF N
    <3>3. e \in Events /\ Fits(e)
      BY <2>1, <3>2, QFacts DEF IInv, EventsFit
    <3>. QED BY <2>5, <3>3, ChangesTyped
  <2>6. \A e \in ToSet(feed) :
          e = Head(feed) /\ (NeedsHandler(e) => handled) /\ ~Throws(e)
              => \A ch \in ToSet(Changes(e)) : IsChangeset(ch)
    BY <2>5
  <2>. QED BY <2>1, <2>2, <2>3, <2>4, <2>6 DEF TypeOK, VarTypes, DbOK
<1>. QED BY <1>1, Inductive, PTL

\* A round whose events are handled has the times of its contract, however the
\* reads of the contract, attempts that fail, the bootstrap and later builds lay.
THEOREM TimingsFollow == Spec => []TimingsFollowContract
<1>1. IInv => TimingsFollowContract
  BY SettledQueue DEF IInv, TimesOK, TimingsFollowContract, Intact, Reread
<1>. QED BY <1>1, Inductive, PTL

\* Funds are counted once, those the pool is created with and those added later.
THEOREM FundsCounted == Spec => []FundsCountedOnce
<1>1. IInv => FundsCountedOnce
  <2> SUFFICES ASSUME IInv, Intact("funded"), pool.known PROVE db.round.funded = pool.funds
    BY DEF FundsCountedOnce
  <2>1. N = 0 /\ db.round # Nil
    BY SettledQueue DEF Intact
  <2>2. PICK h : FundsRun(h)
    BY DEF IInv, FundsOK, Intact
  <2>. QED BY <2>1, <2>2 DEF FundsRun
<1>. QED BY <1>1, Inductive, PTL

\* The match amount is that of the last metadata.
THEOREM MatchFollows == Spec => []MatchFollowsMetadata
<1>1. IInv => MatchFollowsMetadata
  BY SettledQueue DEF IInv, MatchOK, MatchFollowsMetadata, Intact, Matched
<1>. QED BY <1>1, Inductive, PTL

\* The totals of a round are those of the rows and payments they count.
THEOREM TotalsMatch == Spec => []TotalsMatchRows
<1>1. IInv => TotalsMatchRows
  <2> SUFFICES ASSUME IInv PROVE TotalsMatchRows
    OBVIOUS
  <2>1. ASSUME Intact("distributed"), pool.kind = "DGLite" => pool.known
        PROVE  db.round.distributed = pool.shares
    <3>1. N = 0 /\ db.round # Nil
      BY <2>1, SettledQueue DEF Intact
    <3>2. PICK h : SharesRun(h)
      BY <2>1 DEF IInv, SharesOK, Intact
    <3>. QED BY <3>1, <3>2 DEF SharesRun, DistributedNow
  <2>2. pool.kind = "DGLite" /\ db.round # Nil => db.round.distributed = Paid
    BY DEF IInv, PayoutsOK
  <2>3. db.round # Nil =>
          /\ db.round.count = Cardinality(db.donations)
          /\ db.round.donors = Cardinality({d.donor : d \in db.donations})
    BY DEF IInv, DonationsOK
  <2>. QED BY <2>1, <2>2, <2>3 DEF TotalsMatchRows
<1>. QED BY <1>1, Inductive, PTL

\* The application with a recipient's number is that recipient's, with its status.
THEOREM ApplicationsFollow == Spec => []ApplicationsFollowRecipients
<1>1. IInv => ApplicationsFollowRecipients
  <2> SUFFICES ASSUME IInv PROVE ApplicationsFollowRecipients
    OBVIOUS
  <2>1. DOMAIN pool.index \subseteq Nat /\ \A i \in DOMAIN pool.index : pool.index[i] \in Recipients
    BY DEF IInv, VarTypes, PoolType
  <2>2. ASSUME NEW id \in Ids, id \in Nat
        PROVE  id + 1 \in DOMAIN pool.index /\ db.apps[id].recipient = pool.index[id + 1]
    <3>1. PICK i \in DOMAIN pool.index : id = IdOf(i) /\ db.apps[id].recipient = pool.index[i]
      BY DEF IInv, AppsOK
    <3>2. id = i - 1
      BY <2>1, <2>2, <3>1, PoolsAssumption DEF IdOf
    <3>3. id + 1 = i
      BY <2>1, <3>2
    <3>. QED BY <3>1, <3>3
  <2>3. ASSUME Intact("apps"), NEW i \in DOMAIN pool.index
        PROVE  IdOf(i) \in Ids /\ db.apps[IdOf(i)].status = pool.status[i]
    <3> PICK C : C = Givers(i, pool.index[i])
      OBVIOUS
    <3>1. Without(C)
      BY <2>3, SettledQueue DEF Intact
    <3>. QED BY <2>3, <3>1 DEF IInv, StatusOK, Intact
  <2>. QED BY <2>2, <2>3 DEF ApplicationsFollowRecipients, IdOf
<1>. QED BY <1>1, Inductive, PTL

\* The round is ready for payout with the last distribution that could be read.
THEOREM FinalFollows == Spec => []FinalFollowsContract
<1>1. IInv => FinalFollowsContract
  BY SettledQueue DEF IInv, FinalOK, FinalNow, FinalFollowsContract, Intact
<1>. QED BY <1>1, Inductive, PTL
=============================================================================
