------------------------------ MODULE Pricing ------------------------------
(***************************************************************************)
(* CachingPricingProvider over the Coingecko provider, for one token, as   *)
(* the event handlers of several chains use it: getTokenPrice for the time *)
(* of one event, getTokenPrices to warm the cache for a batch of events.   *)
(*                                                                         *)
(* A price is known by the time it was quoted at, its origin.  A row of    *)
(* the cache has the time it is stored under and the origin of its price.  *)
(* Writes to the cache are not awaited: they land later, in any order, or  *)
(* fail.                                                                   *)
(***************************************************************************)
EXTENDS Integers, FiniteSets

CONSTANTS
    Chains,       \* the loops that share the cache
    Quotes,       \* times at which the source has a price
    Granularity,  \* MIN_GRANULARITY_MS
    Proximity,    \* PROXIMITY_FACTOR
    TimeDelta,    \* TIME_DELTA, length of the range asked for one price
    Lag,          \* how far behind the clock the source is trusted
    MaxTime,      \* bound: end of the clock
    MaxRequests,  \* bound: calls made
    MaxBatch      \* bound: times of a batch

ASSUME PricingAssumption ==
    /\ Quotes \subseteq Nat
    /\ Granularity \in Nat /\ Proximity \in Nat
    /\ TimeDelta \in Nat /\ Lag \in Nat
    /\ MaxTime \in Nat /\ MaxRequests \in Nat /\ MaxBatch \in Nat

VARIABLES
    now,       \* the clock
    cache,     \* priceCache table, rows [at, origin]
    writes,    \* rows on their way to the table
    asking,    \* what each loop waits for from the source
    answer,    \* the last call: times asked, what was searched, prices given
    requests

vars == <<now, cache, writes, asking, answer, requests>>

Times == 0..MaxTime
None == [at |-> -1, origin |-> -1]
Idle == [call |-> "none", times |-> {}]
NoAnswer == [call |-> "none", searched |-> {}, prices |-> {}]

Init ==
    /\ now = 0 /\ cache = {} /\ writes = {}
    /\ asking = [c \in Chains |-> Idle]
    /\ answer = NoAnswer /\ requests = 0

Tick ==
    /\ now < MaxTime /\ now' = now + 1
    /\ UNCHANGED <<cache, writes, asking, answer, requests>>

-----------------------------------------------------------------------------
(* The search for the closest price. *)

Window == Granularity * Proximity
Far(s, i, t) == s[i].at - t > Window \/ t - s[i].at > Window
NearRow(s, i, t) == IF Far(s, i, t) THEN None ELSE s[i]

\* The rows in the order of their times.
Sortings(rows) ==
    {s \in [1..Cardinality(rows) -> rows] :
        \A i, j \in 1..Cardinality(rows) : i < j => s[i].at < s[j].at}

\* Mutant: the search ends one row further.
MutantBisect(s, n, t) ==
    LET search[range \in (1..n) \X (1..n)] ==
            LET left == range[1]
                right == range[2]
                mid == (left + right) \div 2 IN
            IF left + 1 >= right THEN right
            ELSE IF s[mid].at = t THEN mid
            ELSE IF s[mid].at < t THEN search[<<mid, right>>] ELSE search[<<left, mid>>]
    IN search[<<1, n>>]

Bisect(s, n, t) ==
    LET search[range \in (1..n) \X (1..n)] ==
            LET left == range[1]
                right == range[2]
                mid == (left + right) \div 2 IN
            IF left + 1 >= right THEN left
            ELSE IF s[mid].at = t THEN mid
            ELSE IF s[mid].at < t THEN search[<<mid, right>>] ELSE search[<<left, mid>>]
    IN search[<<1, n>>]

\* s has n rows, in the order of their times.
FindClosest(s, n, t) ==
    IF n = 0 THEN None
    ELSE IF t <= s[1].at THEN s[1]
    ELSE IF t >= s[n].at THEN NearRow(s, n, t)
    ELSE NearRow(s, Bisect(s, n, t), t)

-----------------------------------------------------------------------------
(* The source. *)

Quoted(from, to) == {q \in Quotes : from <= q /\ q <= to /\ q <= now}

\* A range that ends after the time the source is trusted for is replaced by
\* the last one that does not.
Range1(t) ==
    IF now - Lag < t + TimeDelta THEN Quoted(now - Lag - TimeDelta, now - Lag)
                                 ELSE Quoted(t, t + TimeDelta)

Earliest(S) == CHOOSE q \in S : \A r \in S : q <= r
Latest(S) == CHOOSE q \in S : \A r \in S : q >= r

\* One hour at least.
RangeOf(T) ==
    LET longest == IF Latest(T) - Earliest(T) < Granularity
                   THEN Earliest(T) + Granularity ELSE Latest(T)
    IN Quoted(Earliest(T), longest)

-----------------------------------------------------------------------------
(* getTokenPrice, in the handler of an event at time t. *)

Call(c) ==
    /\ asking[c] = Idle
    /\ requests < MaxRequests /\ requests' = requests + 1

Rows(from, to) == {r \in cache : from <= r.at /\ r.at <= to}

\* Mutant: rows up to the far side of the event are searched.
MutantRowsBefore(t) == Rows(t - Window, t + Window)

RowsBefore(t) == Rows(t - Window, t)

Hit(c, t) ==
    /\ Call(c)
    /\ RowsBefore(t) # {}
    /\ \E s \in Sortings(RowsBefore(t)) :
          LET r == FindClosest(s, Cardinality(RowsBefore(t)), t) IN
          /\ r # None
          /\ answer' = [call |-> "price", searched |-> RowsBefore(t),
                        prices |-> {[at |-> t, origin |-> r.origin]}]
    /\ UNCHANGED <<now, cache, writes, asking>>

\* The cache has nothing, or cannot be read.
Miss(c, t) ==
    /\ Call(c)
    /\ asking' = [asking EXCEPT ![c] = [call |-> "price", times |-> {t}]]
    /\ UNCHANGED <<now, cache, writes, answer>>

Stored(t, q) == [at |-> t, origin |-> q]

Fetched(c, t) ==
    /\ asking[c] = [call |-> "price", times |-> {t}]
    /\ \E q \in Range1(t) :
          /\ \A r \in Range1(t) : q <= r
          /\ answer' = [call |-> "price", searched |-> {},
                        prices |-> {[at |-> t, origin |-> q]}]
          /\ writes' = writes \cup {Stored(t, q)}
    /\ asking' = [asking EXCEPT ![c] = Idle]
    /\ UNCHANGED <<now, cache, requests>>

\* The source fails or has no price: the handler throws.
Unavailable(c) ==
    /\ asking[c] # Idle
    /\ asking' = [asking EXCEPT ![c] = Idle]
    /\ answer' = NoAnswer
    /\ UNCHANGED <<now, cache, writes, requests>>

-----------------------------------------------------------------------------
(* getTokenPrices, for the times T of a batch. *)

\* What getClosestPrices gives for T, from the rows s; it throws when a time has none.
Closest(s, n, T) ==
    {[at |-> t, origin |-> FindClosest(s, n, t).origin] : t \in T}

HasAll(s, n, T) == \A t \in T : FindClosest(s, n, t) # None

RowsOf(T) == Rows(Earliest(T) - Granularity, Latest(T))

BulkHit(c, T) ==
    /\ Call(c)
    /\ \E s \in Sortings(RowsOf(T)) :
          /\ HasAll(s, Cardinality(RowsOf(T)), T)
          /\ answer' = [call |-> "prices", searched |-> RowsOf(T),
                        prices |-> Closest(s, Cardinality(RowsOf(T)), T)]
    /\ UNCHANGED <<now, cache, writes, asking>>

BulkMiss(c, T) ==
    /\ Call(c)
    /\ \E s \in Sortings(RowsOf(T)) : ~HasAll(s, Cardinality(RowsOf(T)), T)
    /\ asking' = [asking EXCEPT ![c] = [call |-> "prices", times |-> T]]
    /\ UNCHANGED <<now, cache, writes, answer>>

\* Every price is stored, then the times are looked up among them.
BulkFetched(c) ==
    LET T == asking[c].times
        rows == {Stored(q, q) : q \in RangeOf(T)} IN
    /\ asking[c].call = "prices"
    /\ writes' = writes \cup rows
    /\ \E s \in Sortings(rows) :
          answer' = IF HasAll(s, Cardinality(rows), T)
                    THEN [call |-> "prices", searched |-> rows,
                          prices |-> Closest(s, Cardinality(rows), T)]
                    ELSE NoAnswer
    /\ asking' = [asking EXCEPT ![c] = Idle]
    /\ UNCHANGED <<now, cache, requests>>

-----------------------------------------------------------------------------
(* The writes that nobody waits for; one that fails never lands.  A row    *)
(* with that time is replaced.                                             *)

Land(w) ==
    /\ w \in writes /\ writes' = writes \ {w}
    /\ cache' = {r \in cache : r.at # w.at} \cup {w}
    /\ UNCHANGED <<now, asking, answer, requests>>

Batches == {T \in SUBSET (0..now) : T # {} /\ Cardinality(T) <= MaxBatch}

Next ==
    \/ Tick
    \/ \E c \in Chains :
          \/ \E t \in 0..now : Hit(c, t) \/ Miss(c, t) \/ Fetched(c, t)
          \/ \E T \in Batches : BulkHit(c, T) \/ BulkMiss(c, T)
          \/ BulkFetched(c) \/ Unavailable(c)
    \/ \E w \in writes : Land(w)

Spec == Init /\ [][Next]_vars
-----------------------------------------------------------------------------
(* Properties. *)

Row == [at : Nat, origin : Nat]

\* Every variable stays in its domain and a time has one row of the cache.
TypeOK ==
    /\ now \in Nat
    /\ cache \subseteq Row /\ writes \subseteq Row
    /\ \A r, q \in cache : r.at = q.at => r = q
    /\ asking \in [Chains -> [call : {"none", "price", "prices"}, times : SUBSET Nat]]
    /\ answer.call \in {"none", "price", "prices"}
    /\ answer.searched \subseteq Row /\ answer.prices \subseteq Row

\* However prices got into the cache, the price of an event was quoted at most
\* TimeDelta after it, and at most the window, a range and the lag before it:
\* caching the price of one event for another lets the distances add up, once.
PriceIsNear ==
    answer.call = "price" =>
        \A p \in answer.prices :
            /\ p.origin <= p.at + TimeDelta
            /\ p.at - p.origin <= Window + TimeDelta + Lag

\* Reference for the search: the last row at or before t, if that is near, or
\* the first row when all are later.
Floor(rows, t) ==
    LET before == {r \in rows : r.at <= t} IN
    IF before = {} THEN CHOOSE r \in rows : \A q \in rows : r.at <= q.at
                   ELSE CHOOSE r \in before : \A q \in before : q.at <= r.at

\* The binary search finds the row the reference does, which is the one the
\* comment at its last line names ("Return the floor value"), and no price is
\* given that is further than the window before its event.  The comments of
\* getTokenPrices and findClosestPrice promise more, "the closest price": for a
\* time between two rows that is not so (theorem CloserIsMissed).
SearchFindsFloor ==
    answer.searched # {} =>
        \A p \in answer.prices :
            /\ p.origin = Floor(answer.searched, p.at).origin
            /\ p.at - Floor(answer.searched, p.at).at <= Window
=============================================================================
