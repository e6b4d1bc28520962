------------------------------- MODULE Rounds -------------------------------
(***************************************************************************)
(* Applications and donations of a round: the handlers of the events       *)
(* Registered, UpdatedRegistration, RecipientStatusUpdated, Allocated and   *)
(* FundsDistributed of the donation voting strategy, each with the         *)
(* transaction that stores its changesets.                                 *)
(*                                                                         *)
(* Every chain has one round.  A handler reads the application outside the *)
(* transaction that writes it back, so reading and committing are actions  *)
(* of their own.  Events of a chain are handled one by one by the live     *)
(* loop; the retroactive process may be at work on older events of the     *)
(* same strategy at the same time.                                         *)
(***************************************************************************)
EXTENDS Naturals, Sequences, FiniteSets

CONSTANTS
    Chains, Applications, Donors,
    Statuses,    \* PENDING and the other valid statuses
    Pending,     \* the status PENDING
    Absent,      \* no row, and the status NONE of the contract
    Positions,   \* (block, log index) pairs in use, as numbers
    Overlap,     \* whether the live loop runs next to the process, or only after it
    MaxEvents,   \* bound: events of a chain
    MaxLost      \* bound: events of a chain that are given up

ASSUME RoundsAssumption ==
    /\ Pending \in Statuses /\ Absent \notin Statuses
    /\ Positions \in [Chains -> SUBSET Nat]
    /\ Overlap \in BOOLEAN
    /\ MaxEvents \in Nat /\ MaxLost \in Nat

Workers == {"live", "retro"}
Idle == <<>>

VARIABLES
    status,      \* contract: status of each application
    history,     \* contract: the statuses each application has gone through
    paid,        \* contract: the applications that got their share
    position,    \* contract: where the last event was emitted
    reader,      \* the worker the next event is for
    feed,        \* events of each worker, not taken yet
    hand,        \* the event each worker has in hand and what it read for it
    apps,        \* applications table
    donations,   \* donations table
    round,       \* rounds table: the donation statistics
    damaged,     \* history: applications an event was lost of
    emitted, lost

contractVars == <<status, history, paid, position, reader, emitted>>
dbVars       == <<apps, donations, round>>
vars         == <<contractVars, feed, hand, dbVars, damaged, lost>>

NoRow == [status |-> Absent, snapshots |-> <<>>, count |-> 0, donors |-> 0,
          distribution |-> FALSE]

Init ==
    /\ status = [c \in Chains |-> [a \in Applications |-> Absent]]
    /\ history = [c \in Chains |-> [a \in Applications |-> <<>>]]
    /\ paid = [c \in Chains |-> {}]
    /\ position = [c \in Chains |-> 0]
    /\ reader = [c \in Chains |-> "retro"]
    /\ feed = [c \in Chains |-> [w \in Workers |-> <<>>]]
    /\ hand = [c \in Chains |-> [w \in Workers |-> Idle]]
    /\ apps = [c \in Chains |-> [a \in Applications |-> NoRow]]
    /\ donations = {}
    /\ round = [c \in Chains |-> [count |-> 0, donors |-> 0, distributed |-> 0]]
    /\ damaged = [c \in Chains |-> {}]
    /\ emitted = [c \in Chains |-> 0] /\ lost = [c \in Chains |-> 0]

-----------------------------------------------------------------------------
(* The strategy contract.  An event says which applications it is about;   *)
(* `row' are the statuses it carries.                                      *)

Later(c) == {p \in Positions[c] : p > position[c]}

Emit(c, event) ==
    /\ emitted[c] < MaxEvents
    /\ emitted' = [emitted EXCEPT ![c] = @ + 1]
    /\ position' = [position EXCEPT ![c] = event.at]
    /\ feed' = [feed EXCEPT ![c][reader[c]] = Append(@, event)]
    /\ UNCHANGED <<reader, hand, dbVars, damaged, lost>>

\* The statuses of chain c become those of `new'.
SetStatuses(c, new) ==
    /\ status' = [status EXCEPT ![c] = new]
    /\ history' = [history EXCEPT ![c] =
          [a \in Applications |->
              IF new[a] = status[c][a] THEN @[a] ELSE Append(@[a], new[a])]]

Registers(c) ==
    \E a \in Applications, p \in Later(c) :
        /\ status[c][a] = Absent
        /\ SetStatuses(c, [status[c] EXCEPT ![a] = Pending])
        /\ Emit(c, [type |-> "registered", app |-> a, at |-> p])
        /\ UNCHANGED paid

Updates(c) ==
    \E a \in Applications, s \in Statuses, p \in Later(c) :
        /\ status[c][a] # Absent
        /\ SetStatuses(c, [status[c] EXCEPT ![a] = s])
        /\ Emit(c, [type |-> "updated", app |-> a, status |-> s, at |-> p])
        /\ UNCHANGED paid

\* The event carries the statuses of all applications of the bitmap row, the
\* reviewed ones and the others.
Reviews(c) ==
    \E row \in [Applications -> Statuses \cup {Absent}], p \in Later(c) :
        /\ \A a \in Applications : row[a] = Absent <=> status[c][a] = Absent
        /\ row # status[c]
        /\ SetStatuses(c, row)
        /\ Emit(c, [type |-> "reviewed", row |-> row, at |-> p])
        /\ UNCHANGED paid

Donates(c) ==
    \E a \in Applications, d \in Donors, p \in Later(c) :
        /\ status[c][a] # Absent
        /\ Emit(c, [type |-> "allocated", app |-> a, donor |-> d, at |-> p])
        /\ UNCHANGED <<status, history, paid>>

\* An application gets its share once.
Distributes(c) ==
    \E a \in Applications \ paid[c], p \in Later(c) :
        /\ status[c][a] # Absent
        /\ paid' = [paid EXCEPT ![c] = @ \cup {a}]
        /\ Emit(c, [type |-> "distributed", app |-> a, at |-> p])
        /\ UNCHANGED <<status, history>>

Idles(c, w) == feed[c][w] = <<>> /\ hand[c][w] = Idle

\* The events emitted before the build with the handlers are the process's, the
\* later ones the live loop's.
NewBuild(c) ==
    /\ reader[c] = "retro"
    /\ Overlap \/ Idles(c, "retro")
    /\ reader' = [reader EXCEPT ![c] = "live"]
    /\ UNCHANGED <<status, history, paid, position, emitted, feed, hand, dbVars, damaged, lost>>

-----------------------------------------------------------------------------
(* The handlers. *)

Stored(c) == {a \in Applications : apps[c][a].status # Absent}

\* Applications an event is about.
About(event) ==
    IF event.type = "reviewed"
    THEN {a \in Applications : event.row[a] # Absent}
    ELSE {event.app}

\* Registered needs a free key, the others throw without the application,
\* the bitmap handler passes over the ones that are not there.
Accepts(c, event) ==
    CASE event.type = "registered" -> event.app \notin Stored(c)
      [] event.type = "reviewed" -> TRUE
      [] OTHER -> event.app \in Stored(c)

NextEvent(c, w) ==
    /\ hand[c][w] = Idle /\ feed[c][w] # <<>>
    /\ feed' = [feed EXCEPT ![c][w] = Tail(@)]

\* The handler has read the applications.
Read(c, w) ==
    /\ NextEvent(c, w)
    /\ Accepts(c, Head(feed[c][w]))
    /\ hand' = [hand EXCEPT ![c][w] = <<[event |-> Head(feed[c][w]), apps |-> apps[c]]>>]
    /\ UNCHANGED <<contractVars, dbVars, damaged, lost>>

Refused(c, w) ==
    /\ NextEvent(c, w)
    /\ ~Accepts(c, Head(feed[c][w]))
    /\ UNCHANGED <<contractVars, hand, dbVars, damaged, lost>>

\* Mutant: a snapshot is taken whether or not the status changes.
MutantWithStatus(row, s) ==
    [row EXCEPT !.status = s, !.snapshots = Append(@, s)]

\* createStatusUpdate
WithStatus(row, s) ==
    [row EXCEPT !.status = s,
                !.snapshots = IF row.status = s THEN @ ELSE Append(@, s)]

DonationsTo(c, A) == {d \in donations' : d.chain = c /\ d.app \in A}
DonorsOf(D) == {d.donor : d \in D}

\* The id is made of block and log index; a row with that id stays as it is.
InsertDonation(c, event) ==
    donations' = IF \E d \in donations : d.id = event.at THEN donations
                 ELSE donations \cup {[id |-> event.at, chain |-> c,
                                       app |-> event.app, donor |-> event.donor]}

\* Mutant: the donors are counted one by one.
MutantWithDonation(stats, D) == [stats EXCEPT !.count = @ + 1, !.donors = @ + 1]

\* The counter is incremented, the donors are counted in the donations table.
WithDonation(stats, D) ==
    [stats EXCEPT !.count = @ + 1, !.donors = Cardinality(DonorsOf(D))]

\* The rows of an UpdateApplication: `updated' writes back all columns of the
\* application it read, `reviewed' the status columns only.
UpdatedApps(c, h) ==
    LET e == h.event IN
    IF e.type = "updated"
    THEN [apps[c] EXCEPT ![e.app] = WithStatus(h.apps[e.app], e.status)]
    ELSE [a \in Applications |->
            IF a \in About(e) /\ h.apps[a].status # Absent
            THEN LET r == WithStatus(h.apps[a], e.row[a])
                 IN [apps[c][a] EXCEPT !.status = r.status, !.snapshots = r.snapshots]
            ELSE apps[c][a]]

CommitRegistration(c, e) ==
    /\ e.type = "registered"
    /\ apps' = [apps EXCEPT ![c][e.app] = WithStatus(NoRow, Pending)]
    /\ UNCHANGED <<donations, round>>

CommitUpdate(c, h) ==
    /\ h.event.type \in {"updated", "reviewed"}
    /\ apps' = [apps EXCEPT ![c] = UpdatedApps(c, h)]
    /\ UNCHANGED <<donations, round>>

CommitDonation(c, e) ==
    /\ e.type = "allocated"
    /\ InsertDonation(c, e)
    /\ round' = [round EXCEPT ![c] = WithDonation(@, DonationsTo(c, Applications))]
    /\ apps' = [apps EXCEPT ![c][e.app] = WithDonation(@, DonationsTo(c, {e.app}))]

\* Mutant: the share is not added to the round.
MutantCommitDistribution(c, e) ==
    /\ e.type = "distributed"
    /\ apps' = [apps EXCEPT ![c][e.app].distribution = TRUE]
    /\ UNCHANGED <<donations, round>>

CommitDistribution(c, e) ==
    /\ e.type = "distributed"
    /\ apps' = [apps EXCEPT ![c][e.app].distribution = TRUE]
    /\ round' = [round EXCEPT ![c].distributed = @ + 1]
    /\ UNCHANGED donations

Release(c, w) ==
    /\ hand[c][w] # Idle
    /\ hand' = [hand EXCEPT ![c][w] = Idle]

Commit(c, w) ==
    /\ Release(c, w)
    /\ \/ CommitRegistration(c, Head(hand[c][w]).event)
       \/ CommitUpdate(c, Head(hand[c][w]))
       \/ CommitDonation(c, Head(hand[c][w]).event)
       \/ CommitDistribution(c, Head(hand[c][w]).event)
    /\ UNCHANGED <<contractVars, feed, damaged, lost>>

\* A provider or the transaction fails for good: the event is given up.
GiveUp(c, w) ==
    /\ Release(c, w)
    /\ lost[c] < MaxLost /\ lost' = [lost EXCEPT ![c] = @ + 1]
    /\ damaged' = [damaged EXCEPT ![c] = @ \cup About(Head(hand[c][w]).event)]
    /\ UNCHANGED <<contractVars, feed, dbVars>>

Next ==
    \E c \in Chains :
        \/ Registers(c) \/ Updates(c) \/ Reviews(c) \/ Donates(c) \/ Distributes(c)
        \/ NewBuild(c)
        \/ \E w \in Workers : Read(c, w) \/ Refused(c, w) \/ Commit(c, w) \/ GiveUp(c, w)

Spec == Init /\ [][Next]_vars
-----------------------------------------------------------------------------
(* Properties. *)

Settled(c) == \A w \in Workers : Idles(c, w)

Donated(c, A) == {d \in donations : d.chain = c /\ d.app \in A}

\* The statistics of a round and of each of its applications are those of the
\* donations table, although one is incremented, the other counted, and any
\* event may be given up.
StatsMatchDonations ==
    \A c \in Chains :
        /\ round[c].count = Cardinality(Donated(c, Applications))
        /\ round[c].donors = Cardinality(DonorsOf(Donated(c, Applications)))
        /\ \A a \in Applications :
              /\ apps[c][a].count = Cardinality(Donated(c, {a}))
              /\ apps[c][a].donors = Cardinality(DonorsOf(Donated(c, {a})))

\* The total distributed of a round is that of the applications that have a
\* distribution transaction, although an updated registration writes back every
\* column of the application, that one included.
DistributedMatchesApplications ==
    \A c \in Chains :
        round[c].distributed =
            Cardinality({a \in Applications : apps[c][a].distribution})

\* Once the events are handled, an application none of whose events was lost
\* has the status the contract has for it, and its snapshots are the statuses
\* it went through: a review that repeats the status of the other applications
\* of its bitmap row leaves them alone.
StatusFollowsContract ==
    \A c \in Chains : Settled(c) =>
        \A a \in Applications \ damaged[c] :
            /\ apps[c][a].status = status[c][a]
            /\ apps[c][a].snapshots = history[c][a]
=============================================================================
