---------------------------- MODULE RoundsProofs ----------------------------
(***************************************************************************)
(* The properties of Rounds, for all chains, applications, donors and      *)
(* numbers of events and losses, if the live loop starts only after the    *)
(* retroactive process.  Then one worker has a chain's events, and what it *)
(* read for the one in hand is what is stored.  For each application no    *)
(* event of which was lost there is a run of statuses over the feed that   *)
(* ends where the contract is and begins with what is stored, or with what *)
(* the event in hand makes of it; so no event of it is ever refused.  A    *)
(* share is paid by one event, which finds it not stored.  For the         *)
(* donations, events come in the order of their positions, after those of  *)
(* the donations stored: each has an id of its own.                        *)
(***************************************************************************)
EXTENDS Rounds, FunctionTheorems, FiniteSetTheorems, SequenceTheorems, TLAPS

Events ==
    UNION {[type : {"registered", "distributed"}, app : Applications, at : Nat],
           [type : {"updated"}, app : Applications, status : Statuses, at : Nat],
           [type : {"reviewed"}, row : [Applications -> Statuses \cup {Absent}], at : Nat],
           [type : {"allocated"}, app : Applications, donor : Donors, at : Nat]}

\* The status an application is in after going through the statuses v, and the
\* statuses after it gets s.
Current(v)  == IF v = <<>> THEN Absent ELSE v[Len(v)]
Noted(v, s) == IF Current(v) = s THEN v ELSE Append(v, s)

Rows ==
    {r \in [status : Statuses \cup {Absent}, snapshots : Seq(Statuses), count : Nat,
            donors : Nat, distribution : BOOLEAN] :
        r.status = Current(r.snapshots)}

TypeOK ==
    /\ status \in [Chains -> [Applications -> Statuses \cup {Absent}]]
    /\ history \in [Chains -> [Applications -> Seq(Statuses)]]
    /\ paid \in [Chains -> SUBSET Applications]
    /\ position \in [Chains -> Nat] /\ reader \in [Chains -> Workers]
    /\ feed \in [Chains -> [Workers -> Seq(Events)]]
    /\ hand \in [Chains -> [Workers -> {Idle} \cup {<<h>> : h \in [event : Events, apps : [Applications -> Rows]]}]]
    /\ apps \in [Chains -> [Applications -> Rows]]
    /\ donations \subseteq [id : Nat, chain : Chains, app : Applications, donor : Donors]
    /\ IsFiniteSet(donations)
    /\ round \in [Chains -> [count : Nat, donors : Nat, distributed : Nat]]
    /\ damaged \in [Chains -> SUBSET Applications]

\* What the worker a chain's events go to has before it and in hand.
Feed(c) == feed[c][reader[c]]
Hand(c) == hand[c][reader[c]]
Busy(c) == Hand(c) # Idle
Held(c) == Hand(c)[1].event

\* Only that worker has anything to do,
OneReader(c) == \A w \in Workers : w # reader[c] => Idles(c, w)

\* and what it read is still what is stored.
InHand(c) == Busy(c) => Hand(c)[1].apps = apps[c] /\ Accepts(c, Held(c))

EmptyRows(c) == \A a \in Applications : apps[c][a].status = Absent => apps[c][a] = NoRow

StatusIsLast(c) == \A a \in Applications : status[c][a] = Current(history[c][a])

\* A share is paid once, so an event that pays it finds it not stored.
Pays(e, a) == e.type = "distributed" /\ e.app = a
Paid(c) == {a \in Applications : apps[c][a].distribution}
Shares(c) ==
    /\ IsFiniteSet(Paid(c)) /\ round[c].distributed = Cardinality(Paid(c))
    /\ \A a \in Applications :
          /\ a \in Paid(c) => a \in paid[c]
          /\ Busy(c) /\ Pays(Held(c), a) =>
                /\ a \in paid[c] /\ a \notin Paid(c)
                /\ \A i \in 1..Len(Feed(c)) : ~Pays(Feed(c)[i], a)
          /\ \A i \in 1..Len(Feed(c)) : Pays(Feed(c)[i], a) =>
                /\ a \in paid[c] /\ a \notin Paid(c)
                /\ \A j \in 1..Len(Feed(c)) : Pays(Feed(c)[j], a) => j = i

\* What an event makes of the statuses v an application went through
Given(e, a) ==
    IF e.type = "registered" THEN Pending ELSE IF e.type = "updated" THEN e.status ELSE e.row[a]
Move(e, a, v, w) ==
    /\ a \in About(e) => (v = <<>> <=> e.type = "registered")
    /\ w = IF a \in About(e) /\ e.type \in {"registered", "updated", "reviewed"}
           THEN Noted(v, Given(e, a)) ELSE v

\* The statuses before a sequence of events and after each of them
Runs(h, f, a) ==
    /\ h \in [0..Len(f) -> Seq(Statuses)]
    /\ \A i \in 1..Len(f) : Move(f[i], a, h[i - 1], h[i])

\* The stored application is where the contract was before the event in hand.
Behind(c, a) ==
    \E h : /\ Runs(h, Feed(c), a)
           /\ h[Len(Feed(c))] = history[c][a]
           /\ IF Busy(c) THEN Move(Held(c), a, apps[c][a].snapshots, h[0])
                         ELSE h[0] = apps[c][a].snapshots
StatusBehind(c) == \A a \in Applications \ damaged[c] : Behind(c, a)

ChainInv(c) ==
    /\ OneReader(c) /\ InHand(c) /\ EmptyRows(c) /\ StatusIsLast(c) /\ Shares(c) /\ StatusBehind(c)
IInv == TypeOK /\ \A c \in Chains : ChainInv(c)

\* Events of a chain come in the order of their positions.
Ordered(c) ==
    /\ \A i \in 1..Len(Feed(c)) :
          /\ Feed(c)[i].at \in Positions[c] /\ Feed(c)[i].at <= position[c]
          /\ Busy(c) => Held(c).at < Feed(c)[i].at
          /\ \A j \in 1..Len(Feed(c)) : i < j => Feed(c)[i].at < Feed(c)[j].at
    /\ Busy(c) => Held(c).at \in Positions[c] /\ Held(c).at <= position[c]
    /\ \A d \in donations : d.chain = c =>
          /\ d.id \in Positions[c] /\ d.id <= position[c]
          /\ Busy(c) => d.id < Held(c).at
          /\ \A i \in 1..Len(Feed(c)) : d.id < Feed(c)[i].at

Stats(c) ==
    /\ round[c].count = Cardinality(Donated(c, Applications))
    /\ round[c].donors = Cardinality(DonorsOf(Donated(c, Applications)))
    /\ \A a \in Applications :
          /\ apps[c][a].count = Cardinality(Donated(c, {a}))
          /\ apps[c][a].donors = Cardinality(DonorsOf(Donated(c, {a})))

DInv == \A c \in Chains : Ordered(c) /\ Stats(c)
-----------------------------------------------------------------------------
(* Statuses, rows and events. *)

\* The statuses an application went through and the one it is in.
LEMMA StatusesFacts ==
    ASSUME NEW v \in Seq(Statuses)
    PROVE  /\ Current(v) = Absent <=> v = <<>>
           /\ Current(v) \in Statuses \cup {Absent}
           /\ \A s \in Statuses : /\ Noted(v, s) \in Seq(Statuses) /\ Noted(v, s) # <<>>
                                  /\ Current(Noted(v, s)) = s
<1>1. v # <<>> => Len(v) \in 1..Len(v) /\ v[Len(v)] \in Statuses
  OBVIOUS
<1>2. (Current(v) = Absent <=> v = <<>>) /\ Current(v) \in Statuses \cup {Absent}
  BY <1>1, RoundsAssumption DEF Current
<1>3. ASSUME NEW s \in Statuses
      PROVE  /\ Noted(v, s) \in Seq(Statuses) /\ Noted(v, s) # <<>>
             /\ Current(Noted(v, s)) = s
  <2>1. CASE Current(v) = s
    BY <1>2, <2>1, RoundsAssumption DEF Noted
  <2>2. CASE Current(v) # s
    <3>1. /\ Append(v, s) \in Seq(Statuses) /\ Append(v, s) # <<>>
          /\ Len(Append(v, s)) = Len(v) + 1 /\ Append(v, s)[Len(v) + 1] = s
      OBVIOUS
    <3>. QED BY <2>2, <3>1 DEF Noted, Current
  <2>. QED BY <2>1, <2>2
<1>. QED BY <1>2, <1>3

\* A new status of a row, and the row of an application not registered.
LEMMA RowFacts ==
    /\ NoRow \in Rows /\ NoRow.snapshots = <<>> /\ NoRow.status = Absent
    /\ NoRow.count = 0 /\ NoRow.donors = 0 /\ ~NoRow.distribution
    /\ \A row \in Rows, s \in Statuses :
          /\ WithStatus(row, s) \in Rows
          /\ WithStatus(row, s).snapshots = Noted(row.snapshots, s)
          /\ WithStatus(row, s).status = s
          /\ WithStatus(row, s).count = row.count /\ WithStatus(row, s).donors = row.donors
          /\ WithStatus(row, s).distribution = row.distribution
    /\ \A row \in Rows : (row.status = Absent <=> row.snapshots = <<>>)
<1>1. /\ NoRow \in Rows /\ NoRow.snapshots = <<>> /\ NoRow.status = Absent
      /\ NoRow.count = 0 /\ NoRow.donors = 0 /\ ~NoRow.distribution
  BY DEF NoRow, Rows, Current
<1>2. ASSUME NEW row \in Rows, NEW s \in Statuses
      PROVE  /\ WithStatus(row, s) \in Rows
             /\ WithStatus(row, s).snapshots = Noted(row.snapshots, s)
             /\ WithStatus(row, s).status = s
             /\ WithStatus(row, s).count = row.count /\ WithStatus(row, s).donors = row.donors
             /\ WithStatus(row, s).distribution = row.distribution
  <2>1. row.snapshots \in Seq(Statuses) /\ row.status = Current(row.snapshots)
    BY DEF Rows
  <2>2. /\ WithStatus(row, s).snapshots = Noted(row.snapshots, s)
        /\ WithStatus(row, s).status = s
        /\ WithStatus(row, s).count = row.count /\ WithStatus(row, s).donors = row.donors
        /\ WithStatus(row, s).distribution = row.distribution
    BY <2>1 DEF WithStatus, Noted, Rows
  <2>3. Noted(row.snapshots, s) \in Seq(Statuses) /\ Current(Noted(row.snapshots, s)) = s
    BY <2>1, StatusesFacts
  <2>4. WithStatus(row, s) \in [status : Statuses \cup {Absent}, snapshots : Seq(Statuses), count : Nat,
            donors : Nat, distribution : BOOLEAN]
    <3>1. WithStatus(row, s) = [row EXCEPT !.status = s, !.snapshots = Noted(row.snapshots, s)]
      BY <2>1 DEF WithStatus, Noted, Rows
    <3>. QED BY <2>3, <3>1 DEF Rows
  <2>. QED BY <2>2, <2>3, <2>4 DEF Rows
<1>3. ASSUME NEW row \in Rows PROVE row.status = Absent <=> row.snapshots = <<>>
  BY StatusesFacts DEF Rows
<1>. QED BY <1>1, <1>2, <1>3

\* What an event is about, and the statuses it gives.
LEMMA EventFacts ==
    ASSUME NEW e \in Events
    PROVE  /\ e.type \in {"registered", "updated", "reviewed", "allocated", "distributed"}
           /\ e.at \in Nat /\ About(e) \subseteq Applications
           /\ e.type # "reviewed" => e.app \in Applications /\ About(e) = {e.app}
           /\ e.type = "allocated" => e.donor \in Donors
           /\ \A a \in About(e) : e.type \in {"registered", "updated", "reviewed"} =>
                 Given(e, a) \in Statuses
<1>1. CASE e \in [type : {"registered", "distributed"}, app : Applications, at : Nat]
  BY <1>1, RoundsAssumption DEF About, Given
<1>2. CASE e \in [type : {"updated"}, app : Applications, status : Statuses, at : Nat]
  BY <1>2, RoundsAssumption DEF About, Given
<1>3. CASE e \in [type : {"reviewed"}, row : [Applications -> Statuses \cup {Absent}], at : Nat]
  BY <1>3, RoundsAssumption DEF About, Given
<1>4. CASE e \in [type : {"allocated"}, app : Applications, donor : Donors, at : Nat]
  BY <1>4, RoundsAssumption DEF About, Given
<1>. QED BY <1>1, <1>2, <1>3, <1>4 DEF Events

\* A run over a feed goes on with an event at its end,
LEMMA RunsExtend ==
    ASSUME NEW f \in Seq(Events), NEW a, NEW h, Runs(h, f, a),
           NEW e \in Events, NEW v \in Seq(Statuses), Move(e, a, h[Len(f)], v)
    PROVE  \E g : Runs(g, Append(f, e), a) /\ g[0] = h[0] /\ g[Len(Append(f, e))] = v
<1>1. /\ Len(f) \in Nat /\ Len(Append(f, e)) = Len(f) + 1 /\ Append(f, e)[Len(f) + 1] = e
      /\ \A i \in 1..Len(f) : Append(f, e)[i] = f[i]
  OBVIOUS
<1>. DEFINE n == Len(f)
            g == [i \in 0..n + 1 |-> IF i = n + 1 THEN v ELSE h[i]]
<1>2. h \in [0..n -> Seq(Statuses)] /\ \A i \in 1..n : Move(f[i], a, h[i - 1], h[i])
  BY DEF Runs
<1>3. n \in Nat
  BY <1>1
<1>. HIDE DEF n
<1>4. g \in [0..n + 1 -> Seq(Statuses)]
  BY <1>2, <1>3
<1>5. g[0] = h[0] /\ g[n + 1] = v
  BY <1>3
<1>6. ASSUME NEW i \in 1..n + 1
      PROVE  Move(Append(f, e)[i], a, g[i - 1], g[i])
  <2>1. CASE i = n + 1
    <3>1. g[i - 1] = h[n] /\ g[i] = v
      BY <1>3, <2>1
    <3>2. Append(f, e)[i] = e /\ Move(e, a, h[n], v)
      BY <1>1, <2>1 DEF n
    <3>. QED BY <3>1, <3>2
  <2>2. CASE i # n + 1
    <3>1. i \in 1..n /\ g[i - 1] = h[i - 1] /\ g[i] = h[i]
      BY <1>3, <2>2
    <3>2. Append(f, e)[i] = f[i]
      BY <1>1, <3>1 DEF n
    <3>. QED BY <1>2, <3>1, <3>2
  <2>. QED BY <2>1, <2>2
<1>7. Len(Append(f, e)) = n + 1
  BY <1>1 DEF n
<1>. HIDE DEF g
<1>. QED BY <1>4, <1>5, <1>6, <1>7 DEF Runs

\* and goes on from the second place once the head is taken.
LEMMA RunsShrink ==
    ASSUME NEW f \in Seq(Events), f # <<>>, NEW a, NEW h, Runs(h, f, a)
    PROVE  \E g : /\ Runs(g, Tail(f), a) /\ Move(Head(f), a, h[0], g[0])
                  /\ g[Len(Tail(f))] = h[Len(f)] /\ g[0] \in Seq(Statuses)
<1>. DEFINE n == Len(f)
            g == [i \in 0..n - 1 |-> h[i + 1]]
<1>1. /\ n \in Nat \ {0} /\ Len(Tail(f)) = n - 1 /\ Head(f) = f[1]
      /\ \A i \in 1..n - 1 : Tail(f)[i] = f[i + 1]
  OBVIOUS
<1>2. h \in [0..n -> Seq(Statuses)] /\ \A i \in 1..n : Move(f[i], a, h[i - 1], h[i])
  BY DEF Runs
<1>. HIDE DEF n
<1>3. g \in [0..n - 1 -> Seq(Statuses)] /\ g[0] = h[1] /\ g[n - 1] = h[n] /\ g[0] \in Seq(Statuses)
  BY <1>1, <1>2
<1>4. ASSUME NEW i \in 1..n - 1
      PROVE  Move(Tail(f)[i], a, g[i - 1], g[i])
  <2>1. i + 1 \in 1..n /\ (i + 1) - 1 = i /\ g[i - 1] = h[i] /\ g[i] = h[i + 1]
    BY <1>1
  <2>2. Move(f[i + 1], a, h[(i + 1) - 1], h[i + 1])
    BY <1>2, <2>1
  <2>. QED BY <1>1, <2>1, <2>2
<1>5. Move(Head(f), a, h[0], g[0])
  <2>1. 1 \in 1..n /\ 1 - 1 = 0
    BY <1>1
  <2>2. Move(f[1], a, h[1 - 1], h[1])
    BY <1>2, <2>1
  <2>. QED BY <1>1, <1>3, <2>1, <2>2
<1>6. h[n] = h[Len(f)]
  BY DEF n
<1>. HIDE DEF g
<1>. QED BY <1>1, <1>3, <1>4, <1>5, <1>6 DEF Runs
-----------------------------------------------------------------------------
(* The steps.  Each is about one chain: *)

Same(d) ==
    /\ status'[d] = status[d] /\ history'[d] = history[d] /\ paid'[d] = paid[d]
    /\ position'[d] = position[d] /\ reader'[d] = reader[d]
    /\ feed'[d] = feed[d] /\ hand'[d] = hand[d] /\ apps'[d] = apps[d]
    /\ round'[d] = round[d] /\ damaged'[d] = damaged[d]
Others(c) == \A d \in Chains : d # c => Same(d)

\* the contract emits an event, which records what it changed;
Emission(c, e) ==
    /\ e \in Events /\ e.at \in Positions[c] /\ e.at > position[c] /\ position'[c] = e.at
    /\ reader'[c] = reader[c] /\ hand'[c] = hand[c] /\ apps'[c] = apps[c]
    /\ round'[c] = round[c] /\ damaged'[c] = damaged[c] /\ donations' = donations
    /\ feed'[c] = [feed[c] EXCEPT ![reader[c]] = Append(@, e)]
    /\ \A a \in Applications :
          /\ Move(e, a, history[c][a], history'[c][a])
          /\ status'[c][a] = Current(history'[c][a])
          /\ Pays(e, a) => a \notin paid[c] /\ a \in paid'[c]
    /\ paid[c] \subseteq paid'[c]
    /\ Others(c) /\ TypeOK'

\* a worker takes its next event and has it in hand or refuses it;
Taking(c, w) ==
    /\ hand[c][w] = Idle /\ feed[c][w] # <<>>
    /\ feed'[c] = [feed[c] EXCEPT ![w] = Tail(@)]
    /\ LET e == Head(feed[c][w]) IN
       IF Accepts(c, e)
       THEN hand'[c] = [hand[c] EXCEPT ![w] = <<[event |-> e, apps |-> apps[c]]>>]
       ELSE hand'[c] = hand[c]
    /\ status'[c] = status[c] /\ history'[c] = history[c] /\ paid'[c] = paid[c]
    /\ position'[c] = position[c] /\ reader'[c] = reader[c] /\ apps'[c] = apps[c]
    /\ round'[c] = round[c] /\ damaged'[c] = damaged[c] /\ donations' = donations
    /\ Others(c) /\ TypeOK'

\* it lays down the event in hand, stored or given up.
Laying(c, w) ==
    /\ hand[c][w] # Idle /\ hand'[c] = [hand[c] EXCEPT ![w] = Idle]
    /\ status'[c] = status[c] /\ history'[c] = history[c] /\ paid'[c] = paid[c]
    /\ position'[c] = position[c] /\ reader'[c] = reader[c] /\ feed'[c] = feed[c]
    /\ Others(c)

\* The event in hand and what was read for it.
LEMMA InHandFacts ==
    ASSUME TypeOK, NEW c \in Chains, NEW w \in Workers, hand[c][w] # Idle
    PROVE  /\ hand[c][w] = <<Head(hand[c][w])>> /\ hand[c][w][1] = Head(hand[c][w])
           /\ Head(hand[c][w]) \in [event : Events, apps : [Applications -> Rows]]
           /\ Head(hand[c][w]).event \in Events
<1>1. PICK h \in [event : Events, apps : [Applications -> Rows]] : hand[c][w] = <<h>>
  BY DEF TypeOK
<1>2. Head(<<h>>) = h /\ <<h>>[1] = h
  OBVIOUS
<1>. QED BY <1>1, <1>2

\* An event at the end of a feed.
LEMMA EmitTypes ==
    ASSUME TypeOK, NEW c \in Chains, NEW e \in Events, e.at \in Later(c), Emit(c, e)
    PROVE  /\ feed' \in [Chains -> [Workers -> Seq(Events)]]
           /\ position' \in [Chains -> Nat] /\ position'[c] = e.at
           /\ e.at \in Positions[c] /\ e.at > position[c]
           /\ feed'[c] = [feed[c] EXCEPT ![reader[c]] = Append(@, e)]
           /\ \A d \in Chains : d # c => feed'[d] = feed[d] /\ position'[d] = position[d]
           /\ UNCHANGED <<reader, hand, apps, donations, round, damaged>>
<1>1. e.at \in Nat /\ reader[c] \in Workers
  BY EventFacts DEF TypeOK
<1>2. /\ feed' = [feed EXCEPT ![c][reader[c]] = Append(@, e)]
      /\ position' = [position EXCEPT ![c] = e.at]
      /\ UNCHANGED <<reader, hand, apps, donations, round, damaged>>
  BY DEF Emit, dbVars
<1>3. Append(feed[c][reader[c]], e) \in Seq(Events)
  BY <1>1 DEF TypeOK
<1>. DEFINE s == Append(feed[c][reader[c]], e)
<1>4. feed' = [feed EXCEPT ![c] = [feed[c] EXCEPT ![reader[c]] = s]]
  BY <1>2
<1>5. feed[c] \in [Workers -> Seq(Events)] /\ feed \in [Chains -> [Workers -> Seq(Events)]]
  BY DEF TypeOK
<1>6. s \in Seq(Events)
  BY <1>3
<1>7. feed'[c] = [feed[c] EXCEPT ![reader[c]] = Append(@, e)]
  BY <1>4, <1>5
<1>. HIDE DEF s
<1>8. [feed[c] EXCEPT ![reader[c]] = s] \in [Workers -> Seq(Events)]
  BY <1>5, <1>6
<1>9. feed' \in [Chains -> [Workers -> Seq(Events)]] /\ \A d \in Chains : d # c => feed'[d] = feed[d]
  BY <1>4, <1>5, <1>8
<1>10. position' \in [Chains -> Nat] /\ position'[c] = e.at
       /\ \A d \in Chains : d # c => position'[d] = position[d]
  BY <1>1, <1>2 DEF TypeOK
<1>. QED BY <1>2, <1>7, <1>9, <1>10 DEF Later

\* The contract's statuses and what applications went through.
LEMMA SetTypes ==
    ASSUME TypeOK, NEW c \in Chains, NEW new \in [Applications -> Statuses \cup {Absent}],
           SetStatuses(c, new), StatusIsLast(c),
           \A a \in Applications : new[a] = Absent => status[c][a] = Absent
    PROVE  /\ status' \in [Chains -> [Applications -> Statuses \cup {Absent}]]
           /\ history' \in [Chains -> [Applications -> Seq(Statuses)]]
           /\ \A d \in Chains : d # c => status'[d] = status[d] /\ history'[d] = history[d]
           /\ status'[c] = new
           /\ \A a \in Applications :
                 /\ history'[c][a] = (IF new[a] = Absent THEN history[c][a] ELSE Noted(history[c][a], new[a]))
                 /\ status'[c][a] = Current(history'[c][a])
                 /\ history[c][a] = <<>> <=> status[c][a] = Absent
<1>. DEFINE g == [a \in Applications |->
                    IF new[a] = status[c][a] THEN history[c][a] ELSE Append(history[c][a], new[a])]
<1>1. status' = [status EXCEPT ![c] = new] /\ history' = [history EXCEPT ![c] = g]
  BY DEF SetStatuses
<1>2. ASSUME NEW a \in Applications
      PROVE  /\ g[a] \in Seq(Statuses)
             /\ g[a] = (IF new[a] = Absent THEN history[c][a] ELSE Noted(history[c][a], new[a]))
             /\ new[a] = Current(g[a])
             /\ history[c][a] = <<>> <=> status[c][a] = Absent
  <2>1. /\ history[c][a] \in Seq(Statuses) /\ status[c][a] = Current(history[c][a])
        /\ new[a] \in Statuses \cup {Absent}
    BY DEF TypeOK, StatusIsLast
  <2>2. g[a] = IF new[a] = status[c][a] THEN history[c][a] ELSE Append(history[c][a], new[a])
    OBVIOUS
  <2>3. history[c][a] = <<>> <=> status[c][a] = Absent
    BY <2>1, StatusesFacts
  <2>4. CASE new[a] = Absent
    BY <2>1, <2>2, <2>3, <2>4
  <2>5. CASE new[a] # Absent
    <3>1. new[a] \in Statuses
      BY <2>1, <2>5
    <3>2. g[a] = Noted(history[c][a], new[a])
      BY <2>1, <2>2 DEF Noted
    <3>3. Noted(history[c][a], new[a]) \in Seq(Statuses) /\ Current(Noted(history[c][a], new[a])) = new[a]
      BY <2>1, <3>1, StatusesFacts
    <3>. QED BY <2>3, <2>5, <3>2, <3>3
  <2>. QED BY <2>4, <2>5
<1>. HIDE DEF g
<1>3. g \in [Applications -> Seq(Statuses)]
  <2>1. g = [a \in Applications |-> g[a]]
    BY DEF g
  <2>. QED BY <1>2, <2>1
<1>4. /\ history' \in [Chains -> [Applications -> Seq(Statuses)]] /\ history'[c] = g
      /\ \A d \in Chains : d # c => history'[d] = history[d]
  BY <1>1, <1>3 DEF TypeOK
<1>5. /\ status' \in [Chains -> [Applications -> Statuses \cup {Absent}]] /\ status'[c] = new
      /\ \A d \in Chains : d # c => status'[d] = status[d]
  BY <1>1 DEF TypeOK
<1>. QED BY <1>2, <1>4, <1>5

\* An event that records what the contract changed.
LEMMA EmissionMade ==
    ASSUME TypeOK, NEW c \in Chains, NEW e \in Events, e.at \in Later(c), Emit(c, e),
           status' \in [Chains -> [Applications -> Statuses \cup {Absent}]],
           history' \in [Chains -> [Applications -> Seq(Statuses)]],
           \A d \in Chains : d # c => status'[d] = status[d] /\ history'[d] = history[d],
           paid' \in [Chains -> SUBSET Applications], paid[c] \subseteq paid'[c],
           \A d \in Chains : d # c => paid'[d] = paid[d],
           \A a \in Applications :
              /\ Move(e, a, history[c][a], history'[c][a])
              /\ status'[c][a] = Current(history'[c][a])
              /\ Pays(e, a) => a \notin paid[c] /\ a \in paid'[c]
    PROVE  Emission(c, e)
<1>2. /\ feed' \in [Chains -> [Workers -> Seq(Events)]]
      /\ position' \in [Chains -> Nat] /\ position'[c] = e.at
      /\ e.at \in Positions[c] /\ e.at > position[c]
      /\ feed'[c] = [feed[c] EXCEPT ![reader[c]] = Append(@, e)]
      /\ \A d \in Chains : d # c => feed'[d] = feed[d] /\ position'[d] = position[d]
      /\ UNCHANGED <<reader, hand, apps, donations, round, damaged>>
  BY EmitTypes
<1>3. TypeOK'
  BY <1>2 DEF TypeOK
<1>4. Others(c)
  BY <1>2 DEF Others, Same
<1>. QED BY <1>2, <1>3, <1>4 DEF Emission

\* The handler of the contract's events: what each of its calls emits.
LEMMA Emits ==
    ASSUME TypeOK, NEW c \in Chains, StatusIsLast(c),
           Registers(c) \/ Updates(c) \/ Reviews(c) \/ Donates(c) \/ Distributes(c)
    PROVE  \E e : Emission(c, e)
<1>1. CASE Registers(c)
  <2>1. PICK a \in Applications, p \in Later(c) :
             /\ status[c][a] = Absent
             /\ SetStatuses(c, [status[c] EXCEPT ![a] = Pending])
             /\ Emit(c, [type |-> "registered", app |-> a, at |-> p])
             /\ UNCHANGED paid
    BY <1>1 DEF Registers
  <2>. DEFINE new == [status[c] EXCEPT ![a] = Pending]
              e == [type |-> "registered", app |-> a, at |-> p]
  <2>2. p \in Nat
    BY RoundsAssumption DEF Later
  <2>3. e \in Events /\ e.at = p /\ e.type = "registered" /\ About(e) = {a} /\ \A b : ~Pays(e, b)
    BY <2>2 DEF Events, About, Pays
  <2>4. /\ new \in [Applications -> Statuses \cup {Absent}] /\ new[a] = Pending
        /\ \A b \in Applications : b # a => new[b] = status[c][b]
    BY RoundsAssumption DEF TypeOK
  <2>. HIDE DEF new
  <2>5. SetStatuses(c, new)
    BY <2>1 DEF new
  <2>6. \A b \in Applications : new[b] = Absent => status[c][b] = Absent
    BY <2>1, <2>4
  <2>7. Emit(c, e)
    BY <2>1
  <2>8. Given(e, a) = Pending
    BY DEF Given
  <2>. HIDE DEF e
  <2>9. ASSUME NEW b \in Applications PROVE Move(e, b, history[c][b], history'[c][b])
    <3>1. /\ history'[c][b] = (IF new[b] = Absent THEN history[c][b] ELSE Noted(history[c][b], new[b]))
          /\ history[c][b] = <<>> <=> status[c][b] = Absent
      BY <2>4, <2>5, <2>6, SetTypes
    <3>2. CASE b = a
      BY <2>1, <2>3, <2>4, <2>8, <3>1, <3>2, RoundsAssumption DEF Move
    <3>3. CASE b # a
      <4>1. history[c][b] \in Seq(Statuses) /\ Current(history[c][b]) = status[c][b]
        BY DEF TypeOK, StatusIsLast
      <4>2. history'[c][b] = history[c][b]
        BY <2>4, <3>1, <3>3, <4>1 DEF Noted
      <4>. QED BY <2>3, <3>3, <4>2 DEF Move
    <3>. QED BY <3>2, <3>3
  <2>10. /\ e.at \in Later(c) /\ paid' \in [Chains -> SUBSET Applications]
         /\ paid[c] \subseteq paid'[c] /\ \A d \in Chains : d # c => paid'[d] = paid[d]
    BY <2>1, <2>3 DEF TypeOK
  <2>11. /\ status' \in [Chains -> [Applications -> Statuses \cup {Absent}]]
         /\ history' \in [Chains -> [Applications -> Seq(Statuses)]]
         /\ \A d \in Chains : d # c => status'[d] = status[d] /\ history'[d] = history[d]
         /\ \A b \in Applications : status'[c][b] = Current(history'[c][b])
    BY <2>4, <2>5, <2>6, SetTypes
  <2>. QED BY <2>3, <2>7, <2>9, <2>10, <2>11, EmissionMade
<1>2. CASE Updates(c)
  <2>1. PICK a \in Applications, s \in Statuses, p \in Later(c) :
             /\ status[c][a] # Absent
             /\ SetStatuses(c, [status[c] EXCEPT ![a] = s])
             /\ Emit(c, [type |-> "updated", app |-> a, status |-> s, at |-> p])
             /\ UNCHANGED paid
    BY <1>2 DEF Updates
  <2>. DEFINE new == [status[c] EXCEPT ![a] = s]
              e == [type |-> "updated", app |-> a, status |-> s, at |-> p]
  <2>2. p \in Nat
    BY RoundsAssumption DEF Later
  <2>3. e \in Events /\ e.at = p /\ e.type = "updated" /\ About(e) = {a} /\ \A b : ~Pays(e, b)
    BY <2>2 DEF Events, About, Pays
  <2>4. /\ new \in [Applications -> Statuses \cup {Absent}] /\ new[a] = s
        /\ \A b \in Applications : b # a => new[b] = status[c][b]
    BY RoundsAssumption DEF TypeOK
  <2>. HIDE DEF new
  <2>5. SetStatuses(c, new)
    BY <2>1 DEF new
  <2>6. \A b \in Applications : new[b] = Absent => status[c][b] = Absent
    BY <2>1, <2>4, RoundsAssumption
  <2>7. Emit(c, e)
    BY <2>1
  <2>8. Given(e, a) = s
    BY DEF Given
  <2>. HIDE DEF e
  <2>9. ASSUME NEW b \in Applications PROVE Move(e, b, history[c][b], history'[c][b])
    <3>1. /\ history'[c][b] = (IF new[b] = Absent THEN history[c][b] ELSE Noted(history[c][b], new[b]))
          /\ history[c][b] = <<>> <=> status[c][b] = Absent
      BY <2>4, <2>5, <2>6, SetTypes
    <3>2. CASE b = a
      BY <2>1, <2>3, <2>4, <2>8, <3>1, <3>2, RoundsAssumption DEF Move
    <3>3. CASE b # a
      <4>1. history[c][b] \in Seq(Statuses) /\ Current(history[c][b]) = status[c][b]
        BY DEF TypeOK, StatusIsLast
      <4>2. history'[c][b] = history[c][b]
        BY <2>4, <3>1, <3>3, <4>1 DEF Noted
      <4>. QED BY <2>3, <3>3, <4>2 DEF Move
    <3>. QED BY <3>2, <3>3
  <2>10. /\ e.at \in Later(c) /\ paid' \in [Chains -> SUBSET Applications]
         /\ paid[c] \subseteq paid'[c] /\ \A d \in Chains : d # c => paid'[d] = paid[d]
    BY <2>1, <2>3 DEF TypeOK
  <2>11. /\ status' \in [Chains -> [Applications -> Statuses \cup {Absent}]]
         /\ history' \in [Chains -> [Applications -> Seq(Statuses)]]
         /\ \A d \in Chains : d # c => status'[d] = status[d] /\ history'[d] = history[d]
         /\ \A b \in Applications : status'[c][b] = Current(history'[c][b])
    BY <2>4, <2>5, <2>6, SetTypes
  <2>. QED BY <2>3, <2>7, <2>9, <2>10, <2>11, EmissionMade
<1>3. CASE Reviews(c)
  <2>1. PICK row \in [Applications -> Statuses \cup {Absent}], p \in Later(c) :
             /\ \A a \in Applications : row[a] = Absent <=> status[c][a] = Absent
             /\ SetStatuses(c, row)
             /\ Emit(c, [type |-> "reviewed", row |-> row, at |-> p])
             /\ UNCHANGED paid
    BY <1>3 DEF Reviews
  <2>. DEFINE e == [type |-> "reviewed", row |-> row, at |-> p]
  <2>2. p \in Nat
    BY RoundsAssumption DEF Later
  <2>3. /\ e \in Events /\ e.at = p /\ e.type = "reviewed" /\ \A b : ~Pays(e, b)
        /\ \A b \in Applications : b \in About(e) <=> row[b] # Absent
        /\ \A b : Given(e, b) = row[b]
    BY <2>2 DEF Events, About, Pays, Given
  <2>6. \A b \in Applications : row[b] = Absent => status[c][b] = Absent
    BY <2>1
  <2>7. Emit(c, e)
    BY <2>1
  <2>. HIDE DEF e
  <2>9. ASSUME NEW b \in Applications PROVE Move(e, b, history[c][b], history'[c][b])
    <3>1. /\ history'[c][b] = (IF row[b] = Absent THEN history[c][b] ELSE Noted(history[c][b], row[b]))
          /\ history[c][b] = <<>> <=> status[c][b] = Absent
      BY <2>1, <2>6, SetTypes
    <3>. QED BY <2>1, <2>3, <3>1 DEF Move
  <2>10. /\ e.at \in Later(c) /\ paid' \in [Chains -> SUBSET Applications]
         /\ paid[c] \subseteq paid'[c] /\ \A d \in Chains : d # c => paid'[d] = paid[d]
    BY <2>1, <2>3 DEF TypeOK
  <2>11. /\ status' \in [Chains -> [Applications -> Statuses \cup {Absent}]]
         /\ history' \in [Chains -> [Applications -> Seq(Statuses)]]
         /\ \A d \in Chains : d # c => status'[d] = status[d] /\ history'[d] = history[d]
         /\ \A b \in Applications : status'[c][b] = Current(history'[c][b])
    BY <2>1, <2>6, SetTypes
  <2>. QED BY <2>3, <2>7, <2>9, <2>10, <2>11, EmissionMade
<1>4. ASSUME NEW a \in Applications, NEW e \in Events, e.at \in Later(c), Emit(c, e),
             status[c][a] # Absent, About(e) = {a}, e.type \in {"allocated", "distributed"},
             UNCHANGED <<status, history>>,
             paid' \in [Chains -> SUBSET Applications], paid[c] \subseteq paid'[c],
             \A d \in Chains : d # c => paid'[d] = paid[d],
             \A b \in Applications : Pays(e, b) => b \notin paid[c] /\ b \in paid'[c]
      PROVE  Emission(c, e)
  <2>1. ASSUME NEW b \in Applications
        PROVE  Move(e, b, history[c][b], history'[c][b]) /\ status'[c][b] = Current(history'[c][b])
    <3>1. history[c][b] \in Seq(Statuses) /\ Current(history[c][b]) = status[c][b]
      BY DEF TypeOK, StatusIsLast
    <3>2. history[c][b] = <<>> <=> status[c][b] = Absent
      BY <3>1, StatusesFacts
    <3>. QED BY <1>4, <3>1, <3>2 DEF Move
  <2>2. /\ status' \in [Chains -> [Applications -> Statuses \cup {Absent}]]
        /\ history' \in [Chains -> [Applications -> Seq(Statuses)]]
        /\ \A d \in Chains : d # c => status'[d] = status[d] /\ history'[d] = history[d]
    BY <1>4 DEF TypeOK
  <2>. QED BY <1>4, <2>1, <2>2, EmissionMade
<1>5. CASE Donates(c)
  <2>1. PICK a \in Applications, d \in Donors, p \in Later(c) :
             /\ status[c][a] # Absent
             /\ Emit(c, [type |-> "allocated", app |-> a, donor |-> d, at |-> p])
             /\ UNCHANGED <<status, history, paid>>
    BY <1>5 DEF Donates
  <2>. DEFINE e == [type |-> "allocated", app |-> a, donor |-> d, at |-> p]
  <2>2. p \in Nat
    BY RoundsAssumption DEF Later
  <2>3. e \in Events /\ e.at = p /\ e.type = "allocated" /\ About(e) = {a} /\ \A b : ~Pays(e, b)
    BY <2>2 DEF Events, About, Pays
  <2>4. /\ paid' \in [Chains -> SUBSET Applications] /\ paid[c] \subseteq paid'[c]
        /\ \A x \in Chains : x # c => paid'[x] = paid[x]
    BY <2>1 DEF TypeOK
  <2>5. Emit(c, e)
    BY <2>1
  <2>. HIDE DEF e
  <2>. QED BY <1>4, <2>1, <2>3, <2>4, <2>5
<1>6. CASE Distributes(c)
  <2>1. PICK a \in Applications \ paid[c], p \in Later(c) :
             /\ status[c][a] # Absent
             /\ paid' = [paid EXCEPT ![c] = @ \cup {a}]
             /\ Emit(c, [type |-> "distributed", app |-> a, at |-> p])
             /\ UNCHANGED <<status, history>>
    BY <1>6 DEF Distributes
  <2>. DEFINE e == [type |-> "distributed", app |-> a, at |-> p]
  <2>2. p \in Nat
    BY RoundsAssumption DEF Later
  <2>3. e \in Events /\ e.at = p /\ e.type = "distributed" /\ About(e) = {a} /\ \A b : Pays(e, b) <=> a = b
    BY <2>2 DEF Events, About, Pays
  <2>4. /\ paid' \in [Chains -> SUBSET Applications] /\ paid[c] \subseteq paid'[c] /\ a \in paid'[c]
        /\ \A x \in Chains : x # c => paid'[x] = paid[x]
    BY <2>1 DEF TypeOK
  <2>5. Emit(c, e)
    BY <2>1
  <2>. HIDE DEF e
  <2>. QED BY <1>4, <2>1, <2>3, <2>4, <2>5
<1>. QED BY <1>1, <1>2, <1>3, <1>5, <1>6

\* A worker takes the head of its feed.
LEMMA Takes ==
    ASSUME TypeOK, NEW c \in Chains, NEW w \in Workers, Read(c, w) \/ Refused(c, w)
    PROVE  Taking(c, w)
<1>. DEFINE e == Head(feed[c][w])
            x == <<[event |-> e, apps |-> apps[c]]>>
<1>1. /\ hand[c][w] = Idle /\ feed[c][w] # <<>> /\ feed[c][w] \in Seq(Events)
      /\ feed' = [feed EXCEPT ![c][w] = Tail(@)]
      /\ UNCHANGED <<status, history, paid, position, reader, apps, donations, round, damaged>>
  BY DEF Read, Refused, NextEvent, contractVars, dbVars, TypeOK
<1>2. Tail(feed[c][w]) \in Seq(Events) /\ e \in Events
  BY <1>1
<1>. DEFINE t == Tail(feed[c][w])
<1>3. feed' = [feed EXCEPT ![c] = [feed[c] EXCEPT ![w] = t]] /\ t \in Seq(Events)
  BY <1>1, <1>2
<1>. HIDE DEF t
<1>4. /\ [feed[c] EXCEPT ![w] = t] \in [Workers -> Seq(Events)]
      /\ feed \in [Chains -> [Workers -> Seq(Events)]]
  BY <1>3 DEF TypeOK
<1>5. /\ feed' \in [Chains -> [Workers -> Seq(Events)]] /\ feed'[c] = [feed[c] EXCEPT ![w] = t]
      /\ \A d \in Chains : d # c => feed'[d] = feed[d]
  BY <1>3, <1>4
<1>6. feed'[c] = [feed[c] EXCEPT ![w] = Tail(@)]
  BY <1>4, <1>5 DEF t
<1>. DEFINE Holds == {Idle} \cup {<<h>> : h \in [event : Events, apps : [Applications -> Rows]]}
<1>7. hand \in [Chains -> [Workers -> Holds]]
  BY DEF TypeOK
<1>8. x \in Holds
  BY <1>2 DEF TypeOK
<1>9. IF Accepts(c, e) THEN hand' = [hand EXCEPT ![c][w] = x] ELSE hand' = hand
  BY DEF Read, Refused
<1>. HIDE DEF Holds, x
<1>10. CASE Accepts(c, e)
  <2>1. hand' = [hand EXCEPT ![c] = [hand[c] EXCEPT ![w] = x]]
    BY <1>9, <1>10
  <2>2. [hand[c] EXCEPT ![w] = x] \in [Workers -> Holds]
    BY <1>7, <1>8
  <2>3. /\ hand' \in [Chains -> [Workers -> Holds]] /\ hand'[c] = [hand[c] EXCEPT ![w] = x]
        /\ \A d \in Chains : d # c => hand'[d] = hand[d]
    BY <1>7, <2>1, <2>2
  <2>4. TypeOK'
    BY <1>1, <1>5, <2>3 DEF TypeOK, Holds
  <2>5. Others(c)
    BY <1>1, <1>5, <2>3 DEF Others, Same
  <2>. QED BY <1>1, <1>6, <1>10, <2>3, <2>4, <2>5 DEF Taking, x
<1>11. CASE ~Accepts(c, e)
  <2>1. hand' = hand
    BY <1>9, <1>11
  <2>2. TypeOK'
    BY <1>1, <1>5, <2>1 DEF TypeOK
  <2>3. Others(c)
    BY <1>1, <1>5, <2>1 DEF Others, Same
  <2>. QED BY <1>1, <1>6, <1>11, <2>1, <2>2, <2>3 DEF Taking
<1>. QED BY <1>10, <1>11

\* What the event in hand does to the tables: a change of statuses,
StatusEffect(c, e) ==
    /\ e.type \in {"registered", "updated", "reviewed"}
    /\ \A a \in Applications :
          apps'[c][a] = IF a \in About(e) /\ (e.type = "registered" \/ apps[c][a].status # Absent)
                        THEN WithStatus(apps[c][a], Given(e, a)) ELSE apps[c][a]
    /\ round'[c] = round[c] /\ donations' = donations /\ damaged'[c] = damaged[c]

\* a donation,
DonationEffect(c, e) ==
    /\ e.type = "allocated" /\ apps[c][e.app].status # Absent
    /\ InsertDonation(c, e)
    /\ round'[c] = WithDonation(round[c], DonationsTo(c, Applications))
    /\ apps'[c] = [apps[c] EXCEPT ![e.app] = WithDonation(@, DonationsTo(c, {e.app}))]
    /\ damaged'[c] = damaged[c]

\* a share,
ShareEffect(c, e) ==
    /\ e.type = "distributed" /\ apps[c][e.app].status # Absent
    /\ apps'[c] = [apps[c] EXCEPT ![e.app].distribution = TRUE]
    /\ round'[c] = [round[c] EXCEPT !.distributed = @ + 1]
    /\ donations' = donations /\ damaged'[c] = damaged[c]

\* or nothing, when the event is given up.
LossEffect(c, e) ==
    /\ apps'[c] = apps[c] /\ round'[c] = round[c] /\ donations' = donations
    /\ damaged'[c] = damaged[c] \cup About(e)

Effect(c, e) ==
    StatusEffect(c, e) \/ DonationEffect(c, e) \/ ShareEffect(c, e) \/ LossEffect(c, e)

\* The hand is empty afterwards.
LEMMA Releases ==
    ASSUME TypeOK, NEW c \in Chains, NEW w \in Workers, Release(c, w)
    PROVE  /\ hand' \in [Chains -> [Workers -> {Idle} \cup {<<h>> : h \in [event : Events, apps : [Applications -> Rows]]}]]
           /\ hand'[c] = [hand[c] EXCEPT ![w] = Idle] /\ hand[c][w] # Idle
           /\ \A d \in Chains : d # c => hand'[d] = hand[d]
<1>. DEFINE Holds == {Idle} \cup {<<h>> : h \in [event : Events, apps : [Applications -> Rows]]}
<1>1. hand \in [Chains -> [Workers -> Holds]] /\ Idle \in Holds
  BY DEF TypeOK
<1>2. hand' = [hand EXCEPT ![c] = [hand[c] EXCEPT ![w] = Idle]] /\ hand[c][w] # Idle
  BY DEF Release
<1>. HIDE DEF Holds
<1>3. [hand[c] EXCEPT ![w] = Idle] \in [Workers -> Holds]
  BY <1>1
<1>4. /\ hand' \in [Chains -> [Workers -> Holds]]
      /\ hand'[c] = [hand[c] EXCEPT ![w] = Idle]
      /\ \A d \in Chains : d # c => hand'[d] = hand[d]
  BY <1>1, <1>2, <1>3
<1>. QED BY <1>2, <1>4 DEF Holds

\* A table changes for one chain.
LEMMA OneOfChains ==
    ASSUME NEW S, NEW f, f \in [Chains -> S], NEW c \in Chains, NEW v \in S, NEW g, g = [f EXCEPT ![c] = v]
    PROVE  /\ g \in [Chains -> S] /\ g[c] = v
           /\ \A d \in Chains : d # c => g[d] = f[d]
OBVIOUS

\* The statistics are numbers, as there are finitely many donations.
LEMMA Counted ==
    ASSUME TypeOK, NEW c \in Chains, NEW e \in Events, e.type = "allocated", InsertDonation(c, e), NEW A
    PROVE  /\ donations' \subseteq [id : Nat, chain : Chains, app : Applications, donor : Donors]
           /\ IsFiniteSet(donations')
           /\ Cardinality(DonorsOf(DonationsTo(c, A))) \in Nat
<1>. DEFINE d == [id |-> e.at, chain |-> c, app |-> e.app, donor |-> e.donor]
<1>1. d \in [id : Nat, chain : Chains, app : Applications, donor : Donors]
  BY EventFacts
<1>2. donations' = donations \/ donations' = donations \cup {d}
  BY DEF InsertDonation
<1>. HIDE DEF d
<1>3. donations' \subseteq [id : Nat, chain : Chains, app : Applications, donor : Donors]
  BY <1>1, <1>2 DEF TypeOK
<1>4. IsFiniteSet(donations')
  <2>1. IsFiniteSet(donations)
    BY DEF TypeOK
  <2>2. IsFiniteSet(donations \cup {d})
    BY <2>1, FS_AddElement
  <2>. QED BY <1>2, <2>1, <2>2
<1>. DEFINE D == DonationsTo(c, A)
<1>5. D \subseteq donations'
  BY DEF DonationsTo
<1>. HIDE DEF D
<1>6. IsFiniteSet(D)
  BY <1>4, <1>5, FS_Subset
<1>7. DonorsOf(D) = {x.donor : x \in D}
  BY DEF DonorsOf
<1>8. IsFiniteSet(DonorsOf(D))
  <2>. DEFINE f == [x \in D |-> x.donor]
  <2>1. f \in Surjection(D, DonorsOf(D))
    BY <1>7 DEF Surjection
  <2>. QED BY <1>6, <2>1, FS_Surjection
<1>9. Cardinality(DonorsOf(D)) \in Nat
  BY <1>8, FS_CardinalityType
<1>. QED BY <1>3, <1>4, <1>9 DEF D

\* The event in hand is stored or given up.
LEMMA Lays ==
    ASSUME TypeOK, NEW c \in Chains, Commit(c, reader[c]) \/ GiveUp(c, reader[c]),
           InHand(c), EmptyRows(c)
    PROVE  Laying(c, reader[c]) /\ Effect(c, Held(c)) /\ Held(c) \in Events /\ TypeOK'
<1>. DEFINE w == reader[c]
            h == Head(hand[c][w])
            e == h.event
            RowT == [Applications -> Rows]
<1>1. w \in Workers /\ Release(c, w)
  BY DEF TypeOK, Commit, GiveUp
<1>2. /\ hand[c][w] # Idle /\ hand'[c] = [hand[c] EXCEPT ![w] = Idle]
      /\ hand' \in [Chains -> [Workers -> {Idle} \cup {<<x>> : x \in [event : Events, apps : [Applications -> Rows]]}]]
      /\ \A d \in Chains : d # c => hand'[d] = hand[d]
  BY <1>1, Releases
<1>3. UNCHANGED <<status, history, paid, position, reader, feed>>
  BY DEF Commit, GiveUp, contractVars
<1>4. e = Held(c) /\ e \in Events /\ h.apps = apps[c] /\ Accepts(c, e)
  <2>1. hand[c][w] # Idle /\ hand[c][w][1] = h /\ e \in Events
    BY <1>1, <1>2, InHandFacts
  <2>. QED BY <2>1 DEF Held, Hand, Busy, InHand
<1>5. apps[c] \in [Applications -> Rows] /\ apps \in [Chains -> RowT]
  BY DEF TypeOK
<1>6. ASSUME NEW t \in RowT, apps' = [apps EXCEPT ![c] = t],
             NEW s \in [count : Nat, donors : Nat, distributed : Nat], round' = [round EXCEPT ![c] = s],
             donations' \subseteq [id : Nat, chain : Chains, app : Applications, donor : Donors],
             IsFiniteSet(donations'), damaged' = damaged
      PROVE  /\ Laying(c, w) /\ TypeOK'
             /\ apps'[c] = t /\ round'[c] = s /\ damaged'[c] = damaged[c]
  <2>. HIDE DEF RowT, h
  <2>1. apps' \in [Chains -> RowT] /\ apps'[c] = t /\ \A d \in Chains : d # c => apps'[d] = apps[d]
    BY <1>5, <1>6, OneOfChains
  <2>2. /\ round' \in [Chains -> [count : Nat, donors : Nat, distributed : Nat]] /\ round'[c] = s
        /\ \A d \in Chains : d # c => round'[d] = round[d]
    <3>. DEFINE S == [count : Nat, donors : Nat, distributed : Nat]
    <3>1. round \in [Chains -> S] /\ s \in S
      BY DEF TypeOK
    <3>. HIDE DEF S
    <3>2. round' \in [Chains -> S] /\ round'[c] = s /\ \A d \in Chains : d # c => round'[d] = round[d]
      BY <1>6, <3>1, OneOfChains
    <3>. QED BY <3>2 DEF S
  <2>3. TypeOK'
    BY <1>2, <1>3, <1>6, <2>1, <2>2 DEF TypeOK, RowT
  <2>. QED BY <1>2, <1>3, <1>6, <2>1, <2>2, <2>3 DEF Laying, Others, Same
<1>. HIDE DEF h
<1>7. CASE CommitRegistration(c, e) /\ UNCHANGED damaged
  <2>1. /\ e.type = "registered" /\ apps' = [apps EXCEPT ![c][e.app] = WithStatus(NoRow, Pending)]
        /\ UNCHANGED <<donations, round>>
    BY <1>7 DEF CommitRegistration
  <2>. DEFINE t == [apps[c] EXCEPT ![e.app] = WithStatus(NoRow, Pending)]
  <2>2. apps' = [apps EXCEPT ![c] = t]
    BY <1>5, <2>1
  <2>3. About(e) = {e.app} /\ e.app \in Applications /\ Given(e, e.app) = Pending
    BY <1>4, <2>1, EventFacts DEF Given
  <2>4. apps[c][e.app] = NoRow
    BY <1>4, <2>1, <2>3 DEF Accepts, Stored, EmptyRows
  <2>5. WithStatus(NoRow, Pending) \in Rows
    BY RowFacts, RoundsAssumption
  <2>6. t \in RowT
    BY <1>5, <2>5
  <2>7. \A a \in Applications : t[a] = IF a \in About(e) THEN WithStatus(apps[c][a], Given(e, a)) ELSE apps[c][a]
    BY <1>5, <2>3, <2>4
  <2>8. round' = [round EXCEPT ![c] = round[c]] /\ round[c] \in [count : Nat, donors : Nat, distributed : Nat]
    BY <2>1 DEF TypeOK
  <2>9. IsFiniteSet(donations') /\ donations' \subseteq [id : Nat, chain : Chains, app : Applications, donor : Donors]
    BY <2>1 DEF TypeOK
  <2>. HIDE DEF t, e
  <2>10. /\ Laying(c, w) /\ TypeOK' /\ apps'[c] = t /\ round'[c] = round[c] /\ damaged'[c] = damaged[c]
    BY <1>6, <1>7, <2>2, <2>6, <2>8, <2>9
  <2>11. StatusEffect(c, e)
    BY <2>1, <2>7, <2>10 DEF StatusEffect
  <2>. QED BY <1>4, <2>10, <2>11 DEF Effect
<1>8. CASE CommitUpdate(c, h) /\ UNCHANGED damaged
  <2>1. /\ e.type \in {"updated", "reviewed"} /\ apps' = [apps EXCEPT ![c] = UpdatedApps(c, h)]
        /\ UNCHANGED <<donations, round>>
    BY <1>8 DEF CommitUpdate
  <2>. DEFINE t == UpdatedApps(c, h)
  <2>2. \A a \in About(e) : a \in Applications /\ Given(e, a) \in Statuses
    BY <1>4, <2>1, EventFacts
  <2>3. \A a \in About(e) : WithStatus(apps[c][a], Given(e, a)) \in Rows
    BY <1>5, <2>2, RowFacts
  <2>4. t \in RowT /\ \A a \in Applications :
           t[a] = IF a \in About(e) /\ apps[c][a].status # Absent
                  THEN WithStatus(apps[c][a], Given(e, a)) ELSE apps[c][a]
    <3>1. CASE e.type = "updated"
      <4>1. About(e) = {e.app} /\ e.app \in Applications /\ Given(e, e.app) = e.status
        BY <1>4, <3>1, EventFacts DEF Given
      <4>2. apps[c][e.app].status # Absent
        BY <1>4, <3>1, <4>1 DEF Accepts, Stored
      <4>3. t = [apps[c] EXCEPT ![e.app] = WithStatus(apps[c][e.app], Given(e, e.app))]
        BY <1>4, <3>1, <4>1 DEF UpdatedApps
      <4>. QED BY <1>5, <2>3, <4>1, <4>2, <4>3
    <3>2. CASE e.type = "reviewed"
      <4>. DEFINE r(a) == WithStatus(apps[c][a], e.row[a])
      <4>1. t = [a \in Applications |->
                    IF a \in About(e) /\ apps[c][a].status # Absent
                    THEN [apps[c][a] EXCEPT !.status = r(a).status, !.snapshots = r(a).snapshots]
                    ELSE apps[c][a]]
        BY <1>4, <3>2 DEF UpdatedApps
      <4>2. ASSUME NEW a \in Applications
            PROVE  [apps[c][a] EXCEPT !.status = r(a).status, !.snapshots = r(a).snapshots] = r(a)
        <5>1. apps[c][a] \in Rows
          BY <1>5
        <5>. QED BY <5>1 DEF WithStatus, Rows
      <4>3. \A a : Given(e, a) = e.row[a]
        BY <3>2 DEF Given
      <4>4. t = [a \in Applications |->
                    IF a \in About(e) /\ apps[c][a].status # Absent
                    THEN WithStatus(apps[c][a], Given(e, a)) ELSE apps[c][a]]
        BY <4>1, <4>2, <4>3
      <4>. QED BY <1>5, <2>3, <4>4
    <3>. QED BY <2>1, <3>1, <3>2
  <2>8. round' = [round EXCEPT ![c] = round[c]] /\ round[c] \in [count : Nat, donors : Nat, distributed : Nat]
    BY <2>1 DEF TypeOK
  <2>9. IsFiniteSet(donations') /\ donations' \subseteq [id : Nat, chain : Chains, app : Applications, donor : Donors]
    BY <2>1 DEF TypeOK
  <2>. HIDE DEF t, e
  <2>10. /\ Laying(c, w) /\ TypeOK' /\ apps'[c] = t /\ round'[c] = round[c] /\ damaged'[c] = damaged[c]
    BY <1>6, <1>8, <2>1, <2>4, <2>8, <2>9 DEF t
  <2>11. StatusEffect(c, e)
    BY <2>1, <2>4, <2>10 DEF StatusEffect
  <2>. QED BY <1>4, <2>10, <2>11 DEF Effect
<1>9. CASE CommitDonation(c, e) /\ UNCHANGED damaged
  <2>1. /\ e.type = "allocated" /\ InsertDonation(c, e)
        /\ round' = [round EXCEPT ![c] = WithDonation(@, DonationsTo(c, Applications))]
        /\ apps' = [apps EXCEPT ![c][e.app] = WithDonation(@, DonationsTo(c, {e.app}))]
    BY <1>9 DEF CommitDonation
  <2>2. e.app \in Applications /\ apps[c][e.app].status # Absent /\ apps[c][e.app] \in Rows
    <3>1. e.app \in Applications
      BY <1>4, <2>1, EventFacts
    <3>2. e.app \in Stored(c)
      BY <1>4, <2>1 DEF Accepts
    <3>. QED BY <1>5, <3>1, <3>2 DEF Stored
  <2>. HIDE DEF e
  <2>3. /\ donations' \subseteq [id : Nat, chain : Chains, app : Applications, donor : Donors]
        /\ IsFiniteSet(donations')
        /\ Cardinality(DonorsOf(DonationsTo(c, Applications))) \in Nat
        /\ Cardinality(DonorsOf(DonationsTo(c, {e.app}))) \in Nat
    BY <1>4, <2>1, Counted
  <2>. DEFINE r == WithDonation(apps[c][e.app], DonationsTo(c, {e.app}))
              s == WithDonation(round[c], DonationsTo(c, Applications))
              t == [apps[c] EXCEPT ![e.app] = r]
  <2>4. r \in Rows
    <3>. DEFINE m == Cardinality(DonorsOf(DonationsTo(c, {e.app})))
    <3>1. PICK row \in Rows : row = apps[c][e.app]
      BY <2>2
    <3>2. r = [row EXCEPT !.count = @ + 1, !.donors = m] /\ m \in Nat
      BY <2>3, <3>1 DEF WithDonation
    <3>. HIDE DEF m, r
    <3>3. row.count \in Nat /\ row.count + 1 \in Nat
      BY DEF Rows
    <3>. QED BY <3>2, <3>3 DEF Rows
  <2>5. s \in [count : Nat, donors : Nat, distributed : Nat] /\ round' = [round EXCEPT ![c] = s]
    <3>. DEFINE m == Cardinality(DonorsOf(DonationsTo(c, Applications)))
    <3>1. round[c] \in [count : Nat, donors : Nat, distributed : Nat]
      BY DEF TypeOK
    <3>2. s = [round[c] EXCEPT !.count = @ + 1, !.donors = m] /\ m \in Nat
      BY <2>3 DEF WithDonation
    <3>3. round' = [round EXCEPT ![c] = s]
      BY <2>1
    <3>. HIDE DEF m, s
    <3>4. PICK n \in [count : Nat, donors : Nat, distributed : Nat] : n = round[c]
      BY <3>1
    <3>5. n.count + 1 \in Nat /\ n.distributed \in Nat
      OBVIOUS
    <3>6. s = [n EXCEPT !.count = n.count + 1, !.donors = m]
      BY <3>2, <3>4
    <3>7. s \in [count : Nat, donors : Nat, distributed : Nat]
      BY <3>2, <3>5, <3>6
    <3>. QED BY <3>3, <3>7
  <2>6. t \in RowT /\ apps' = [apps EXCEPT ![c] = t]
    <3>. HIDE DEF r
    <3>1. t \in RowT
      BY <1>5, <2>4
    <3>. QED BY <1>5, <2>1, <3>1 DEF r
  <2>. HIDE DEF t, s
  <2>10. /\ Laying(c, w) /\ TypeOK' /\ apps'[c] = t /\ round'[c] = s /\ damaged'[c] = damaged[c]
    BY <1>6, <1>9, <2>3, <2>5, <2>6
  <2>11. DonationEffect(c, e)
    BY <1>5, <2>1, <2>2, <2>10 DEF DonationEffect, t, s
  <2>. QED BY <1>4, <2>10, <2>11 DEF Effect
<1>10. CASE CommitDistribution(c, e) /\ UNCHANGED damaged
  <2>1. /\ e.type = "distributed"
        /\ apps' = [apps EXCEPT ![c][e.app].distribution = TRUE]
        /\ round' = [round EXCEPT ![c].distributed = @ + 1]
        /\ UNCHANGED donations
    BY <1>10 DEF CommitDistribution
  <2>2. e.app \in Applications /\ apps[c][e.app].status # Absent /\ apps[c][e.app] \in Rows
    <3>1. e.app \in Applications
      BY <1>4, <2>1, EventFacts
    <3>2. e.app \in Stored(c)
      BY <1>4, <2>1 DEF Accepts
    <3>. QED BY <1>5, <3>1, <3>2 DEF Stored
  <2>. HIDE DEF e
  <2>. DEFINE r == [apps[c][e.app] EXCEPT !.distribution = TRUE]
              s == [round[c] EXCEPT !.distributed = @ + 1]
              t == [apps[c] EXCEPT ![e.app] = r]
  <2>4. r \in Rows
    BY <2>2 DEF Rows
  <2>5. s \in [count : Nat, donors : Nat, distributed : Nat] /\ round' = [round EXCEPT ![c] = s]
    <3>1. round[c] \in [count : Nat, donors : Nat, distributed : Nat] /\ round \in [Chains -> [count : Nat, donors : Nat, distributed : Nat]]
      BY DEF TypeOK
    <3>2. round' = [round EXCEPT ![c] = s]
      BY <2>1, <3>1
    <3>3. round[c].distributed + 1 \in Nat
      BY <3>1
    <3>. QED BY <3>1, <3>2, <3>3
  <2>6. t \in RowT /\ apps' = [apps EXCEPT ![c] = t]
    <3>. HIDE DEF r
    <3>1. t \in RowT
      BY <1>5, <2>4
    <3>. QED BY <1>5, <2>1, <3>1 DEF r
  <2>9. IsFiniteSet(donations') /\ donations' \subseteq [id : Nat, chain : Chains, app : Applications, donor : Donors]
    BY <2>1 DEF TypeOK
  <2>. HIDE DEF t, s
  <2>10. /\ Laying(c, w) /\ TypeOK' /\ apps'[c] = t /\ round'[c] = s /\ damaged'[c] = damaged[c]
    BY <1>6, <1>10, <2>5, <2>6, <2>9
  <2>11. ShareEffect(c, e)
    BY <1>5, <2>1, <2>2, <2>10 DEF ShareEffect, t, s
  <2>. QED BY <1>4, <2>10, <2>11 DEF Effect
<1>11. CASE GiveUp(c, w)
  <2>1. damaged' = [damaged EXCEPT ![c] = @ \cup About(e)] /\ UNCHANGED dbVars
    BY <1>11 DEF GiveUp, h
  <2>2. damaged \in [Chains -> SUBSET Applications] /\ damaged[c] \cup About(e) \in SUBSET Applications
    BY <1>4, EventFacts DEF TypeOK
  <2>. DEFINE D == damaged[c] \cup About(e)
  <2>3. damaged' = [damaged EXCEPT ![c] = D]
    BY <2>1
  <2>. HIDE DEF D, e
  <2>4. /\ damaged' \in [Chains -> SUBSET Applications] /\ damaged'[c] = D
        /\ \A d \in Chains : d # c => damaged'[d] = damaged[d]
    BY <2>2, <2>3, OneOfChains DEF D
  <2>5. TypeOK'
    BY <1>2, <1>3, <2>1, <2>4 DEF TypeOK, dbVars
  <2>6. Laying(c, w)
    BY <1>2, <1>3, <2>1, <2>4 DEF Laying, Others, Same, dbVars
  <2>7. LossEffect(c, e)
    BY <2>1, <2>4 DEF LossEffect, D, dbVars
  <2>. QED BY <1>4, <2>5, <2>6, <2>7 DEF Effect
<1>. QED BY <1>7, <1>8, <1>9, <1>10, <1>11 DEF Commit, h
-----------------------------------------------------------------------------
(* The invariant of a chain. *)

\* It is about what is the chain's only.
LEMMA SameKeeps ==
    ASSUME NEW d \in Chains, ChainInv(d), Same(d)
    PROVE  ChainInv(d)'
<1>1. Feed(d)' = Feed(d) /\ Hand(d)' = Hand(d)
  BY DEF Same, Feed, Hand
<1>2. (Busy(d)' <=> Busy(d)) /\ Held(d)' = Held(d) /\ Paid(d)' = Paid(d)
  BY <1>1 DEF Same, Busy, Held, Paid
<1>3. \A e : Accepts(d, e)' <=> Accepts(d, e)
  BY DEF Same, Accepts, Stored
<1>4. OneReader(d)'
  BY DEF ChainInv, OneReader, Idles, Same
<1>5. InHand(d)'
  <2>1. \A e : Accepts(d, e') <=> Accepts(d, e')
    OBVIOUS
  <2>. QED BY <1>1, <1>2, <1>3 DEF ChainInv, InHand, Same, Accepts, Stored
<1>6. EmptyRows(d)' /\ StatusIsLast(d)'
  BY DEF ChainInv, EmptyRows, StatusIsLast, Same
<1>7. Shares(d)'
  BY <1>1, <1>2 DEF ChainInv, Shares, Same
<1>8. StatusBehind(d)'
  BY <1>1, <1>2 DEF ChainInv, StatusBehind, Behind, Same
<1>. QED BY <1>4, <1>5, <1>6, <1>7, <1>8 DEF ChainInv

\* An event the contract emits is behind the others.
LEMMA EmissionKeeps ==
    ASSUME TypeOK, NEW c \in Chains, ChainInv(c), NEW e, Emission(c, e)
    PROVE  ChainInv(c)'
<1>. DEFINE n == Len(Feed(c))
<1>1. /\ reader[c] \in Workers /\ feed[c] \in [Workers -> Seq(Events)]
      /\ Feed(c) \in Seq(Events) /\ e \in Events
  BY DEF TypeOK, Feed, Emission
<1>2. /\ reader'[c] = reader[c] /\ hand'[c] = hand[c] /\ apps'[c] = apps[c]
      /\ round'[c] = round[c] /\ damaged'[c] = damaged[c]
      /\ feed'[c] = [feed[c] EXCEPT ![reader[c]] = Append(@, e)]
      /\ paid[c] \subseteq paid'[c]
  BY DEF Emission
<1>3. /\ Feed(c)' = Append(Feed(c), e) /\ Hand(c)' = Hand(c) /\ (Busy(c)' <=> Busy(c))
      /\ Held(c)' = Held(c) /\ Paid(c)' = Paid(c)
  BY <1>1, <1>2 DEF Feed, Hand, Busy, Held, Paid
<1>4. /\ n \in Nat /\ Len(Append(Feed(c), e)) = n + 1
      /\ \A i \in 1..n : Append(Feed(c), e)[i] = Feed(c)[i]
      /\ Append(Feed(c), e)[n + 1] = e
  BY <1>1
<1>. HIDE DEF n
<1>5. OneReader(c)'
  <2>1. \A w \in Workers : w # reader[c] => feed'[c][w] = feed[c][w]
    BY <1>1, <1>2
  <2>. QED BY <1>2, <2>1 DEF ChainInv, OneReader, Idles
<1>6. InHand(c)'
  BY <1>2, <1>3 DEF ChainInv, InHand, Accepts, Stored
<1>7. EmptyRows(c)' /\ StatusIsLast(c)'
  BY <1>2 DEF ChainInv, EmptyRows, StatusIsLast, Emission
<1>8. Shares(c)'
  <2>1. Shares(c) /\ \A a \in Applications : Pays(e, a) => a \notin paid[c] /\ a \in paid'[c]
    BY DEF ChainInv, Emission
  <2>2. \A i \in 1..n + 1 : i = n + 1 \/ i \in 1..n
    BY <1>4
  <2>3. IsFiniteSet(Paid(c)') /\ round'[c].distributed = Cardinality(Paid(c)')
    BY <1>2, <1>3, <2>1 DEF Shares
  <2>4. ASSUME NEW a \in Applications, a \in Paid(c) PROVE a \in paid'[c]
    BY <1>2, <2>1, <2>4 DEF Shares
  <2>5. ASSUME NEW a \in Applications, Busy(c), Pays(Held(c), a)
        PROVE  /\ a \in paid'[c] /\ a \notin Paid(c)
               /\ \A i \in 1..n + 1 : ~Pays(Append(Feed(c), e)[i], a)
    <3>1. a \in paid[c] /\ a \notin Paid(c) /\ \A i \in 1..n : ~Pays(Feed(c)[i], a)
      BY <2>1, <2>5 DEF Shares, n
    <3>. QED BY <1>2, <1>4, <2>1, <2>2, <3>1
  <2>6. ASSUME NEW a \in Applications, NEW i \in 1..n + 1, Pays(Append(Feed(c), e)[i], a)
        PROVE  /\ a \in paid'[c] /\ a \notin Paid(c)
               /\ \A j \in 1..n + 1 : Pays(Append(Feed(c), e)[j], a) => j = i
    <3>1. /\ \A k \in 1..n : Pays(Feed(c)[k], a) =>
                /\ a \in paid[c] /\ a \notin Paid(c)
                /\ \A j \in 1..n : Pays(Feed(c)[j], a) => j = k
          /\ a \in Paid(c) => a \in paid[c]
      BY <2>1 DEF Shares, n
    <3>2. CASE i = n + 1
      <4>1. a \notin paid[c] /\ a \in paid'[c]
        BY <1>4, <2>1, <2>6, <3>2
      <4>. QED BY <1>4, <2>2, <3>1, <3>2, <4>1
    <3>3. CASE i # n + 1
      <4>1. i \in 1..n /\ Pays(Feed(c)[i], a)
        BY <1>4, <2>2, <2>6, <3>3
      <4>2. a \in paid[c] /\ ~Pays(e, a)
        BY <2>1, <3>1, <4>1
      <4>. QED BY <1>2, <1>4, <2>2, <3>1, <4>1, <4>2
    <3>. QED BY <3>2, <3>3
  <2>. QED BY <1>3, <1>4, <2>3, <2>4, <2>5, <2>6 DEF Shares, n
<1>9. StatusBehind(c)'
  <2>. SUFFICES ASSUME NEW a \in Applications, a \notin damaged[c] PROVE Behind(c, a)'
    BY <1>2 DEF StatusBehind
  <2>1. PICK h : /\ Runs(h, Feed(c), a)
                 /\ h[Len(Feed(c))] = history[c][a]
                 /\ IF Busy(c) THEN Move(Held(c), a, apps[c][a].snapshots, h[0])
                               ELSE h[0] = apps[c][a].snapshots
    BY DEF ChainInv, StatusBehind, Behind
  <2>2. PICK v \in Seq(Statuses) : v = history'[c][a]
    BY DEF Emission, TypeOK
  <2>3. Move(e, a, h[Len(Feed(c))], v)
    BY <2>1, <2>2 DEF Emission
  <2>4. PICK g : Runs(g, Append(Feed(c), e), a) /\ g[0] = h[0] /\ g[Len(Append(Feed(c), e))] = v
    BY <1>1, <2>1, <2>3, RunsExtend
  <2>5. apps'[c][a].snapshots = apps[c][a].snapshots
    BY <1>2
  <2>6. IF Busy(c) THEN Move(Held(c), a, apps[c][a].snapshots, g[0])
                   ELSE g[0] = apps[c][a].snapshots
    BY <2>1, <2>4
  <2>. HIDE DEF Behind
  <2>7. /\ Runs(g, Feed(c)', a) /\ g[Len(Feed(c)')] = history'[c][a]
        /\ IF Busy(c)' THEN Move(Held(c)', a, apps'[c][a].snapshots, g[0])
                       ELSE g[0] = apps'[c][a].snapshots
    BY <1>3, <2>2, <2>4, <2>5, <2>6
  <2>. QED BY <2>7 DEF Behind
<1>. QED BY <1>5, <1>6, <1>7, <1>8, <1>9 DEF ChainInv

\* A worker with an event to take is the one events go to.
LEMMA TakerIsReader ==
    ASSUME TypeOK, NEW c \in Chains, OneReader(c), NEW w \in Workers,
           feed[c][w] # <<>> \/ hand[c][w] # Idle
    PROVE  w = reader[c]
BY DEF OneReader, Idles

\* An event is taken, or refused if it is about something lost.
LEMMA TakingKeeps ==
    ASSUME TypeOK, NEW c \in Chains, ChainInv(c), NEW w \in Workers, Taking(c, w)
    PROVE  ChainInv(c)'
<1>. DEFINE n == Len(Feed(c))
            e == Head(Feed(c))
<1>1. w = reader[c] /\ reader[c] \in Workers
  BY TakerIsReader DEF Taking, ChainInv
<1>2. /\ Feed(c) \in Seq(Events) /\ Feed(c) # <<>> /\ e \in Events /\ ~Busy(c)
      /\ feed[c] \in [Workers -> Seq(Events)] /\ DOMAIN hand[c] = Workers
  BY <1>1 DEF TypeOK, Feed, Busy, Hand, Taking
<1>3. /\ reader'[c] = reader[c] /\ apps'[c] = apps[c] /\ status'[c] = status[c]
      /\ history'[c] = history[c] /\ round'[c] = round[c] /\ damaged'[c] = damaged[c]
      /\ paid'[c] = paid[c] /\ feed'[c] = [feed[c] EXCEPT ![w] = Tail(@)]
      /\ IF Accepts(c, e)
         THEN hand'[c] = [hand[c] EXCEPT ![w] = <<[event |-> e, apps |-> apps[c]]>>]
         ELSE hand'[c] = hand[c]
  BY <1>1 DEF Taking, Feed
<1>4. Feed(c)' = Tail(Feed(c)) /\ Paid(c)' = Paid(c)
  BY <1>1, <1>2, <1>3 DEF Feed, Paid
<1>5. /\ Accepts(c, e) => /\ Hand(c)' = <<[event |-> e, apps |-> apps[c]]>> /\ Busy(c)'
                          /\ Held(c)' = e /\ Hand(c)'[1].apps = apps[c]
      /\ ~Accepts(c, e) => ~Busy(c)'
  BY <1>1, <1>2, <1>3 DEF Hand, Busy, Held, Idle
<1>6. /\ n \in Nat \ {0} /\ Len(Tail(Feed(c))) = n - 1 /\ e = Feed(c)[1]
      /\ \A i \in 1..n - 1 : Tail(Feed(c))[i] = Feed(c)[i + 1]
  BY <1>2
<1>. HIDE DEF n, e
<1>7. OneReader(c)'
  BY <1>1, <1>2, <1>3 DEF ChainInv, OneReader, Idles
<1>8. InHand(c)'
  <2>. HIDE DEF Accepts
  <2>1. Accepts(c, e) => /\ Hand(c)'[1].apps = apps'[c] /\ Held(c)' = e
    BY <1>3, <1>5
  <2>2. ASSUME NEW x, x = Held(c)', Accepts(c, x) PROVE Accepts(c, Held(c))'
    BY <1>3, <2>2 DEF Accepts, Stored
  <2>. QED BY <1>5, <2>1, <2>2 DEF InHand
<1>9. EmptyRows(c)' /\ StatusIsLast(c)'
  BY <1>3 DEF ChainInv, EmptyRows, StatusIsLast
<1>10. Shares(c)'
  <2>1. Shares(c)
    BY DEF ChainInv
  <2>2. 1 \in 1..n /\ \A i \in 1..n - 1 : i + 1 \in 1..n /\ i + 1 # 1
    BY <1>6
  <2>3. IsFiniteSet(Paid(c)') /\ round'[c].distributed = Cardinality(Paid(c)')
    BY <1>3, <1>4, <2>1 DEF Shares
  <2>4. ASSUME NEW a \in Applications
        PROVE  /\ a \in Paid(c) => a \in paid[c]
               /\ \A i \in 1..n : Pays(Feed(c)[i], a) =>
                     /\ a \in paid[c] /\ a \notin Paid(c)
                     /\ \A j \in 1..n : Pays(Feed(c)[j], a) => j = i
    BY <2>1 DEF Shares, n
  <2>5. ASSUME NEW a \in Applications, Pays(e, a)
        PROVE  /\ a \in paid[c] /\ a \notin Paid(c)
               /\ \A i \in 1..n - 1 : ~Pays(Tail(Feed(c))[i], a)
    BY <1>6, <2>2, <2>4, <2>5
  <2>6. ASSUME NEW a \in Applications, NEW i \in 1..n - 1, Pays(Tail(Feed(c))[i], a)
        PROVE  /\ a \in paid[c] /\ a \notin Paid(c)
               /\ \A j \in 1..n - 1 : Pays(Tail(Feed(c))[j], a) => j = i
    <3>1. Pays(Feed(c)[i + 1], a) /\ i + 1 \in 1..n
      BY <1>6, <2>2, <2>6
    <3>2. ASSUME NEW j \in 1..n - 1, Pays(Tail(Feed(c))[j], a) PROVE j = i
      <4>1. Pays(Feed(c)[j + 1], a) /\ j + 1 \in 1..n
        BY <1>6, <2>2, <3>2
      <4>2. j + 1 = i + 1
        BY <2>4, <3>1, <4>1
      <4>. QED BY <4>2, <1>6
    <3>. QED BY <2>4, <3>1, <3>2
  <2>7. Busy(c)' => Held(c)' = e
    BY <1>5
  <2>. QED BY <1>3, <1>4, <1>6, <2>3, <2>4, <2>5, <2>6, <2>7 DEF Shares
<1>11. StatusBehind(c)'
  <2>. SUFFICES ASSUME NEW a \in Applications, a \notin damaged[c] PROVE Behind(c, a)'
    BY <1>3 DEF StatusBehind
  <2>1. PICK h : /\ Runs(h, Feed(c), a)
                 /\ h[Len(Feed(c))] = history[c][a] /\ h[0] = apps[c][a].snapshots
    BY <1>2 DEF ChainInv, StatusBehind, Behind
  <2>2. PICK g : /\ Runs(g, Tail(Feed(c)), a) /\ Move(e, a, h[0], g[0])
                 /\ g[Len(Tail(Feed(c)))] = h[Len(Feed(c))] /\ g[0] \in Seq(Statuses)
    BY <1>2, <2>1, RunsShrink DEF e
  <2>3. ~Accepts(c, e) => g[0] = h[0]
    <3>. SUFFICES ASSUME ~Accepts(c, e) PROVE g[0] = h[0]
      OBVIOUS
    <3>1. CASE a \notin About(e)
      BY <2>2, <3>1 DEF Move
    <3>2. CASE a \in About(e)
      <4>1. e.type # "reviewed" /\ e.app = a
        BY <1>2, <3>2, EventFacts DEF Accepts
      <4>2. apps[c][a] \in Rows
        BY DEF TypeOK
      <4>3. a \in Stored(c) <=> h[0] # <<>>
        BY <2>1, <4>2, RowFacts DEF Stored
      <4>4. h[0] = <<>> <=> e.type = "registered"
        BY <2>2, <3>2 DEF Move
      <4>5. Accepts(c, e)
        BY <4>1, <4>3, <4>4 DEF Accepts
      <4>. QED BY <4>5
    <3>. QED BY <3>1, <3>2
  <2>4. /\ Runs(g, Feed(c)', a) /\ g[Len(Feed(c)')] = history'[c][a]
        /\ IF Busy(c)' THEN Move(Held(c)', a, apps'[c][a].snapshots, g[0])
                       ELSE g[0] = apps'[c][a].snapshots
    <3>1. Busy(c)' => Held(c)' = e
      BY <1>5
    <3>2. ~Busy(c)' => ~Accepts(c, e)
      BY <1>5
    <3>. QED BY <1>3, <1>4, <2>1, <2>2, <2>3, <3>1, <3>2
  <2>. QED BY <2>4 DEF Behind
<1>. QED BY <1>7, <1>8, <1>9, <1>10, <1>11 DEF ChainInv

\* What was in hand is stored, or marks what it was about as lost.
LEMMA LayingKeeps ==
    ASSUME TypeOK, NEW c \in Chains, ChainInv(c), Laying(c, reader[c]), NEW e \in Events, e = Held(c),
           Effect(c, e), TypeOK'
    PROVE  ChainInv(c)'
<1>1. /\ Busy(c) /\ reader[c] \in Workers /\ DOMAIN hand[c] = Workers
      /\ status'[c] = status[c] /\ history'[c] = history[c] /\ paid'[c] = paid[c]
      /\ reader'[c] = reader[c] /\ feed'[c] = feed[c]
      /\ hand'[c] = [hand[c] EXCEPT ![reader[c]] = Idle]
  BY DEF Laying, Busy, Hand, TypeOK
<1>2. Feed(c)' = Feed(c) /\ ~Busy(c)'
  BY <1>1 DEF Feed, Busy, Hand
<1>3. OneReader(c)' /\ InHand(c)' /\ StatusIsLast(c)'
  BY <1>1, <1>2 DEF ChainInv, OneReader, Idles, InHand, StatusIsLast
<1>4. /\ About(e) \subseteq Applications
      /\ e.type # "reviewed" => e.app \in Applications /\ About(e) = {e.app}
      /\ \A a \in About(e) : e.type \in {"registered", "updated", "reviewed"} => Given(e, a) \in Statuses
  BY EventFacts
<1>5. apps[c] \in [Applications -> Rows] /\ apps'[c] \in [Applications -> Rows]
  BY DEF TypeOK
\* Each application by itself
<1>6. ASSUME NEW a \in Applications
      PROVE  /\ apps'[c][a].status = Absent => apps'[c][a] = apps[c][a]
             /\ a \notin damaged'[c] => a \notin damaged[c]
             /\ \A v : a \notin damaged'[c] /\ Move(e, a, apps[c][a].snapshots, v) =>
                   v = apps'[c][a].snapshots
             /\ a \in Paid(c)' <=> a \in Paid(c) \/ (ShareEffect(c, e) /\ a = e.app)
  <2>1. CASE StatusEffect(c, e)
    <3>. DEFINE s == Given(e, a)
    <3>1. /\ e.type \in {"registered", "updated", "reviewed"} /\ damaged'[c] = damaged[c]
          /\ apps'[c][a] = IF a \in About(e) /\ (e.type = "registered" \/ apps[c][a].status # Absent)
                           THEN WithStatus(apps[c][a], s) ELSE apps[c][a]
      BY <2>1 DEF StatusEffect
    <3>2. a \in About(e) => /\ s \in Statuses /\ WithStatus(apps[c][a], s).status = s
                            /\ WithStatus(apps[c][a], s).snapshots = Noted(apps[c][a].snapshots, s)
                            /\ WithStatus(apps[c][a], s).distribution = apps[c][a].distribution
      BY <1>4, <1>5, <3>1, RowFacts
    <3>3. apps[c][a].status = Absent <=> apps[c][a].snapshots = <<>>
      BY <1>5, RowFacts
    <3>4. ASSUME NEW v, Move(e, a, apps[c][a].snapshots, v)
          PROVE  v = apps'[c][a].snapshots
      BY <3>1, <3>2, <3>3, <3>4 DEF Move
    <3>5. apps'[c][a].status = Absent => apps'[c][a] = apps[c][a]
      BY <3>1, <3>2, RoundsAssumption
    <3>6. a \in Paid(c)' <=> a \in Paid(c)
      BY <3>1, <3>2 DEF Paid
    <3>7. ~ShareEffect(c, e)
      BY <3>1 DEF ShareEffect
    <3>. QED BY <3>1, <3>4, <3>5, <3>6, <3>7
  <2>2. CASE DonationEffect(c, e)
    <3>1. /\ e.type = "allocated" /\ apps[c][e.app].status # Absent /\ damaged'[c] = damaged[c]
          /\ apps'[c] = [apps[c] EXCEPT ![e.app] = WithDonation(@, DonationsTo(c, {e.app}))]
      BY <2>2 DEF DonationEffect
    <3>2. /\ apps'[c][a].snapshots = apps[c][a].snapshots /\ apps'[c][a].status = apps[c][a].status
          /\ apps'[c][a].distribution = apps[c][a].distribution
          /\ apps[c][a].status = Absent => apps'[c][a] = apps[c][a]
      <4>1. CASE a # e.app
        BY <1>5, <3>1, <4>1
      <4>2. CASE a = e.app
        <5>1. PICK row \in Rows : row = apps[c][a]
          BY <1>5
        <5>2. apps'[c][a] = WithDonation(row, DonationsTo(c, {e.app}))
          BY <1>5, <3>1, <4>2, <5>1
        <5>. QED BY <3>1, <4>2, <5>1, <5>2 DEF WithDonation, Rows
      <4>. QED BY <4>1, <4>2
    <3>3. \A v : Move(e, a, apps[c][a].snapshots, v) => v = apps[c][a].snapshots
      BY <3>1 DEF Move
    <3>4. ~ShareEffect(c, e)
      BY <3>1 DEF ShareEffect
    <3>5. a \in Paid(c)' <=> a \in Paid(c)
      BY <3>2 DEF Paid
    <3>. QED BY <3>1, <3>2, <3>3, <3>4, <3>5
  <2>3. CASE ShareEffect(c, e)
    <3>1. /\ e.type = "distributed" /\ apps[c][e.app].status # Absent /\ damaged'[c] = damaged[c]
          /\ apps'[c] = [apps[c] EXCEPT ![e.app].distribution = TRUE] /\ e.app \in Applications
      BY <1>4, <2>3 DEF ShareEffect
    <3>2. /\ apps'[c][a].snapshots = apps[c][a].snapshots /\ apps'[c][a].status = apps[c][a].status
          /\ apps[c][a].status = Absent => apps'[c][a] = apps[c][a]
          /\ apps'[c][a].distribution <=> apps[c][a].distribution \/ a = e.app
      <4>1. CASE a # e.app
        BY <1>5, <3>1, <4>1
      <4>2. CASE a = e.app
        <5>1. PICK row \in Rows : row = apps[c][a]
          BY <1>5
        <5>2. apps'[c][a] = [row EXCEPT !.distribution = TRUE]
          BY <1>5, <3>1, <4>2, <5>1
        <5>. QED BY <3>1, <4>2, <5>1, <5>2 DEF Rows
      <4>. QED BY <4>1, <4>2
    <3>3. \A v : Move(e, a, apps[c][a].snapshots, v) => v = apps[c][a].snapshots
      BY <3>1 DEF Move
    <3>5. a \in Paid(c)' <=> a \in Paid(c) \/ a = e.app
      BY <3>2 DEF Paid
    <3>. QED BY <2>3, <3>1, <3>2, <3>3, <3>5
  <2>4. CASE LossEffect(c, e) /\ ~ShareEffect(c, e)
    <3>1. apps'[c] = apps[c] /\ damaged'[c] = damaged[c] \cup About(e)
      BY <2>4 DEF LossEffect
    <3>2. \A v : a \notin About(e) /\ Move(e, a, apps[c][a].snapshots, v) => v = apps[c][a].snapshots
      BY DEF Move
    <3>3. a \in Paid(c)' <=> a \in Paid(c)
      BY <3>1 DEF Paid
    <3>. QED BY <2>4, <3>1, <3>2, <3>3
  <2>. QED BY <2>1, <2>2, <2>3, <2>4 DEF Effect
<1>7. EmptyRows(c)'
  BY <1>6 DEF EmptyRows, ChainInv
<1>8. StatusBehind(c)'
  <2>. SUFFICES ASSUME NEW a \in Applications, a \notin damaged'[c] PROVE Behind(c, a)'
    BY DEF StatusBehind
  <2>1. PICK h : /\ Runs(h, Feed(c), a) /\ h[Len(Feed(c))] = history[c][a]
                 /\ Move(e, a, apps[c][a].snapshots, h[0])
    BY <1>1, <1>6 DEF ChainInv, StatusBehind, Behind
  <2>2. h[0] = apps'[c][a].snapshots
    BY <1>6, <2>1
  <2>. QED BY <1>1, <1>2, <2>1, <2>2 DEF Behind
<1>9. Shares(c)'
  <2>1. Shares(c)
    BY DEF ChainInv
  <2>2. CASE ShareEffect(c, e)
    <3>1. /\ e.type = "distributed" /\ round'[c] = [round[c] EXCEPT !.distributed = @ + 1]
          /\ e.app \in Applications
      BY <1>4, <2>2 DEF ShareEffect
    <3>2. Paid(c)' = Paid(c) \cup {e.app}
      BY <1>6, <2>2, <3>1 DEF Paid
    <3>3. /\ e.app \in paid[c] /\ e.app \notin Paid(c)
          /\ \A i \in 1..Len(Feed(c)) : ~Pays(Feed(c)[i], e.app)
      BY <1>1, <2>1, <3>1 DEF Shares, Pays
    <3>4. /\ IsFiniteSet(Paid(c)')
          /\ Cardinality(Paid(c)') = Cardinality(Paid(c)) + 1
      BY <2>1, <3>2, <3>3, FS_AddElement DEF Shares
    <3>5. round'[c].distributed = round[c].distributed + 1
      BY <3>1 DEF TypeOK
    <3>. QED BY <1>1, <1>2, <2>1, <3>2, <3>3, <3>4, <3>5 DEF Shares
  <2>3. CASE ~ShareEffect(c, e)
    <3>1. Paid(c)' = Paid(c)
      BY <1>6, <2>3 DEF Paid
    <3>2. round'[c].distributed = round[c].distributed
      <4>1. round[c] \in [count : Nat, donors : Nat, distributed : Nat]
        BY DEF TypeOK
      <4>. QED BY <2>3, <4>1 DEF Effect, StatusEffect, DonationEffect, LossEffect, WithDonation
    <3>. QED BY <1>1, <1>2, <2>1, <3>1, <3>2 DEF Shares
  <2>. QED BY <2>2, <2>3
<1>. QED BY <1>3, <1>7, <1>8, <1>9 DEF ChainInv
-----------------------------------------------------------------------------
(* The invariant is inductive. *)

\* What each step of a chain is.
StepOf(c) ==
    \/ \E e : Emission(c, e)
    \/ NewBuild(c)
    \/ \E w \in Workers : Taking(c, w)
    \/ Laying(c, reader[c]) /\ Effect(c, Held(c)) /\ Held(c) \in Events /\ TypeOK'

\* Every step is one of these.
LEMMA Steps ==
    ASSUME IInv, Next
    PROVE  \E c \in Chains : StepOf(c)
<1>1. PICK c \in Chains :
          \/ Registers(c) \/ Updates(c) \/ Reviews(c) \/ Donates(c) \/ Distributes(c)
          \/ NewBuild(c)
          \/ \E w \in Workers : Read(c, w) \/ Refused(c, w) \/ Commit(c, w) \/ GiveUp(c, w)
  BY DEF Next
<1>2. TypeOK /\ OneReader(c) /\ InHand(c) /\ EmptyRows(c) /\ StatusIsLast(c)
  BY DEF IInv, ChainInv
<1>3. CASE Registers(c) \/ Updates(c) \/ Reviews(c) \/ Donates(c) \/ Distributes(c)
  BY <1>2, <1>3, Emits DEF StepOf
<1>4. CASE NewBuild(c)
  BY <1>4 DEF StepOf
<1>5. CASE \E w \in Workers : Read(c, w) \/ Refused(c, w)
  BY <1>2, <1>5, Takes DEF StepOf
<1>6. CASE \E w \in Workers : Commit(c, w) \/ GiveUp(c, w)
  <2>1. PICK w \in Workers : Commit(c, w) \/ GiveUp(c, w)
    BY <1>6
  <2>2. hand[c][w] # Idle
    BY <2>1 DEF Commit, GiveUp, Release
  <2>3. w = reader[c]
    BY <1>2, <2>2, TakerIsReader
  <2>. QED BY <1>2, <2>1, <2>3, Lays DEF StepOf
<1>. QED BY <1>1, <1>3, <1>4, <1>5, <1>6

\* A new build, which waits for the process, has the events from then on.
LEMMA NewBuildKeeps ==
    ASSUME ~Overlap, TypeOK, NEW c \in Chains, ChainInv(c), NewBuild(c)
    PROVE  ChainInv(c)' /\ TypeOK' /\ Others(c)
<1>1. /\ reader[c] = "retro" /\ Idles(c, "retro") /\ reader' = [reader EXCEPT ![c] = "live"]
      /\ UNCHANGED <<status, history, paid, position, feed, hand, apps, donations, round, damaged>>
  BY DEF NewBuild, dbVars
<1>2. Idles(c, "live")
  BY <1>1 DEF ChainInv, OneReader, Workers
<1>3. /\ reader' \in [Chains -> Workers] /\ reader'[c] = "live"
      /\ \A d \in Chains : d # c => reader'[d] = reader[d]
  BY <1>1 DEF TypeOK, Workers
<1>4. TypeOK' /\ Others(c)
  BY <1>1, <1>3 DEF TypeOK, Others, Same
<1>5. /\ Feed(c) = <<>> /\ Feed(c)' = <<>> /\ ~Busy(c) /\ ~Busy(c)'
      /\ Feed(c)' = Feed(c) /\ Paid(c)' = Paid(c)
  BY <1>1, <1>2, <1>3 DEF Idles, Feed, Busy, Hand, Paid
<1>6. OneReader(c)'
  BY <1>1, <1>3 DEF OneReader, Idles, Workers
<1>7. InHand(c)' /\ EmptyRows(c)' /\ StatusIsLast(c)'
  BY <1>1, <1>5 DEF ChainInv, InHand, EmptyRows, StatusIsLast
<1>8. Shares(c)'
  BY <1>1, <1>5 DEF ChainInv, Shares
<1>9. StatusBehind(c)'
  BY <1>1, <1>5 DEF ChainInv, StatusBehind, Behind
<1>. QED BY <1>4, <1>6, <1>7, <1>8, <1>9 DEF ChainInv

\* The invariant holds at the start,
LEMMA InitOK == Init => IInv
<1>. SUFFICES ASSUME Init PROVE IInv
  OBVIOUS
<1>1. TypeOK
  <2>1. <<>> \in Seq(Statuses) /\ <<>> \in Seq(Events) /\ NoRow \in Rows
    BY RowFacts
  <2>2. IsFiniteSet({})
    BY FS_EmptySet
  <2>3. [a \in Applications |-> NoRow] \in [Applications -> Rows]
    BY <2>1
  <2>. DEFINE Holds == {Idle} \cup {<<h>> : h \in [event : Events, apps : [Applications -> Rows]]}
  <2>4. hand \in [Chains -> [Workers -> Holds]]
    <3>1. Idle \in Holds
      OBVIOUS
    <3>. HIDE DEF Holds
    <3>. QED BY <3>1 DEF Init
  <2>5. apps \in [Chains -> [Applications -> Rows]]
    BY <2>1 DEF Init
  <2>6. /\ status \in [Chains -> [Applications -> Statuses \cup {Absent}]]
        /\ history \in [Chains -> [Applications -> Seq(Statuses)]]
        /\ paid \in [Chains -> SUBSET Applications]
        /\ position \in [Chains -> Nat] /\ reader \in [Chains -> Workers]
        /\ feed \in [Chains -> [Workers -> Seq(Events)]]
    BY <2>1 DEF Init, Workers
  <2>7. /\ donations \subseteq [id : Nat, chain : Chains, app : Applications, donor : Donors]
        /\ IsFiniteSet(donations)
        /\ round \in [Chains -> [count : Nat, donors : Nat, distributed : Nat]]
        /\ damaged \in [Chains -> SUBSET Applications]
    BY <2>2 DEF Init
  <2>. QED BY <2>4, <2>5, <2>6, <2>7 DEF TypeOK
<1>2. ASSUME NEW c \in Chains PROVE ChainInv(c)
  <2>1. /\ reader[c] = "retro" /\ Feed(c) = <<>> /\ ~Busy(c) /\ \A w \in Workers : Idles(c, w)
        /\ \A a \in Applications : apps[c][a] = NoRow /\ history[c][a] = <<>> /\ status[c][a] = Absent
        /\ round[c].distributed = 0
    BY DEF Init, Feed, Busy, Hand, Workers, Idles
  <2>2. OneReader(c) /\ InHand(c) /\ EmptyRows(c) /\ StatusIsLast(c)
    BY <2>1 DEF OneReader, InHand, EmptyRows, StatusIsLast, Current
  <2>3. Shares(c)
    <3>1. Paid(c) = {}
      BY <2>1, RowFacts DEF Paid
    <3>. QED BY <2>1, <3>1, FS_EmptySet DEF Shares
  <2>4. StatusBehind(c)
    <3>. SUFFICES ASSUME NEW a \in Applications PROVE Behind(c, a)
      BY DEF StatusBehind
    <3>. DEFINE h == [i \in 0..0 |-> <<>>]
    <3>1. h \in [0..0 -> Seq(Statuses)] /\ h[0] = <<>>
      OBVIOUS
    <3>2. Len(Feed(c)) = 0 /\ 1..0 = {}
      BY <2>1
    <3>. HIDE DEF h
    <3>3. Runs(h, Feed(c), a)
      BY <3>1, <3>2 DEF Runs
    <3>. QED BY <2>1, <3>1, <3>2, <3>3, RowFacts DEF Behind
  <2>. QED BY <2>2, <2>3, <2>4 DEF ChainInv
<1>. QED BY <1>1, <1>2 DEF IInv

\* after every step of a chain, which leaves the others alone,
LEMMA NextOK ==
    ASSUME ~Overlap, IInv, NEW c \in Chains, StepOf(c)
    PROVE  IInv' /\ Others(c)
<1>1. TypeOK /\ ChainInv(c) /\ \A d \in Chains : ChainInv(d)
  BY DEF IInv
<1>2. TypeOK' /\ Others(c) /\ ChainInv(c)'
  <2>1. CASE \E e : Emission(c, e)
    BY <1>1, <2>1, EmissionKeeps DEF Emission
  <2>2. CASE NewBuild(c)
    BY <1>1, <2>2, NewBuildKeeps
  <2>3. CASE \E w \in Workers : Taking(c, w)
    BY <1>1, <2>3, TakingKeeps DEF Taking
  <2>4. CASE Laying(c, reader[c]) /\ Effect(c, Held(c)) /\ Held(c) \in Events /\ TypeOK'
    BY <1>1, <2>4, LayingKeeps DEF Laying
  <2>. QED BY <2>1, <2>2, <2>3, <2>4 DEF StepOf
<1>3. \A d \in Chains : ChainInv(d)'
  BY <1>1, <1>2, SameKeeps DEF Others
<1>. QED BY <1>2, <1>3 DEF IInv

\* when nothing changes,
LEMMA StutterOK ==
    ASSUME IInv, UNCHANGED vars
    PROVE  IInv' /\ \A d \in Chains : Same(d)
<1>1. UNCHANGED <<status, history, paid, position, reader, feed, hand, apps, donations, round, damaged>>
  BY DEF vars, contractVars, dbVars
<1>2. TypeOK'
  BY <1>1 DEF IInv, TypeOK
<1>3. \A d \in Chains : Same(d)
  BY <1>1 DEF Same
<1>. QED BY <1>2, <1>3, SameKeeps DEF IInv

\* so it always holds,
LEMMA Inductive ==
    ASSUME ~Overlap
    PROVE  Spec => []IInv
<1>1. Init => IInv
  BY InitOK
<1>2. IInv /\ [Next]_vars => IInv'
  BY Steps, NextOK, StutterOK
<1>. QED BY <1>1, <1>2, PTL DEF Spec

\* The total distributed of a round is that of its applications with a share,
\* if the live loop starts only after the process.
THEOREM SharesAddUp ==
    ASSUME ~Overlap
    PROVE  Spec => []DistributedMatchesApplications
<1>1. IInv => DistributedMatchesApplications
  BY DEF IInv, ChainInv, Shares, Paid, DistributedMatchesApplications
<1>. QED BY <1>1, Inductive, PTL

\* Once the events are handled, an application has the status of the contract,
\* and went through the statuses it went through there, under that condition.
THEOREM StatusArrives ==
    ASSUME ~Overlap
    PROVE  Spec => []StatusFollowsContract
<1>1. ASSUME IInv PROVE StatusFollowsContract
  <2>. SUFFICES ASSUME NEW c \in Chains, Settled(c), NEW a \in Applications, a \notin damaged[c]
                PROVE  apps[c][a].status = status[c][a] /\ apps[c][a].snapshots = history[c][a]
    BY DEF StatusFollowsContract
  <2>1. Feed(c) = <<>> /\ ~Busy(c) /\ Len(Feed(c)) = 0
    BY <1>1 DEF IInv, TypeOK, Settled, Idles, Feed, Busy, Hand
  <2>2. apps[c][a].snapshots = history[c][a]
    BY <1>1, <2>1 DEF IInv, ChainInv, StatusBehind, Behind
  <2>3. apps[c][a].status = Current(apps[c][a].snapshots)
    BY <1>1 DEF IInv, TypeOK, Rows
  <2>. QED BY <1>1, <2>2, <2>3 DEF IInv, ChainInv, StatusIsLast
<1>. QED BY <1>1, Inductive, PTL
-----------------------------------------------------------------------------
(* The statistics.  The id of a donation is made of block and log index    *)
(* only, and all chains share a table: no two chains may use the same.     *)

Apart == \A c, d \in Chains : c # d => Positions[c] \cap Positions[d] = {}

\* Nothing about a chain's donations changes with those of another.
LEMMA SameCounts ==
    ASSUME NEW d \in Chains, Ordered(d), Stats(d), Same(d), donations \subseteq donations',
           \A x \in donations' : x.chain = d => x \in donations
    PROVE  Ordered(d)' /\ Stats(d)'
<1>1. Feed(d)' = Feed(d) /\ Hand(d)' = Hand(d) /\ (Busy(d)' <=> Busy(d)) /\ Held(d)' = Held(d)
  BY DEF Same, Feed, Hand, Busy, Held
<1>2. \A A : Donated(d, A)' = Donated(d, A)
  BY DEF Donated
<1>3. Ordered(d)'
  BY <1>1 DEF Ordered, Same
<1>4. Donated(d, Applications)' = Donated(d, Applications)
      /\ \A a \in Applications : Donated(d, {a})' = Donated(d, {a})
  BY <1>2
<1>5. Stats(d)'
  BY <1>4 DEF Stats, Same, DonorsOf
<1>. QED BY <1>3, <1>5

\* An event comes behind the others and is later.
LEMMA EmissionOrder ==
    ASSUME TypeOK, NEW c \in Chains, Ordered(c), Stats(c), NEW e, Emission(c, e)
    PROVE  Ordered(c)' /\ Stats(c)'
<1>. DEFINE n == Len(Feed(c))
<1>1. /\ reader[c] \in Workers /\ feed[c] \in [Workers -> Seq(Events)]
      /\ Feed(c) \in Seq(Events) /\ e \in Events /\ e.at \in Nat /\ position[c] \in Nat
      /\ e.at \in Positions[c] /\ e.at > position[c] /\ position'[c] = e.at
  BY EventFacts DEF TypeOK, Feed, Emission
<1>2. /\ reader'[c] = reader[c] /\ hand'[c] = hand[c] /\ apps'[c] = apps[c]
      /\ round'[c] = round[c] /\ donations' = donations
      /\ feed'[c] = [feed[c] EXCEPT ![reader[c]] = Append(@, e)]
  BY DEF Emission
<1>3. /\ Feed(c)' = Append(Feed(c), e) /\ Hand(c)' = Hand(c) /\ (Busy(c)' <=> Busy(c))
      /\ Held(c)' = Held(c)
  BY <1>1, <1>2 DEF Feed, Hand, Busy, Held
<1>4. /\ n \in Nat /\ Len(Append(Feed(c), e)) = n + 1
      /\ \A i \in 1..n : Append(Feed(c), e)[i] = Feed(c)[i] /\ Feed(c)[i] \in Events
      /\ Append(Feed(c), e)[n + 1] = e
  BY <1>1
<1>5. \A i \in 1..n : Feed(c)[i].at \in Nat
  BY <1>4, EventFacts
<1>6. Busy(c) => Held(c).at \in Nat
  <2>1. Busy(c) => Held(c) \in Events
    BY <1>1, InHandFacts DEF Busy, Held, Hand
  <2>. QED BY <2>1, EventFacts
<1>7. \A d \in donations : d.id \in Nat
  BY DEF TypeOK
<1>. DEFINE f == Append(Feed(c), e)
<1>8. /\ \A i \in 1..n : /\ Feed(c)[i].at \in Positions[c] /\ Feed(c)[i].at <= position[c]
                         /\ Busy(c) => Held(c).at < Feed(c)[i].at
                         /\ \A j \in 1..n : i < j => Feed(c)[i].at < Feed(c)[j].at
      /\ Busy(c) => Held(c).at \in Positions[c] /\ Held(c).at <= position[c]
      /\ \A d \in donations : d.chain = c =>
            /\ d.id \in Positions[c] /\ d.id <= position[c]
            /\ Busy(c) => d.id < Held(c).at
            /\ \A i \in 1..n : d.id < Feed(c)[i].at
  BY DEF Ordered
<1>9. /\ \A i \in 1..n : f[i] = Feed(c)[i]
      /\ f[n + 1] = e /\ Len(f) = n + 1 /\ \A i \in 1..n + 1 : i = n + 1 \/ i \in 1..n
      /\ Feed(c)' = f
  BY <1>3, <1>4
<1>. HIDE DEF n, f
<1>10. ASSUME NEW i \in 1..n + 1
       PROVE  /\ f[i].at \in Positions[c] /\ f[i].at <= e.at
              /\ Busy(c) => Held(c).at < f[i].at
              /\ \A j \in 1..n + 1 : i < j => f[i].at < f[j].at
  <2>1. CASE i = n + 1
    <3>1. f[i] = e /\ \A j \in 1..n + 1 : ~(i < j)
      BY <1>4, <1>9, <2>1
    <3>2. Busy(c) => Held(c).at < e.at
      BY <1>1, <1>6, <1>8
    <3>. QED BY <1>1, <3>1, <3>2
  <2>2. CASE i \in 1..n
    <3>1. f[i] = Feed(c)[i] /\ Feed(c)[i].at \in Nat /\ Feed(c)[i].at < e.at
      BY <1>1, <1>5, <1>8, <1>9, <2>2
    <3>2. ASSUME NEW j \in 1..n + 1, i < j PROVE f[i].at < f[j].at
      BY <1>8, <1>9, <2>2, <3>1, <3>2
    <3>. QED BY <1>1, <1>8, <2>2, <3>1, <3>2
  <2>. QED BY <1>9, <2>1, <2>2
<1>11. Busy(c) => Held(c).at \in Positions[c] /\ Held(c).at <= e.at
  BY <1>1, <1>6, <1>8
<1>12. ASSUME NEW d \in donations, d.chain = c
       PROVE  /\ d.id \in Positions[c] /\ d.id <= e.at
              /\ Busy(c) => d.id < Held(c).at
              /\ \A i \in 1..n + 1 : d.id < f[i].at
  <2>1. /\ d.id \in Positions[c] /\ d.id <= position[c] /\ d.id \in Nat
        /\ Busy(c) => d.id < Held(c).at
        /\ \A i \in 1..n : d.id < Feed(c)[i].at
    BY <1>7, <1>8, <1>12
  <2>2. d.id < e.at
    BY <1>1, <2>1
  <2>. QED BY <1>1, <1>9, <2>1, <2>2
<1>13. Ordered(c)'
  BY <1>1, <1>2, <1>3, <1>9, <1>10, <1>11, <1>12 DEF Ordered
<1>14. Stats(c)'
  BY <1>2 DEF Stats, Donated, DonorsOf
<1>. QED BY <1>13, <1>14

\* The event taken is before those left.
LEMMA TakingOrder ==
    ASSUME TypeOK, NEW c \in Chains, OneReader(c), Ordered(c), Stats(c), NEW w \in Workers, Taking(c, w)
    PROVE  Ordered(c)' /\ Stats(c)'
<1>. DEFINE n == Len(Feed(c))
            e == Head(Feed(c))
<1>1. w = reader[c] /\ reader[c] \in Workers
  BY TakerIsReader DEF Taking
<1>2. /\ Feed(c) \in Seq(Events) /\ Feed(c) # <<>> /\ e \in Events /\ ~Busy(c)
      /\ feed[c] \in [Workers -> Seq(Events)] /\ DOMAIN hand[c] = Workers
  BY <1>1 DEF TypeOK, Feed, Busy, Hand, Taking
<1>3. /\ reader'[c] = reader[c] /\ apps'[c] = apps[c] /\ round'[c] = round[c]
      /\ position'[c] = position[c] /\ donations' = donations
      /\ feed'[c] = [feed[c] EXCEPT ![w] = Tail(@)]
      /\ IF Accepts(c, e)
         THEN hand'[c] = [hand[c] EXCEPT ![w] = <<[event |-> e, apps |-> apps[c]]>>]
         ELSE hand'[c] = hand[c]
  BY <1>1 DEF Taking, Feed
<1>4. Feed(c)' = Tail(Feed(c))
  BY <1>1, <1>2, <1>3 DEF Feed
<1>5. Busy(c)' => Held(c)' = e
  BY <1>1, <1>2, <1>3 DEF Hand, Busy, Held, Idle
<1>6. /\ n \in Nat \ {0} /\ Len(Tail(Feed(c))) = n - 1 /\ e = Feed(c)[1]
      /\ \A i \in 1..n - 1 : Tail(Feed(c))[i] = Feed(c)[i + 1]
  BY <1>2
<1>7. /\ \A i \in 1..n : /\ Feed(c)[i].at \in Positions[c] /\ Feed(c)[i].at <= position[c]
                         /\ \A j \in 1..n : i < j => Feed(c)[i].at < Feed(c)[j].at
      /\ \A d \in donations : d.chain = c =>
            /\ d.id \in Positions[c] /\ d.id <= position[c]
            /\ \A i \in 1..n : d.id < Feed(c)[i].at
  BY DEF Ordered
<1>. HIDE DEF n, e
<1>8. 1 \in 1..n /\ \A i \in 1..n - 1 : i + 1 \in 1..n /\ 1 < i + 1
  BY <1>6
<1>9. \A i, j \in 1..n - 1 : i < j => i + 1 < j + 1
  BY <1>6
<1>10. Ordered(c)'
  BY <1>3, <1>4, <1>5, <1>6, <1>7, <1>8, <1>9 DEF Ordered
<1>11. Stats(c)'
  BY <1>3 DEF Stats, Donated, DonorsOf
<1>. QED BY <1>10, <1>11

\* A donation is stored once and counted with all the others of its round and
\* of its application; nothing else changes a count.
LEMMA LayingCounts ==
    ASSUME Apart, TypeOK, NEW c \in Chains, \A d \in Chains : Ordered(d), Stats(c),
           Laying(c, reader[c]), NEW e \in Events, e = Held(c), Effect(c, e), TypeOK'
    PROVE  /\ Ordered(c)' /\ Stats(c)' /\ donations \subseteq donations'
           /\ \A x \in donations' : x \in donations \/ x.chain = c
<1>1. /\ Busy(c) /\ reader[c] \in Workers /\ DOMAIN hand[c] = Workers
      /\ reader'[c] = reader[c] /\ feed'[c] = feed[c] /\ position'[c] = position[c]
      /\ hand'[c] = [hand[c] EXCEPT ![reader[c]] = Idle]
  BY DEF Laying, Busy, Hand, TypeOK
<1>2. Feed(c)' = Feed(c) /\ ~Busy(c)'
  BY <1>1 DEF Feed, Busy, Hand
<1>3. /\ e.at \in Nat
      /\ e.type # "reviewed" => e.app \in Applications /\ About(e) = {e.app}
      /\ \A a \in About(e) : e.type \in {"registered", "updated", "reviewed"} => Given(e, a) \in Statuses
  BY EventFacts
<1>4. apps[c] \in [Applications -> Rows] /\ round[c] \in [count : Nat, donors : Nat, distributed : Nat]
  BY DEF TypeOK
<1>5. Ordered(c)
  OBVIOUS
<1>6. CASE DonationEffect(c, e)
  <2>. DEFINE x == [id |-> e.at, chain |-> c, app |-> e.app, donor |-> e.donor]
  <2>1. e.at \in Positions[c] /\ e.at <= position[c] /\ \A i \in 1..Len(Feed(c)) : e.at < Feed(c)[i].at
    BY <1>1, <1>5 DEF Ordered
  <2>2. ASSUME NEW d \in donations PROVE d.id # e.at
    <3>1. d.chain \in Chains /\ d.id \in Nat
      BY DEF TypeOK
    <3>2. CASE d.chain = c
      <4>1. d.id < e.at
        BY <1>1, <1>5, <3>2 DEF Ordered
      <4>. QED BY <1>3, <3>1, <4>1
    <3>3. CASE d.chain # c
      <4>1. PICK b \in Chains : b = d.chain
        BY <3>1
      <4>2. d.id \in Positions[b]
        BY <4>1 DEF Ordered
      <4>. QED BY <2>1, <3>3, <4>1, <4>2 DEF Apart
    <3>. QED BY <3>2, <3>3
  <2>3. donations' = donations \cup {x} /\ x \notin donations
    BY <1>6, <2>2 DEF DonationEffect, InsertDonation
  <2>4. x.id = e.at /\ x.chain = c /\ x.app = e.app
    OBVIOUS
  <2>. HIDE DEF x
  <2>5. /\ round'[c] = WithDonation(round[c], DonationsTo(c, Applications))
        /\ apps'[c] = [apps[c] EXCEPT ![e.app] = WithDonation(@, DonationsTo(c, {e.app}))]
        /\ e.app \in Applications
    BY <1>3, <1>6 DEF DonationEffect
  <2>6. \A A : DonationsTo(c, A) = Donated(c, A)'
    BY DEF DonationsTo, Donated
  <2>7. ASSUME NEW A PROVE IsFiniteSet(Donated(c, A)) /\ x \notin Donated(c, A)
    <3>1. IsFiniteSet(donations) /\ Donated(c, A) \subseteq donations
      BY DEF TypeOK, Donated
    <3>. QED BY <2>3, <3>1, FS_Subset
  <2>8. ASSUME NEW A, e.app \in A PROVE Cardinality(Donated(c, A)') = Cardinality(Donated(c, A)) + 1
    <3>1. Donated(c, A)' = Donated(c, A) \cup {x}
      BY <2>3, <2>4, <2>8 DEF Donated
    <3>. QED BY <2>7, <3>1, FS_AddElement
  <2>9. ASSUME NEW A, e.app \notin A PROVE Donated(c, A)' = Donated(c, A)
    BY <2>3, <2>4, <2>9 DEF Donated
  <2>10. \A s : /\ \A D : WithDonation(s, D) = [s EXCEPT !.count = @ + 1, !.donors = Cardinality(DonorsOf(D))]
    BY DEF WithDonation
  <2>11. /\ round'[c].count = Cardinality(Donated(c, Applications)')
         /\ round'[c].donors = Cardinality(DonorsOf(Donated(c, Applications)'))
    <3>1. PICK s \in [count : Nat, donors : Nat, distributed : Nat] : s = round[c]
      BY <1>4
    <3>2. DonationsTo(c, Applications) = Donated(c, Applications)'
      BY <2>6
    <3>3. /\ round'[c].count = s.count + 1
          /\ round'[c].donors = Cardinality(DonorsOf(Donated(c, Applications)'))
      BY <2>5, <3>1, <3>2 DEF WithDonation
    <3>. QED BY <2>5, <2>8, <3>1, <3>3 DEF Stats
  <2>12. ASSUME NEW a \in Applications
         PROVE  /\ apps'[c][a].count = Cardinality(Donated(c, {a})')
                /\ apps'[c][a].donors = Cardinality(DonorsOf(Donated(c, {a})'))
    <3>1. CASE a = e.app
      <4>1. PICK row \in Rows : row = apps[c][a]
        BY <1>4
      <4>2. DonationsTo(c, {e.app}) = Donated(c, {a})'
        BY <2>6, <3>1
      <4>3. apps'[c][a] = WithDonation(row, Donated(c, {a})')
        BY <1>4, <2>5, <3>1, <4>1, <4>2
      <4>4. /\ apps'[c][a].count = row.count + 1
            /\ apps'[c][a].donors = Cardinality(DonorsOf(Donated(c, {a})'))
        BY <4>3 DEF WithDonation, Rows
      <4>. QED BY <2>8, <3>1, <4>1, <4>4 DEF Stats
    <3>2. CASE a # e.app
      <4>1. apps'[c][a] = apps[c][a] /\ Donated(c, {a})' = Donated(c, {a})
        BY <1>4, <2>5, <2>9, <3>2
      <4>. QED BY <4>1 DEF Stats
    <3>. QED BY <3>1, <3>2
  <2>13. Stats(c)'
    BY <2>11, <2>12 DEF Stats, DonorsOf
  <2>14. Ordered(c)'
    BY <1>1, <1>2, <1>5, <2>1, <2>3, <2>4 DEF Ordered
  <2>. QED BY <2>3, <2>4, <2>13, <2>14
<1>7. CASE ~DonationEffect(c, e)
  <2>1. donations' = donations
    BY <1>7 DEF Effect, StatusEffect, ShareEffect, LossEffect
  <2>2. round'[c].count = round[c].count /\ round'[c].donors = round[c].donors
    BY <1>4, <1>7 DEF Effect, StatusEffect, ShareEffect, LossEffect
  <2>3. ASSUME NEW a \in Applications
        PROVE  apps'[c][a].count = apps[c][a].count /\ apps'[c][a].donors = apps[c][a].donors
    <3>1. PICK row \in Rows : row = apps[c][a]
      BY <1>4
    <3>2. CASE StatusEffect(c, e)
      BY <1>3, <3>1, <3>2, RowFacts DEF StatusEffect
    <3>3. CASE ShareEffect(c, e)
      <4>1. apps'[c][a] = row \/ apps'[c][a] = [row EXCEPT !.distribution = TRUE]
        BY <1>3, <1>4, <3>1, <3>3 DEF ShareEffect
      <4>. QED BY <3>1, <4>1 DEF Rows
    <3>4. CASE LossEffect(c, e)
      BY <3>4 DEF LossEffect
    <3>. QED BY <1>7, <3>2, <3>3, <3>4 DEF Effect
  <2>4. Ordered(c)'
    BY <1>1, <1>2, <1>5, <2>1 DEF Ordered
  <2>5. Stats(c)'
    BY <2>1, <2>2, <2>3 DEF Stats, Donated, DonorsOf
  <2>. QED BY <2>1, <2>4, <2>5
<1>. QED BY <1>6, <1>7

\* and so do the order of events and the statistics, if no two chains share positions.
LEMMA InductiveCounts ==
    ASSUME ~Overlap, Apart
    PROVE  Spec => [](IInv /\ DInv)
<1>1. Init => DInv
  <2>. SUFFICES ASSUME Init, NEW c \in Chains PROVE Ordered(c) /\ Stats(c)
    BY DEF DInv
  <2>1. /\ Feed(c) = <<>> /\ ~Busy(c) /\ donations = {} /\ round[c].count = 0 /\ round[c].donors = 0
        /\ \A a \in Applications : apps[c][a].count = 0 /\ apps[c][a].donors = 0
    BY RowFacts DEF Init, Feed, Busy, Hand, Workers
  <2>2. Ordered(c)
    BY <2>1 DEF Ordered
  <2>3. \A A : Donated(c, A) = {} /\ DonorsOf(Donated(c, A)) = {}
    BY <2>1 DEF Donated, DonorsOf
  <2>. QED BY <2>1, <2>2, <2>3, FS_EmptySet DEF Stats
<1>2. ASSUME IInv, DInv, NEW c \in Chains, StepOf(c)
      PROVE  DInv'
  <2>1. TypeOK /\ OneReader(c) /\ Others(c) /\ \A d \in Chains : Ordered(d) /\ Stats(d)
    BY <1>2, NextOK DEF IInv, ChainInv, DInv
  <2>2. /\ Ordered(c)' /\ Stats(c)' /\ donations \subseteq donations'
        /\ \A x \in donations' : x \in donations \/ x.chain = c
    <3>1. CASE \E e : Emission(c, e)
      <4>1. donations' = donations
        BY <3>1 DEF Emission
      <4>. QED BY <2>1, <3>1, <4>1, EmissionOrder
    <3>2. CASE NewBuild(c)
      <4>1. /\ reader[c] = "retro" /\ Idles(c, "retro") /\ reader' = [reader EXCEPT ![c] = "live"]
            /\ UNCHANGED <<position, feed, hand, apps, donations, round>>
        BY <3>2 DEF NewBuild, dbVars
      <4>2. Idles(c, "live") /\ reader'[c] = "live"
        BY <2>1, <4>1 DEF OneReader, Workers, TypeOK
      <4>3. Feed(c)' = <<>> /\ ~Busy(c)' /\ Feed(c) = <<>> /\ ~Busy(c)
        BY <4>1, <4>2 DEF Idles, Feed, Busy, Hand
      <4>4. Ordered(c)'
        BY <2>1, <4>1, <4>3 DEF Ordered
      <4>5. Stats(c)'
        BY <2>1, <4>1 DEF Stats, Donated, DonorsOf
      <4>. QED BY <4>1, <4>4, <4>5
    <3>3. CASE \E w \in Workers : Taking(c, w)
      <4>1. donations' = donations
        BY <3>3 DEF Taking
      <4>. QED BY <2>1, <3>3, <4>1, TakingOrder
    <3>4. CASE Laying(c, reader[c]) /\ Effect(c, Held(c)) /\ Held(c) \in Events /\ TypeOK'
      BY <2>1, <3>4, LayingCounts
    <3>. QED BY <1>2, <3>1, <3>2, <3>3, <3>4 DEF StepOf
  <2>3. ASSUME NEW d \in Chains, d # c PROVE Ordered(d)' /\ Stats(d)'
    BY <2>1, <2>2, <2>3, SameCounts DEF Others
  <2>. QED BY <2>2, <2>3 DEF DInv
<1>3. ASSUME IInv, DInv, UNCHANGED vars
      PROVE  DInv'
  <2>1. donations' = donations /\ \A d \in Chains : Same(d)
    BY <1>3, StutterOK DEF vars, dbVars
  <2>. QED BY <1>3, <2>1, SameCounts DEF DInv
<1>4. IInv /\ DInv /\ [Next]_vars => IInv' /\ DInv'
  <2>1. ASSUME IInv, DInv, Next PROVE IInv' /\ DInv'
    BY <1>2, <2>1, Steps, NextOK
  <2>. QED BY <1>3, <2>1, StutterOK
<1>. QED BY <1>1, <1>4, InitOK, PTL DEF Spec

\* The statistics of a round and of its applications are those of the donations
\* table, if the live loop starts only after the process and no two chains use
\* the same position.
THEOREM StatisticsKept ==
    ASSUME ~Overlap, Apart
    PROVE  Spec => []StatsMatchDonations
<1>1. DInv => StatsMatchDonations
  BY DEF DInv, Stats, StatsMatchDonations
<1>. QED BY <1>1, InductiveCounts, PTL
=============================================================================
