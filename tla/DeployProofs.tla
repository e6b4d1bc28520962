----------------------------- MODULE DeployProofs -----------------------------
(***************************************************************************)
(* Theorems of Deploy, for every runbook, number of events, size of the    *)
(* batches and bound on slips.                                             *)
(*                                                                         *)
(* The invariant adds, to the properties, where each actor stands: the     *)
(* event a service has in hand follows the pointer it was read from        *)
(* (InHand), and what the copy has fetched and inserted so far is what     *)
(* was counted (CopyStands).  The services write to the tables that are    *)
(* copied; what a write keeps is said once, in WrittenKeeps.               *)
(***************************************************************************)
EXTENDS Deploy, Integers, FiniteSetTheorems, SequenceTheorems, NaturalsInduction, TLAPS

\* The tables of the cache, and what their rows look like: whatever is looked up
\* is the same for everyone, but for the timings.
CacheNames == {"price_cache", "metadata_cache", "strategy_timings"}
DocRows    == (1..N) \X {"doc"}
TimesRows  == (1..N) \X {"contract", "null"}
RowsIn(t)  == IF t = "strategy_timings" THEN TimesRows ELSE DocRows
Row        == DocRows \cup TimesRows

Times    == {"none", "unhandled", "contract", "null"}
Ledgers  == [pointer : Nat, handled : SUBSET Nat, failed : SUBSET Nat, lost : SUBSET Nat,
             times : Times]
Holding  == {"fetched", "batch", "commit"}
Services == [at : {"off", "idle", "dead"} \cup Holding, event : 0..N, times : Times]
Copying  == {"truncate", "count", "fetch", "insert", "done"}
Scripts  == [at : {"idle", "timings"} \cup Copying, color : Colors, table : 1..4,
             total : Nat, offset : Nat, buffer : Seq(Row), start : [1..3 -> SUBSET Row],
             touched : BOOLEAN, knows : BOOLEAN, missing : BOOLEAN]

VarTypes ==
    /\ migrated \in [Colors -> SUBSET Folders]
    /\ ledger \in [Colors -> Ledgers]
    /\ rows \in [Colors -> [CacheNames -> Seq(Row)]]
    /\ proc \in [Colors -> Services]
    /\ script \in Scripts
    /\ api = [c \in Colors |-> api[c]]
    /\ next \in Nat \ {0}
    /\ late \in [Colors -> BOOLEAN] /\ blind \in BOOLEAN

\* A row of a table is one that belongs there.
RowsFit == \A c \in Colors : \A t \in CacheNames : rows[c][t] \in Seq(RowsIn(t))

\* A service holds an event where it works on one.  The pointer is right behind it,
\* but for a service that was in a later event while its tables were created, and on
\* it once a transaction is open; tables that do not exist hold nothing.
InHand ==
    \A c \in Colors :
        /\ proc[c].at \in Holding <=> proc[c].event # 0
        /\ ~HasProcessing(c) => ledger[c] = NoLedger
        /\ HasProcessing(c) /\ ~late[c] /\ proc[c].at \in {"fetched", "batch"}
             => proc[c].event = ledger[c].pointer + 1
        /\ proc[c].at = "commit" => HasProcessing(c) /\ proc[c].event = ledger[c].pointer
        /\ proc[c].times = "null" => blind

\* A null among the timings, stored or on its way, is from a bootstrap.
NullBlind(table) == \A j \in 1..Len(table) : table[j][2] = "null" => blind
NullsBlind ==
    /\ \A c \in Colors : NullBlind(rows[c]["strategy_timings"])
    /\ NullBlind(script.buffer)

\* Where the copy of a table stands: while nothing moves in the source, the rows
\* that were counted are its first ones, and those before the offset are in the
\* target or on their way.
Arrived(j) == \/ \E i \in 1..Len(rows[Target][Table]) : rows[Target][Table][i] = Source[j]
              \/ \E i \in 1..Len(script.buffer) : script.buffer[i] = Source[j]
CopyStands ==
    /\ script.at \in Copying \ {"done"} => script.table \in 1..3
    /\ \A i \in 1..3 : \/ i < script.table
                       \/ i = script.table /\ script.at \in {"fetch", "insert"}
                       \/ script.start[i] = {}
    /\ script.at \in {"fetch", "insert"} => script.buffer \in Seq(RowsIn(Table))
    /\ script.at # "insert" => script.buffer = <<>>
    /\ script.at \in {"fetch", "insert"} /\ ~script.touched =>
         /\ script.total <= Len(Source)
         /\ \A r \in script.start[script.table] :
              \E j \in 1..Len(Source) : j <= script.total /\ Source[j] = r
         /\ \A j \in 1..Len(Source) :
              j <= script.total /\ j <= script.offset => Arrived(j)

\* A configuration of a whole database that was not cut off went as far as
\* Hasura accepts.
ApiStands ==
    \A c \in Colors :
        api[c].over = Folders /\ ~api[c].cut => api[c].done = AcceptedOver[Folders]

IInv == /\ VarTypes /\ RowsFit /\ InHand /\ NullsBlind /\ CopyStands /\ ApiStands
        /\ AppliedFromStart /\ CopyFollowsSource /\ TimesFromContract
-----------------------------------------------------------------------------
(* Lemmas about tables. *)

\* A set of numbers that is not empty has a least one.
LEMMA LeastElement ==
    ASSUME NEW S \in SUBSET Nat, S # {}
    PROVE  \E m \in S : \A n \in S : m <= n
<1>. DEFINE R == OpToRel(<, Nat)
<1>1. IsWellFoundedOn(R, Nat)
  BY NatLessThanWellFounded
<1>2. \A x, y \in Nat : <<x, y>> \in R <=> x < y
  BY DEF OpToRel
<1>. HIDE DEF R
<1>3. PICK m \in S : \A n \in S : ~(<<n, m>> \in R)
  BY <1>1, WFMin
<1>4. ASSUME NEW n \in S PROVE m <= n
  <2>1. m \in Nat /\ n \in Nat
    OBVIOUS
  <2>2. ~(n < m)
    BY <1>2, <1>3, <2>1, Zenon
  <2>. QED BY <2>1, <2>2
<1>. QED BY <1>4

\* A function on the first numbers is a sequence.
ListOf(S, n, f) == f \in Seq(S) /\ Len(f) = n

LEMMA FunctionIsSeq ==
    ASSUME NEW S, NEW n \in Nat, NEW f \in [1..n -> S]
    PROVE  ListOf(S, n, f)
BY DEF ListOf

\* What Without has kept after each row.
Keeps(table, keys, n, f) ==
    f = [i \in 0..n |-> IF i = 0 THEN <<>>
                        ELSE IF table[i][1] \in keys THEN f[i - 1] ELSE Append(f[i - 1], table[i])]

\* It exists for every number of rows.
LEMMA KeepsExists ==
    ASSUME NEW table, NEW keys, NEW n \in Nat
    PROVE  \E f : Keeps(table, keys, n, f)
<1> DEFINE Bad == {k \in Nat : ~\E f : Keeps(table, keys, k, f)}
           More(s, i) == IF table[i][1] \in keys THEN s ELSE Append(s, table[i])
<1> SUFFICES ASSUME Bad # {} PROVE FALSE
  OBVIOUS
<1>1. PICK k \in Bad : \A j \in Bad : k <= j
  BY LeastElement
<1>2. CASE k = 0
  <2>1. Keeps(table, keys, 0, [i \in 0..0 |-> <<>>])
    BY DEF Keeps
  <2>. QED BY <1>2, <2>1
<1>3. CASE k # 0
  <2>1. k - 1 \in Nat /\ k - 1 \notin Bad
    BY <1>1, <1>3
  <2>2. PICK f : Keeps(table, keys, k - 1, f)
    BY <2>1
  <2> DEFINE g == [i \in 0..k |-> IF i < k THEN f[i] ELSE More(f[k - 1], k)]
  <2> HIDE DEF More
  <2>3. ASSUME NEW i \in 0..k
        PROVE  g[i] = IF i = 0 THEN <<>> ELSE More(g[i - 1], i)
    <3>1. CASE i = k
      BY <1>3, <2>1, <3>1
    <3>2. CASE i # k
      <4>1. i \in 0..(k - 1) /\ i < k
        BY <1>3, <2>1, <3>2
      <4>2. f[i] = IF i = 0 THEN <<>> ELSE More(f[i - 1], i)
        BY <2>2, <4>1 DEF Keeps, More
      <4>3. i # 0 => i - 1 \in 0..k /\ i - 1 < k
        BY <4>1
      <4>. QED BY <4>1, <4>2, <4>3
    <3>. QED BY <3>1, <3>2
  <2>4. g = [i \in 0..k |-> g[i]]
    OBVIOUS
  <2> HIDE DEF g
  <2>5. Keeps(table, keys, k, g)
    BY <2>3, <2>4 DEF Keeps, More
  <2>. QED BY <1>1, <2>5
<1>. QED BY <1>2, <1>3

\* Without keeps the rows of other keys, and the whole table if there is no
\* other row in it.
LEMMA WithoutKeeps ==
    ASSUME NEW S, NEW table \in Seq(S), NEW keys
    PROVE  /\ Without(table, keys) \in Seq(S)
           /\ \A j \in 1..Len(table) : table[j][1] \notin keys =>
                 \E i \in 1..Len(Without(table, keys)) : Without(table, keys)[i] = table[j]
           /\ (\A j \in 1..Len(table) : table[j][1] \notin keys) => Without(table, keys) = table
           /\ \A i \in 1..Len(Without(table, keys)) :
                 \E j \in 1..Len(table) : Without(table, keys)[i] = table[j]
<1> DEFINE n == Len(table)
           f == CHOOSE f : Keeps(table, keys, n, f)
<1>1. n \in Nat /\ \A i \in 1..n : table[i] \in S
  OBVIOUS
<1>2. Keeps(table, keys, n, f)
  BY <1>1, KeepsExists
<1>3. Without(table, keys) = f[n]
  BY DEF Without, Keeps
<1> HIDE DEF f, n
<1> DEFINE More(s, i) == IF table[i][1] \in keys THEN s ELSE Append(s, table[i])
<1>4. f[0] = <<>> /\ \A i \in 1..n : f[i] = More(f[i - 1], i)
  <2>1. f = [i \in 0..n |-> IF i = 0 THEN <<>> ELSE More(f[i - 1], i)]
    BY <1>2 DEF Keeps
  <2> HIDE DEF More
  <2>. QED BY <1>1, <2>1
<1> DEFINE Good(k) ==
      /\ f[k] \in Seq(S)
      /\ \A j \in 1..k : table[j][1] \notin keys => \E i \in 1..Len(f[k]) : f[k][i] = table[j]
      /\ (\A j \in 1..k : table[j][1] \notin keys) =>
            Len(f[k]) = k /\ \A j \in 1..k : f[k][j] = table[j]
      /\ \A i \in 1..Len(f[k]) : \E j \in 1..k : f[k][i] = table[j]
<1>5. \A k \in 0..n : Good(k)
  <2> DEFINE Bad == {k \in Nat : k <= n /\ ~Good(k)}
  <2> SUFFICES ASSUME Bad # {} PROVE FALSE
    BY <1>1
  <2>1. PICK k \in Bad : \A j \in Bad : k <= j
    BY LeastElement
  <2>2. Good(0)
    BY <1>4
  <2>3. k # 0 /\ k \in 1..n /\ k - 1 \in Nat /\ k - 1 \notin Bad
    BY <1>1, <2>1, <2>2, SMTT(60)
  <2>4. Good(k - 1)
    BY <1>1, <2>3
  <2>5. table[k] \in S
    BY <1>1, <2>3
  <2>6. CASE table[k][1] \in keys
    <3>1. f[k] = f[k - 1]
      BY <1>4, <2>3, <2>6
    <3>2. Good(k)
      BY <2>3, <2>4, <2>6, <3>1
    <3>. QED BY <2>1, <3>2
  <2>7. CASE table[k][1] \notin keys
    <3> DEFINE s == f[k - 1]
    <3>1. f[k] = Append(s, table[k])
      BY <1>4, <2>3, <2>7
    <3>2. s \in Seq(S) /\ Len(s) \in Nat
      BY <2>4
    <3> HIDE DEF s
    <3>3. /\ f[k] \in Seq(S) /\ Len(f[k]) = Len(s) + 1
          /\ f[k][Len(s) + 1] = table[k] /\ \A i \in 1..Len(s) : f[k][i] = s[i]
      BY <2>5, <3>1, <3>2
    <3>4. ASSUME NEW j \in 1..k, table[j][1] \notin keys
          PROVE  \E i \in 1..Len(f[k]) : f[k][i] = table[j]
      <4>1. CASE j = k
        BY <3>2, <3>3, <4>1
      <4>2. CASE j # k
        <5>1. j \in 1..(k - 1)
          BY <2>3, <4>2
        <5>2. PICK i \in 1..Len(s) : s[i] = table[j]
          BY <2>4, <3>4, <5>1 DEF s
        <5>. QED BY <3>2, <3>3, <5>2
      <4>. QED BY <4>1, <4>2
    <3>5. ASSUME \A j \in 1..k : table[j][1] \notin keys
          PROVE  Len(f[k]) = k /\ \A j \in 1..k : f[k][j] = table[j]
      <4>1. Len(s) = k - 1 /\ \A j \in 1..(k - 1) : s[j] = table[j]
        BY <2>3, <2>4, <3>5 DEF s
      <4>2. ASSUME NEW j \in 1..k PROVE f[k][j] = table[j]
        <5>1. j = k \/ j \in 1..(k - 1)
          BY <2>3
        <5>. QED BY <2>3, <3>3, <4>1, <5>1
      <4>. QED BY <2>3, <3>3, <4>1, <4>2
    <3>6. ASSUME NEW i \in 1..Len(f[k]) PROVE \E j \in 1..k : f[k][i] = table[j]
      <4>1. CASE i = Len(s) + 1
        BY <2>3, <3>3, <4>1
      <4>2. CASE i # Len(s) + 1
        <5>1. i \in 1..Len(s)
          BY <3>2, <3>3, <4>2
        <5>2. PICK j \in 1..(k - 1) : s[i] = table[j]
          BY <2>4, <5>1 DEF s
        <5>. QED BY <2>3, <3>3, <5>1, <5>2
      <4>. QED BY <4>1, <4>2
    <3>7. Good(k)
      BY <3>3, <3>4, <3>5, <3>6
    <3>. QED BY <2>1, <3>7
  <2>. QED BY <2>6, <2>7
<1>6. Good(n)
  BY <1>1, <1>5
<1>7. ASSUME \A j \in 1..n : table[j][1] \notin keys PROVE f[n] = table
  <2>1. Len(f[n]) = n /\ \A j \in 1..n : f[n][j] = table[j]
    BY <1>6, <1>7
  <2>2. f[n] \in Seq(S)
    BY <1>6
  <2>. QED BY <2>1, <2>2, SeqEqual DEF n
<1>. QED BY <1>3, <1>6, <1>7 DEF n

\* A row in front of the others.
IsFirst(r, table, after) ==
    /\ Len(after) = Len(table) + 1 /\ after[1] = r
    /\ \A j \in 1..Len(table) : after[j + 1] = table[j]

\* Without its key the others are there, in their order.
LEMMA WithoutFirst ==
    ASSUME NEW S, NEW table \in Seq(S), NEW r, NEW after, IsFirst(r, table, after),
           \A j \in 1..Len(table) : table[j][1] # r[1]
    PROVE  Without(after, {r[1]}) = table
<1> DEFINE n == Len(table) + 1
           f == CHOOSE f : Keeps(after, {r[1]}, n, f)
<1>1. n \in Nat /\ Len(after) = n /\ Len(table) \in Nat
  BY DEF IsFirst
<1>2. Keeps(after, {r[1]}, n, f)
  BY <1>1, KeepsExists
<1>3. Without(after, {r[1]}) = f[n]
  BY <1>1 DEF Without, Keeps
<1> HIDE DEF f
<1> DEFINE More(s, i) == IF after[i][1] \in {r[1]} THEN s ELSE Append(s, after[i])
<1>4. f[0] = <<>> /\ \A i \in 1..n : f[i] = More(f[i - 1], i)
  <2>1. f = [i \in 0..n |-> IF i = 0 THEN <<>> ELSE More(f[i - 1], i)]
    BY <1>2 DEF Keeps
  <2> HIDE DEF More, n
  <2>. QED BY <1>1, <2>1
<1> HIDE DEF n
<1>5. f[1] = <<>>
  <2>1. 1 \in 1..n /\ 1 - 1 = 0
    BY <1>1 DEF n
  <2>2. after[1][1] \in {r[1]}
    BY DEF IsFirst
  <2>. QED BY <1>4, <2>1, <2>2
<1>6. ASSUME NEW i \in 1..Len(table) PROVE f[i + 1] = Append(f[i], table[i])
  <2>1. i + 1 \in 1..n /\ i + 1 - 1 = i
    BY <1>1 DEF n
  <2>2. after[i + 1] = table[i] /\ table[i][1] \notin {r[1]}
    BY DEF IsFirst
  <2>3. f[i + 1] = More(f[i], i + 1)
    <3> HIDE DEF More
    <3>. QED BY <1>4, <2>1
  <2>. QED BY <2>2, <2>3
<1> HIDE DEF More
<1> DEFINE m == Len(table)
           g == [k \in 0..m |-> f[k + 1]]
<1>7. m \in Nat /\ g[m] = f[n] /\ g[0] = <<>>
  <2>1. m \in 0..m /\ 0 \in 0..m /\ 0 + 1 = 1 /\ m + 1 = n
    BY <1>1 DEF n
  <2>2. g[m] = f[m + 1] /\ g[0] = f[0 + 1]
    BY <2>1
  <2>. QED BY <1>1, <1>5, <2>1, <2>2
<1>8. ASSUME NEW i \in 1..m PROVE g[i] = Append(g[i - 1], table[i])
  <2>1. i \in 0..m /\ i - 1 \in 0..m /\ i - 1 + 1 = i
    BY <1>1
  <2>2. g[i] = f[i + 1] /\ g[i - 1] = f[i - 1 + 1]
    BY <2>1
  <2>. QED BY <1>6, <2>1, <2>2
<1> HIDE DEF g
<1> DEFINE Good(k) == g[k] \in Seq(S) /\ Len(g[k]) = k /\ \A j \in 1..k : g[k][j] = table[j]
           Bad == {k \in Nat : k <= m /\ ~Good(k)}
<1>9. Bad = {}
  <2> SUFFICES ASSUME Bad # {} PROVE FALSE
    OBVIOUS
  <2>1. PICK k \in Bad : \A j \in Bad : k <= j
    BY LeastElement
  <2>2. Good(0)
    BY <1>7
  <2>3. k # 0 /\ k \in 1..m /\ k - 1 \in Nat /\ k - 1 \notin Bad
    BY <1>1, <2>1, <2>2, SMTT(60)
  <2>4. Good(k - 1)
    BY <1>1, <2>3
  <2> DEFINE s == g[k - 1]
  <2>5. s \in Seq(S) /\ Len(s) = k - 1 /\ \A j \in 1..(k - 1) : s[j] = table[j]
    BY <2>4
  <2>6. g[k] = Append(s, table[k]) /\ table[k] \in S
    BY <1>8, <2>3
  <2> HIDE DEF s
  <2>7. /\ g[k] \in Seq(S) /\ Len(g[k]) = k
        /\ g[k][k] = table[k] /\ \A j \in 1..(k - 1) : g[k][j] = s[j]
    BY <2>3, <2>5, <2>6
  <2>8. ASSUME NEW j \in 1..k PROVE g[k][j] = table[j]
    <3>1. j = k \/ j \in 1..(k - 1)
      BY <2>3
    <3>. QED BY <2>5, <2>7, <3>1
  <2>. QED BY <2>1, <2>7, <2>8
<1>10. Good(m)
  BY <1>1, <1>9
<1>11. g[m] = table
  <2>1. g[m] \in Seq(S) /\ Len(g[m]) = Len(table) /\ \A j \in 1..Len(table) : g[m][j] = table[j]
    BY <1>10
  <2>. QED BY <2>1, SeqEqual
<1>. QED BY <1>3, <1>7, <1>11

\* Two sequences put together.
IsJoined(S, a, b, both) ==
    /\ both \in Seq(S) /\ Len(both) = Len(a) + Len(b)
    /\ Len(a) \in Nat /\ Len(b) \in Nat
    /\ \A i \in 1..Len(a) : both[i] = a[i]
    /\ \A i \in 1..Len(b) : both[Len(a) + i] = b[i]

\* It is what \o does.
LEMMA Joined ==
    ASSUME NEW S, NEW a \in Seq(S), NEW b \in Seq(S)
    PROVE  IsJoined(S, a, b, a \o b)
<1> DEFINE both == a \o b
<1>1. Len(a) \in Nat /\ Len(b) \in Nat
  OBVIOUS
<1>2. /\ both \in Seq(S) /\ Len(both) = Len(a) + Len(b)
      /\ \A i \in 1..(Len(a) + Len(b)) : both[i] = IF i <= Len(a) THEN a[i] ELSE b[i - Len(a)]
  BY ConcatProperties, Zenon
<1> HIDE DEF both
<1>3. \A i \in 1..Len(a) : both[i] = a[i]
  BY <1>1, <1>2
<1>4. ASSUME NEW i \in 1..Len(b) PROVE both[Len(a) + i] = b[i]
  <2>1. /\ Len(a) + i \in 1..(Len(a) + Len(b)) /\ ~(Len(a) + i <= Len(a))
        /\ Len(a) + i - Len(a) = i
    BY <1>1
  <2>. QED BY <1>2, <2>1
<1>. QED BY <1>1, <1>2, <1>3, <1>4 DEF both, IsJoined

\* The steps of n pairs taken in turn.
AreInTurn(S, n, pairs, all) ==
    /\ all \in Seq(S) /\ Len(all) = 2 * n
    /\ \A i \in 1..n : all[2 * i - 1] = pairs[i][1] /\ all[2 * i] = pairs[i][2]

\* It is what InTurn does.
LEMMA PairsInTurn ==
    ASSUME NEW S, NEW n \in Nat, NEW pairs, DOMAIN pairs = 1..n, Len(pairs) = n,
           \A i \in 1..n : pairs[i][1] \in S /\ pairs[i][2] \in S
    PROVE  AreInTurn(S, n, pairs, InTurn(pairs))
<1> DEFINE f == InTurn(pairs)
           m == 2 * n
<1>1. f = [i \in 1..m |-> pairs[(i + 1) \div 2][IF i % 2 = 1 THEN 1 ELSE 2]]
  BY DEF InTurn
<1>2. m \in Nat
  OBVIOUS
<1>3. \A i \in 1..m : (i + 1) \div 2 \in 1..n
  OBVIOUS
<1>4. \A i \in 1..n : /\ 2 * i \in 1..m /\ 2 * i - 1 \in 1..m
                      /\ (2 * i + 1) \div 2 = i /\ (2 * i - 1 + 1) \div 2 = i
                      /\ (2 * i) % 2 = 0 /\ (2 * i - 1) % 2 = 1
  OBVIOUS
<1> HIDE DEF f, m
<1>5. f \in [1..m -> S]
  BY <1>1, <1>3
<1>6. f \in Seq(S) /\ Len(f) = m
  BY <1>2, <1>5
<1>7. \A i \in 1..n : f[2 * i - 1] = pairs[i][1] /\ f[2 * i] = pairs[i][2]
  BY <1>1, <1>4
<1>. QED BY <1>6, <1>7 DEF f, m, AreInTurn

\* What the first steps have left.
LEMMA FirstSteps ==
    ASSUME NEW S, NEW s \in Seq(S), NEW k \in 0..Len(s)
    PROVE  \A x : x \in ToSet(SubSeq(s, 1, k)) <=> \E i \in 1..k : s[i] = x
<1>1. Len(s) \in Nat /\ k \in Nat
  OBVIOUS
<1> DEFINE f == SubSeq(s, 1, k)
<1>2. Len(f) = k /\ DOMAIN f = 1..k /\ \A i \in 1..k : f[i] = s[i]
  BY <1>1
<1> HIDE DEF f
<1>3. \A x : x \in ToSet(f) <=> \E i \in 1..k : f[i] = x
  BY <1>2 DEF ToSet
<1>. QED BY <1>2, <1>3 DEF f

\* Every row of table a is in table b.
Holds(a, b) == \A j \in 1..Len(a) : \E i \in 1..Len(b) : b[i] = a[j]

\* The rows of table a are the first ones of table b.
Begins(a, b) == Len(a) <= Len(b) /\ \A j \in 1..Len(a) : b[j] = a[j]

\* A table begins with itself, and one that begins with another holds it.
LEMMA BeginsSelf ==
    ASSUME NEW S, NEW a \in Seq(S)
    PROVE  Begins(a, a) /\ Holds(a, a)
BY DEF Begins, Holds

\* The first rows of a table, in the words of the sequences.
LEMMA PrefixBegins ==
    ASSUME NEW S, NEW a \in Seq(S), NEW b \in Seq(S), IsPrefix(a, b)
    PROVE  Begins(a, b)
<1>1. Len(a) \in Nat /\ Len(b) \in Nat /\ Len(a) <= Len(b)
  BY DEF IsPrefix
<1>2. SubSeq(a, 1, Len(a)) = SubSeq(b, 1, Len(a))
  BY DEF IsPrefix
<1>3. ASSUME NEW j \in 1..Len(a) PROVE b[j] = a[j]
  <2>1. SubSeq(a, 1, Len(a))[j] = a[j] /\ SubSeq(b, 1, Len(a))[j] = b[j]
    BY <1>1
  <2>. QED BY <1>2, <2>1
<1>. QED BY <1>1, <1>3 DEF Begins

\* A write stores its rows; every other row was there before, and those of other
\* keys stay.
Stored(S, table, new, up) ==
    /\ up \in Seq(S)
    /\ \A i \in 1..Len(up) : \/ \E j \in 1..Len(table) : up[i] = table[j]
                             \/ \E j \in 1..Len(new) : up[i] = new[j]
    /\ \A j \in 1..Len(new) : \E i \in 1..Len(up) : up[i] = new[j]
    /\ \A j \in 1..Len(table) : (\A i \in 1..Len(new) : new[i][1] # table[j][1]) =>
          \E i \in 1..Len(up) : up[i] = table[j]

LEMMA WrittenKeeps ==
    ASSUME NEW S, NEW table \in Seq(S), NEW new \in Seq(S), NEW up \in Written(table, new)
    PROVE  Stored(S, table, new, up)
<1> DEFINE keys == {r[1] : r \in ToSet(new)}
           kept == Without(table, keys)
           n == Len(kept) + Len(new)
<1> HIDE DEF keys
<1>1. /\ kept \in Seq(S)
      /\ \A j \in 1..Len(table) : table[j][1] \notin keys =>
            \E i \in 1..Len(kept) : kept[i] = table[j]
      /\ \A i \in 1..Len(kept) : \E j \in 1..Len(table) : kept[i] = table[j]
  BY WithoutKeeps
<1>2. /\ up \in [1..n -> ToSet(kept) \cup ToSet(new)] /\ Without(up, keys) = kept
      /\ ToSet(new) \subseteq ToSet(up)
  BY DEF Written, keys
<1>3. /\ \A x : x \in ToSet(new) <=> \E i \in 1..Len(new) : new[i] = x
      /\ ToSet(new) \subseteq S /\ Len(new) \in Nat
  BY DEF ToSet
<1>4. \A x : x \in keys <=> \E i \in 1..Len(new) : new[i][1] = x
  BY <1>3 DEF keys
<1> HIDE DEF kept
<1>5. /\ \A x : x \in ToSet(kept) <=> \E i \in 1..Len(kept) : kept[i] = x
      /\ ToSet(kept) \subseteq S /\ Len(kept) \in Nat
  BY <1>1 DEF ToSet
<1>6. n \in Nat
  BY <1>3, <1>5
<1> HIDE DEF n
<1>7. up \in [1..n -> S]
  BY <1>2, <1>3, <1>5
<1>8. up \in Seq(S) /\ Len(up) = n
  <2>1. PICK m, f : m = n /\ f = up
    OBVIOUS
  <2>2. m \in Nat /\ f \in [1..m -> S]
    BY <1>6, <1>7, <2>1
  <2>3. ListOf(S, m, f)
    BY <2>2, FunctionIsSeq
  <2>. QED BY <2>1, <2>3 DEF ListOf
<1>9. \A x : x \in ToSet(up) <=> \E i \in 1..Len(up) : up[i] = x
  BY <1>8, SMTT(60) DEF ToSet
<1>10. ASSUME NEW i \in 1..Len(up)
       PROVE  \/ \E j \in 1..Len(table) : up[i] = table[j]
              \/ \E j \in 1..Len(new) : up[i] = new[j]
  <2>1. up[i] \in ToSet(kept) \/ up[i] \in ToSet(new)
    BY <1>2, <1>8
  <2>2. CASE up[i] \in ToSet(kept)
    <3>1. PICK m \in 1..Len(kept) : kept[m] = up[i]
      BY <1>5, <2>2
    <3>. QED BY <1>1, <3>1
  <2>3. CASE up[i] \in ToSet(new)
    <3>1. PICK m \in 1..Len(new) : new[m] = up[i]
      BY <1>3, <2>3
    <3>. QED BY <3>1
  <2>. QED BY <2>1, <2>2, <2>3
<1>11. ASSUME NEW j \in 1..Len(new) PROVE \E i \in 1..Len(up) : up[i] = new[j]
  BY <1>2, <1>3, <1>9
<1>12. ASSUME NEW j \in 1..Len(table), \A i \in 1..Len(new) : new[i][1] # table[j][1]
       PROVE  \E i \in 1..Len(up) : up[i] = table[j]
  <2>1. PICK i \in 1..Len(kept) : kept[i] = table[j]
    BY <1>1, <1>4, <1>12
  <2>2. \A m \in 1..Len(Without(up, keys)) : \E i2 \in 1..Len(up) : Without(up, keys)[m] = up[i2]
    BY <1>8, WithoutKeeps
  <2>3. PICK i2 \in 1..Len(up) : kept[i] = up[i2]
    BY <1>2, <2>1, <2>2
  <2>. QED BY <2>1, <2>3
<1>. QED BY <1>8, <1>10, <1>11, <1>12 DEF Stored

\* Rows of one value: those of the other keys stay as they are, and those of the
\* same keys too where everyone stores that value.
Upserted(S, table, value, up) ==
    /\ up \in Seq(S)
    /\ \A i \in 1..Len(up) : up[i][2] = value \/ \E j \in 1..Len(table) : up[i] = table[j]
    /\ (\A j \in 1..Len(table) : table[j] = <<table[j][1], value>>) => Holds(table, up)

LEMMA UpsertKeeps ==
    ASSUME NEW S, NEW table \in Seq(S), NEW K, NEW keys \in Seq(K), NEW value,
           \A x \in K : <<x, value>> \in S, NEW up \in Written(table, RowsOf(keys, value))
    PROVE  Upserted(S, table, value, up)
<1> DEFINE new == RowsOf(keys, value)
<1>1. /\ new \in Seq(S) /\ Len(new) = Len(keys)
      /\ \A i \in 1..Len(new) : new[i] = <<keys[i], value>>
  <2>1. DOMAIN keys = 1..Len(keys) /\ Len(keys) \in Nat /\ \A i \in 1..Len(keys) : keys[i] \in K
    OBVIOUS
  <2>2. new = [i \in 1..Len(keys) |-> <<keys[i], value>>]
    BY <2>1 DEF RowsOf
  <2>3. new \in [1..Len(keys) -> S]
    BY <2>1, <2>2
  <2>4. new \in Seq(S) /\ Len(new) = Len(keys)
    BY <2>1, <2>3
  <2>. QED BY <2>1, <2>2, <2>4
<1> HIDE DEF new
<1>2. up \in Written(table, new)
  BY DEF new
<1>3. Stored(S, table, new, up)
  BY <1>1, <1>2, WrittenKeeps
<1>4. /\ up \in Seq(S)
      /\ \A i \in 1..Len(up) : \/ \E j \in 1..Len(table) : up[i] = table[j]
                               \/ \E j \in 1..Len(new) : up[i] = new[j]
      /\ \A j \in 1..Len(new) : \E i \in 1..Len(up) : up[i] = new[j]
      /\ \A j \in 1..Len(table) : (\A i \in 1..Len(new) : new[i][1] # table[j][1]) =>
            \E i \in 1..Len(up) : up[i] = table[j]
  BY <1>3 DEF Stored
<1>5. \A i \in 1..Len(new) : new[i][2] = value
  BY <1>1
<1>6. ASSUME NEW i \in 1..Len(up)
      PROVE  up[i][2] = value \/ \E j \in 1..Len(table) : up[i] = table[j]
  <2>1. CASE \E j \in 1..Len(new) : up[i] = new[j]
    <3>1. PICK j \in 1..Len(new) : up[i] = new[j]
      BY <2>1
    <3>. QED BY <1>5, <3>1
  <2>. QED BY <1>4, <2>1
<1>7. ASSUME \A j \in 1..Len(table) : table[j] = <<table[j][1], value>>, NEW j \in 1..Len(table)
      PROVE  \E i \in 1..Len(up) : up[i] = table[j]
  <2>1. CASE \E i \in 1..Len(new) : new[i][1] = table[j][1]
    <3>1. PICK i \in 1..Len(new) : new[i][1] = table[j][1]
      BY <2>1
    <3>2. new[i] = table[j]
      <4>1. new[i] = <<keys[i], value>> /\ new[i][1] = keys[i]
        BY <1>1
      <4>2. table[j] = <<table[j][1], value>>
        BY <1>7
      <4>. QED BY <3>1, <4>1, <4>2
    <3>3. PICK m \in 1..Len(up) : up[m] = new[i]
      BY <1>4
    <3>. QED BY <3>2, <3>3
  <2>2. CASE ~\E i \in 1..Len(new) : new[i][1] = table[j][1]
    BY <1>4, <2>2
  <2>. QED BY <2>1, <2>2
<1>. QED BY <1>4, <1>6, <1>7 DEF Holds, Upserted

\* The names of the tables.
LEMMA TableNames ==
    /\ ToSet(CacheTables) = CacheNames /\ Len(CacheTables) = 3
    /\ CacheTables[1] = "price_cache" /\ CacheTables[2] = "metadata_cache"
    /\ CacheTables[3] = "strategy_timings" /\ DOMAIN CacheTables = 1..3
    /\ \A i \in 1..3 : CacheTables[i] \in CacheNames
<1>1. CacheTables = <<"price_cache", "metadata_cache", "strategy_timings">>
  BY DEF CacheTables
<1>2. /\ Len(CacheTables) = 3 /\ DOMAIN CacheTables = 1..3
      /\ CacheTables[1] = "price_cache" /\ CacheTables[2] = "metadata_cache"
      /\ CacheTables[3] = "strategy_timings"
  BY <1>1
<1>3. \A i \in 1..3 : i = 1 \/ i = 2 \/ i = 3
  OBVIOUS
<1>4. \A i \in 1..3 : CacheTables[i] \in CacheNames
  BY <1>2, <1>3, Zenon DEF CacheNames
<1>5. \A t : t \in ToSet(CacheTables) <=> \E i \in 1..3 : CacheTables[i] = t
  BY <1>2, Zenon DEF ToSet
<1>6. 1 \in 1..3 /\ 2 \in 1..3 /\ 3 \in 1..3
  OBVIOUS
<1>7. ToSet(CacheTables) = CacheNames
  <2>1. \A t \in ToSet(CacheTables) : t \in CacheNames
    BY <1>4, <1>5, Zenon
  <2>2. \A t \in CacheNames : t \in ToSet(CacheTables)
    BY <1>2, <1>5, <1>6, Zenon DEF CacheNames
  <2>. QED BY <2>1, <2>2, Zenon
<1>. QED BY <1>2, <1>4, <1>7

\* What is looked up has the number of an event.
LEMMA KeysNumbered ==
    /\ \A t \in CacheNames : KeysOf[t] \subseteq 1..N
    /\ 1 \in 1..N
<1>1. 1 \in 1..N
  BY DeployAssumption
<1>2. /\ KeysOf["price_cache"] = 1..N /\ KeysOf["metadata_cache"] = (1..N) \cap {1}
      /\ KeysOf["strategy_timings"] = (1..N) \cap {1}
  BY DEF KeysOf, PricesNear, DocumentsOf, TimingsOf
<1>. QED BY <1>1, <1>2 DEF CacheNames

\* The lookups of an event keep what is stored.
LEMMA LookedKeeps ==
    ASSUME rows \in [Colors -> [CacheNames -> Seq(Row)]], RowsFit,
           NEW c \in Colors, NEW k \in 1..N, NEW prices \in Seq(1..N),
           NEW looked \in Looked(c, k, prices)
    PROVE  /\ looked \in [CacheNames -> Seq(Row)]
           /\ \A t \in CacheNames : looked[t] \in Seq(RowsIn(t)) /\ Holds(rows[c][t], looked[t])
           /\ looked["strategy_timings"] = rows[c]["strategy_timings"]
<1> DEFINE After(t, keys) == IF HasCache(c) /\ k \in KeysOf[t] \ Keys(c, t)
                             THEN Written(rows[c][t], RowsOf(keys, "doc"))
                             ELSE {rows[c][t]}
<1> DEFINE P == After("price_cache", prices)
           M == After("metadata_cache", <<k>>)
<1>1. Looked(c, k, prices) =
        {[rows[c] EXCEPT !["price_cache"] = near, !["metadata_cache"] = documents] :
            near \in P, documents \in M}
  BY DEF Looked
<1> HIDE DEF P, M
<1>2. PICK p \in P, m \in M :
          looked = [rows[c] EXCEPT !["price_cache"] = p, !["metadata_cache"] = m]
  BY <1>1
<1>3. ASSUME NEW t \in {"price_cache", "metadata_cache"}, NEW keys \in Seq(1..N),
             NEW up \in After(t, keys)
      PROVE  up \in Seq(DocRows) /\ Holds(rows[c][t], up)
  <2> DEFINE table == rows[c][t]
  <2>1. table \in Seq(DocRows)
    BY <1>3 DEF RowsFit, RowsIn, CacheNames
  <2>2. \A j \in 1..Len(table) : table[j] = <<table[j][1], "doc">>
    BY <2>1 DEF DocRows
  <2>3. \A x \in 1..N : <<x, "doc">> \in DocRows
    BY DEF DocRows
  <2>4. up \in Written(table, RowsOf(keys, "doc")) \/ up = table
    BY <1>3
  <2> HIDE DEF table
  <2>5. CASE up \in Written(table, RowsOf(keys, "doc"))
    <3>1. up \in Seq(DocRows) /\ Holds(table, up)
      <4>1. PICK K, S : K = 1..N /\ S = DocRows
        OBVIOUS
      <4>2. table \in Seq(S) /\ keys \in Seq(K) /\ \A x \in K : <<x, "doc">> \in S
        BY <2>1, <2>3, <4>1
      <4>3. Upserted(S, table, "doc", up)
        BY <2>5, <4>2, UpsertKeeps
      <4>. QED BY <2>2, <4>1, <4>3 DEF Upserted
    <3>. QED BY <3>1 DEF table
  <2>6. CASE up = table
    BY <2>1, <2>6, BeginsSelf DEF table
  <2>. QED BY <2>4, <2>5, <2>6
<1>4. <<k>> \in Seq(1..N)
  OBVIOUS
<1>5. p \in Seq(DocRows) /\ Holds(rows[c]["price_cache"], p)
  BY <1>3, Zenon DEF P
<1>6. m \in Seq(DocRows) /\ Holds(rows[c]["metadata_cache"], m)
  BY <1>3, <1>4, Zenon DEF M
<1>7. rows[c] \in [CacheNames -> Seq(Row)] /\ rows[c]["strategy_timings"] \in Seq(TimesRows)
  BY DEF RowsFit, RowsIn, CacheNames
<1>8. Seq(DocRows) \subseteq Seq(Row)
  BY DEF Row
<1>9. /\ looked \in [CacheNames -> Seq(Row)] /\ looked["price_cache"] = p
      /\ looked["metadata_cache"] = m /\ looked["strategy_timings"] = rows[c]["strategy_timings"]
  BY <1>2, <1>5, <1>6, <1>7, <1>8 DEF CacheNames
<1>10. Holds(rows[c]["strategy_timings"], rows[c]["strategy_timings"])
  BY <1>7, BeginsSelf
<1>11. \A t \in CacheNames : looked[t] \in Seq(RowsIn(t)) /\ Holds(rows[c][t], looked[t])
  BY <1>5, <1>6, <1>7, <1>9, <1>10 DEF CacheNames, RowsIn
<1>. QED BY <1>9, <1>11
-----------------------------------------------------------------------------
(* The configuration of the API over a whole database.                       *)

ApiSteps == {Track(Tables[i]) : i \in 1..14} \cup {Permit(Tables[i]) : i \in 1..14}
            \cup {OfKey(ForeignKeys[i])[1] : i \in 1..9} \cup {OfKey(ForeignKeys[i])[2] : i \in 1..9}
            \cup {VirtualArrays[1], VirtualArrays[2], VirtualObjects[1], CustomFunctions[1]}

\* The table and the name of each relationship, in the order they are created.
Named ==
    <<<<"projects", "project_roles">>, <<"project_roles", "project">>,
      <<"projects", "rounds">>, <<"rounds", "project">>,
      <<"rounds", "round_roles">>, <<"round_roles", "round">>,
      <<"projects", "applications">>, <<"applications", "project">>,
      <<"rounds", "applications">>, <<"applications", "round">>,
      <<"applications", "applications_payouts">>, <<"applications_payouts", "application">>,
      <<"rounds", "donations">>, <<"donations", "round">>,
      <<"applications", "donations">>, <<"donations", "application">>,
      <<"attestations", "attestation_txns">>, <<"attestation_txns", "attestation">>,
      <<"donations", "attestationTransactions">>, <<"applications", "projects">>,
      <<"attestation_txns", "donation">>>>

\* The tables of the script are there, once each.
LEMMA TablesListed ==
    /\ DOMAIN Tables = 1..14 /\ Len(Tables) = 14
    /\ \A i \in 1..14 : Tables[i] \in Present(Folders)
    /\ \A i, j \in 1..14 : Tables[i] = Tables[j] => i = j
<1>1. DOMAIN Tables = 1..14 /\ Len(Tables) = 14
  BY DEF Tables
<1>2. \A i \in 1..14 : Tables[i] \in TablesOf["processing"] \/ Tables[i] \in TablesOf["processing_cache"]
  BY DEF Tables, TablesOf, InitialTables, RegistryTables, AttestationTables, CachedTables
<1>3. Present(Folders) = TablesOf["processing"] \cup TablesOf["processing_cache"]
  BY DEF Present, Folders
<1>4. \A i, j \in 1..14 : Tables[i] = Tables[j] => i = j
  BY DEF Tables
<1>. QED BY <1>1, <1>2, <1>3, <1>4

\* Every foreign key is there over a whole database.
LEMMA KeysListed ==
    /\ DOMAIN ForeignKeys = 1..9 /\ Len(ForeignKeys) = 9
    /\ ForeignKeys[1] = <<"project_roles", "projects">> /\ ForeignKeys[2] = <<"rounds", "projects">>
    /\ ForeignKeys[3] = <<"round_roles", "rounds">> /\ ForeignKeys[4] = <<"applications", "projects">>
    /\ ForeignKeys[5] = <<"applications", "rounds">>
    /\ ForeignKeys[6] = <<"applications_payouts", "applications">>
    /\ ForeignKeys[7] = <<"donations", "rounds">> /\ ForeignKeys[8] = <<"donations", "applications">>
    /\ ForeignKeys[9] = <<"attestation_txns", "attestations">>
    /\ KeysIn(Present(Folders)) = ForeignKeys
<1>1. PICK S :
        S = {<<"project_roles", "projects">>, <<"rounds", "projects">>,
             <<"round_roles", "rounds">>, <<"applications", "projects">>,
             <<"applications", "rounds">>, <<"applications_payouts", "applications">>,
             <<"donations", "rounds">>, <<"donations", "applications">>,
             <<"attestation_txns", "attestations">>}
  OBVIOUS
<1> DEFINE a == InitialKeys
           b == AttestationKeys
<1>2. a \in Seq(S) /\ Len(a) = 8 /\ b \in Seq(S) /\ Len(b) = 1
  BY <1>1 DEF InitialKeys, AttestationKeys
<1>3. /\ a[1] = <<"project_roles", "projects">> /\ a[2] = <<"rounds", "projects">>
      /\ a[3] = <<"round_roles", "rounds">> /\ a[4] = <<"applications", "projects">>
      /\ a[5] = <<"applications", "rounds">> /\ a[6] = <<"applications_payouts", "applications">>
      /\ a[7] = <<"donations", "rounds">> /\ a[8] = <<"donations", "applications">>
      /\ b[1] = <<"attestation_txns", "attestations">>
  BY DEF InitialKeys, AttestationKeys
<1> DEFINE k == a \o b
<1>4. ForeignKeys = k
  BY DEF ForeignKeys
<1> HIDE DEF a, b
<1>5. IsJoined(S, a, b, k)
  BY <1>2, Joined
<1> HIDE DEF k
<1>6. /\ k \in Seq(S) /\ Len(k) = Len(a) + Len(b)
      /\ \A i \in 1..Len(a) : k[i] = a[i]
      /\ \A i \in 1..Len(b) : k[Len(a) + i] = b[i]
  BY <1>5 DEF IsJoined
<1>7. k \in Seq(S) /\ Len(k) = 9 /\ DOMAIN k = 1..9
  BY <1>2, <1>6
<1>8. /\ k[1] = a[1] /\ k[2] = a[2] /\ k[3] = a[3] /\ k[4] = a[4]
      /\ k[5] = a[5] /\ k[6] = a[6] /\ k[7] = a[7] /\ k[8] = a[8]
  BY <1>2, <1>6
<1>9. k[9] = b[1]
  <2>1. 1 \in 1..Len(b) /\ Len(a) + 1 = 9
    BY <1>2
  <2>. QED BY <1>6, <2>1
<1>10. \A i \in 1..9 : ForeignKeys[i][1] \in Present(Folders)
  <2>1. Present(Folders) = TablesOf["processing"] \cup TablesOf["processing_cache"]
    BY DEF Present, Folders
  <2>2. \A i \in 1..9 : i \in {1, 2, 3, 4, 5, 6, 7, 8, 9}
    OBVIOUS
  <2>. QED BY <1>3, <1>4, <1>8, <1>9, <2>1, <2>2 DEF TablesOf, InitialTables, AttestationTables
<1>11. KeysIn(Present(Folders)) = ForeignKeys
  <2> DEFINE keys == {fk[1] : fk \in ToSet(ForeignKeys)} \ Present(Folders)
  <2>1. \A j \in 1..Len(ForeignKeys) : ForeignKeys[j][1] \notin keys
    BY <1>4, <1>7, <1>10
  <2>2. KeysIn(Present(Folders)) = Without(ForeignKeys, keys)
    BY DEF KeysIn
  <2> HIDE DEF keys
  <2>. QED BY <1>4, <1>7, <2>1, <2>2, WithoutKeeps, ZenonT(60)
<1>. QED BY <1>11, <1>3, <1>4, <1>7, <1>8, <1>9

\* The steps of the configuration, in order.
LEMMA StepsListed ==
    /\ AllSteps \in Seq(ApiSteps) /\ Len(AllSteps) = 50
    /\ \A i \in 1..14 : /\ AllSteps[2 * i - 1] = Track(Tables[i])
                        /\ AllSteps[2 * i] = Permit(Tables[i])
    /\ \A i \in 1..9 : /\ AllSteps[28 + (2 * i - 1)] = OfKey(ForeignKeys[i])[1]
                       /\ AllSteps[28 + 2 * i] = OfKey(ForeignKeys[i])[2]
    /\ AllSteps[47] = VirtualArrays[1] /\ AllSteps[48] = VirtualArrays[2]
    /\ AllSteps[49] = VirtualObjects[1] /\ AllSteps[50] = CustomFunctions[1]
<1> DEFINE tables == [i \in DOMAIN Tables |-> OfTable(Tables[i])]
           keys == [i \in DOMAIN ForeignKeys |-> OfKey(ForeignKeys[i])]
           a == InTurn(tables)
           b == InTurn(keys)
           c == VirtualArrays
           d == VirtualObjects
           e == CustomFunctions
           ab == a \o b
           abc == ab \o c
           abcd == abc \o d
           all == abcd \o e
<1>1. AllSteps = all
  BY KeysListed DEF AllSteps, Steps
<1>2. /\ a \in Seq(ApiSteps) /\ Len(a) = 28
      /\ \A i \in 1..14 : a[2 * i - 1] = Track(Tables[i]) /\ a[2 * i] = Permit(Tables[i])
  <2>1. DOMAIN tables = 1..14 /\ Len(tables) = 14
    BY TablesListed
  <2>2. \A i \in 1..14 : tables[i] = <<Track(Tables[i]), Permit(Tables[i])>>
    BY TablesListed DEF OfTable
  <2>3. \A i \in 1..14 : Track(Tables[i]) \in ApiSteps /\ Permit(Tables[i]) \in ApiSteps
    BY DEF ApiSteps
  <2> HIDE DEF tables
  <2>4. \A i \in 1..14 : tables[i][1] = Track(Tables[i]) /\ tables[i][2] = Permit(Tables[i])
    BY <2>2
  <2>5. \A i \in 1..14 : tables[i][1] \in ApiSteps /\ tables[i][2] \in ApiSteps
    BY <2>3, <2>4
  <2>6. /\ InTurn(tables) \in Seq(ApiSteps) /\ Len(InTurn(tables)) = 2 * 14
        /\ \A i \in 1..14 : /\ InTurn(tables)[2 * i - 1] = tables[i][1]
                            /\ InTurn(tables)[2 * i] = tables[i][2]
    <3>1. PICK S, n : S = ApiSteps /\ n = 14
      OBVIOUS
    <3>2. n \in Nat /\ DOMAIN tables = 1..n /\ Len(tables) = n
      BY <2>1, <3>1
    <3>3. \A i \in 1..n : tables[i][1] \in S /\ tables[i][2] \in S
      BY <2>5, <3>1
    <3>4. AreInTurn(S, n, tables, InTurn(tables))
      BY <3>2, <3>3, PairsInTurn
    <3>. QED BY <3>1, <3>4 DEF AreInTurn
  <2>7. a = InTurn(tables) /\ 2 * 14 = 28
    OBVIOUS
  <2> HIDE DEF a
  <2>. QED BY <2>4, <2>6, <2>7
<1>3. /\ b \in Seq(ApiSteps) /\ Len(b) = 18
      /\ \A i \in 1..9 : b[2 * i - 1] = OfKey(ForeignKeys[i])[1] /\ b[2 * i] = OfKey(ForeignKeys[i])[2]
  <2>1. DOMAIN keys = 1..9 /\ Len(keys) = 9
    BY KeysListed
  <2>2. \A i \in 1..9 : keys[i] = OfKey(ForeignKeys[i])
    BY KeysListed
  <2>3. \A i \in 1..9 : OfKey(ForeignKeys[i])[1] \in ApiSteps /\ OfKey(ForeignKeys[i])[2] \in ApiSteps
    BY DEF ApiSteps
  <2> HIDE DEF keys
  <2>4. \A i \in 1..9 : keys[i][1] \in ApiSteps /\ keys[i][2] \in ApiSteps
    BY <2>2, <2>3
  <2>5. /\ InTurn(keys) \in Seq(ApiSteps) /\ Len(InTurn(keys)) = 2 * 9
        /\ \A i \in 1..9 : InTurn(keys)[2 * i - 1] = keys[i][1] /\ InTurn(keys)[2 * i] = keys[i][2]
    <3>1. PICK S, n : S = ApiSteps /\ n = 9
      OBVIOUS
    <3>2. n \in Nat /\ DOMAIN keys = 1..n /\ Len(keys) = n
      BY <2>1, <3>1
    <3>3. \A i \in 1..n : keys[i][1] \in S /\ keys[i][2] \in S
      BY <2>4, <3>1
    <3>4. AreInTurn(S, n, keys, InTurn(keys))
      BY <3>2, <3>3, PairsInTurn
    <3>. QED BY <3>1, <3>4 DEF AreInTurn
  <2>6. b = InTurn(keys) /\ 2 * 9 = 18
    OBVIOUS
  <2> HIDE DEF b
  <2>. QED BY <2>2, <2>5, <2>6
<1>4. /\ c \in Seq(ApiSteps) /\ Len(c) = 2 /\ d \in Seq(ApiSteps) /\ Len(d) = 1
      /\ e \in Seq(ApiSteps) /\ Len(e) = 1
  <2>1. /\ VirtualArrays[1] \in ApiSteps /\ VirtualArrays[2] \in ApiSteps
        /\ VirtualObjects[1] \in ApiSteps /\ CustomFunctions[1] \in ApiSteps
    BY DEF ApiSteps
  <2>2. PICK S : S = ApiSteps
    OBVIOUS
  <2>3. \A x, y : x \in S /\ y \in S => <<x, y>> \in Seq(S) /\ <<x>> \in Seq(S)
    OBVIOUS
  <2>4. /\ c = <<c[1], c[2]>> /\ Len(c) = 2 /\ d = <<d[1]>> /\ Len(d) = 1
        /\ e = <<e[1]>> /\ Len(e) = 1
    BY DEF VirtualArrays, VirtualObjects, CustomFunctions
  <2> HIDE DEF c, d, e
  <2>5. c[1] \in S /\ c[2] \in S /\ d[1] \in S /\ e[1] \in S
    BY <2>1, <2>2 DEF c, d, e
  <2>. QED BY <2>2, <2>3, <2>4, <2>5
<1> HIDE DEF a, b, c, d, e
<1>5. IsJoined(ApiSteps, a, b, ab)
  BY <1>2, <1>3, Joined
<1> HIDE DEF ab
<1>6. IsJoined(ApiSteps, ab, c, abc)
  <2>1. ab \in Seq(ApiSteps)
    BY <1>5 DEF IsJoined
  <2>. QED BY <1>4, <2>1, Joined
<1> HIDE DEF abc
<1>7. IsJoined(ApiSteps, abc, d, abcd)
  <2>1. abc \in Seq(ApiSteps)
    BY <1>6 DEF IsJoined
  <2>. QED BY <1>4, <2>1, Joined
<1> HIDE DEF abcd
<1>8. IsJoined(ApiSteps, abcd, e, all)
  <2>1. abcd \in Seq(ApiSteps)
    BY <1>7 DEF IsJoined
  <2>. QED BY <1>4, <2>1, Joined
<1> HIDE DEF all
<1>9. /\ Len(a) = 28 /\ Len(b) = 18 /\ Len(c) = 2 /\ Len(d) = 1 /\ Len(e) = 1
      /\ Len(ab) = 46 /\ Len(abc) = 48 /\ Len(abcd) = 49 /\ Len(all) = 50
  BY <1>2, <1>3, <1>4, <1>5, <1>6, <1>7, <1>8 DEF IsJoined
<1>10. /\ \A i \in 1..28 : AllSteps[i] = a[i]
       /\ \A i \in 1..18 : AllSteps[28 + i] = b[i]
       /\ \A i \in 1..2 : AllSteps[46 + i] = c[i]
       /\ AllSteps[49] = d[1] /\ AllSteps[50] = e[1]
  BY <1>1, <1>5, <1>6, <1>7, <1>8, <1>9 DEF IsJoined
<1>11. ASSUME NEW i \in 1..14
       PROVE  AllSteps[2 * i - 1] = Track(Tables[i]) /\ AllSteps[2 * i] = Permit(Tables[i])
  <2>1. 2 * i - 1 \in 1..28 /\ 2 * i \in 1..28
    OBVIOUS
  <2>. QED BY <1>2, <1>10, <2>1
<1>12. ASSUME NEW i \in 1..9
       PROVE  /\ AllSteps[28 + (2 * i - 1)] = OfKey(ForeignKeys[i])[1]
              /\ AllSteps[28 + 2 * i] = OfKey(ForeignKeys[i])[2]
  <2>1. 2 * i - 1 \in 1..18 /\ 2 * i \in 1..18
    OBVIOUS
  <2>. QED BY <1>3, <1>10, <2>1
<1>13. AllSteps[47] = c[1] /\ AllSteps[48] = c[2]
  <2>1. 1 \in 1..2 /\ 2 \in 1..2 /\ 46 + 1 = 47 /\ 46 + 2 = 48
    OBVIOUS
  <2>. QED BY <1>10, <2>1
<1>. QED BY <1>8, <1>10, <1>11, <1>12, <1>13, <1>9, <1>1 DEF c, d, e, IsJoined

\* What the first k steps have left.
After(k) == ToSet(SubSeq(AllSteps, 1, k))

\* It is the steps up to the k-th.
LEMMA AfterHas == \A k \in 0..50 : \A x : x \in After(k) <=> \E i \in 1..k : AllSteps[i] = x
<1> SUFFICES ASSUME NEW k \in 0..50
             PROVE  \A x : x \in After(k) <=> \E i \in 1..k : AllSteps[i] = x
  OBVIOUS
<1>1. AllSteps \in Seq(ApiSteps) /\ k \in 0..Len(AllSteps)
  BY StepsListed
<1>. QED BY <1>1, FirstSteps DEF After

\* The two steps of each table.
LEMMA StepsOfTable ==
    ASSUME NEW i \in 1..14
    PROVE  /\ AllSteps[2 * i - 1].op = "track" /\ AllSteps[2 * i - 1].table = Tables[i]
           /\ AllSteps[2 * i].op = "permit" /\ AllSteps[2 * i].table = Tables[i]
<1>1. AllSteps[2 * i - 1] = Track(Tables[i]) /\ AllSteps[2 * i] = Permit(Tables[i])
  BY StepsListed
<1>. QED BY <1>1 DEF Track, Permit

\* The steps after those of the tables create relationships, but for the last
\* one; their tables are among those of the script.
LEMMA RelationshipsNamed ==
    \A k \in 1..21 :
        /\ AllSteps[28 + k].op = "relate"
        /\ AllSteps[28 + k].table = Named[k][1] /\ AllSteps[28 + k].name = Named[k][2]
        /\ \E i \in 1..14 : Tables[i] = AllSteps[28 + k].table
        /\ \E i \in 1..14 : Tables[i] = AllSteps[28 + k].remote
<1> DEFINE Good(k) ==
             /\ AllSteps[28 + k].op = "relate"
             /\ AllSteps[28 + k].table = Named[k][1] /\ AllSteps[28 + k].name = Named[k][2]
             /\ \E i \in 1..14 : Tables[i] = AllSteps[28 + k].table
             /\ \E i \in 1..14 : Tables[i] = AllSteps[28 + k].remote
<1>1. \A t \in {"projects", "project_roles", "rounds", "round_roles", "applications",
                "applications_payouts", "donations", "attestations", "attestation_txns"} :
          \E i \in 1..14 : Tables[i] = t
  <2>1. /\ Tables[1] = "projects" /\ Tables[3] = "project_roles" /\ Tables[4] = "rounds"
        /\ Tables[6] = "round_roles" /\ Tables[7] = "applications"
        /\ Tables[8] = "applications_payouts" /\ Tables[9] = "donations"
        /\ Tables[11] = "attestations" /\ Tables[12] = "attestation_txns"
    BY DEF Tables
  <2>2. {1, 3, 4, 6, 7, 8, 9, 11, 12} \subseteq 1..14
    OBVIOUS
  <2>. QED BY <2>1, <2>2
<1>2. ASSUME NEW i \in 1..9 PROVE Good(2 * i - 1) /\ Good(2 * i)
  <2>1. /\ AllSteps[28 + (2 * i - 1)] =
             Relationship(ForeignKeys[i][2], ForeignKeys[i][1], ForeignKeys[i][1])
        /\ AllSteps[28 + 2 * i] =
             Relationship(ForeignKeys[i][1], Singular[ForeignKeys[i][2]], ForeignKeys[i][2])
    BY StepsListed DEF OfKey
  <2>2. /\ AllSteps[28 + (2 * i - 1)].op = "relate"
        /\ AllSteps[28 + (2 * i - 1)].table = ForeignKeys[i][2]
        /\ AllSteps[28 + (2 * i - 1)].name = ForeignKeys[i][1]
        /\ AllSteps[28 + (2 * i - 1)].remote = ForeignKeys[i][1]
        /\ AllSteps[28 + 2 * i].op = "relate"
        /\ AllSteps[28 + 2 * i].table = ForeignKeys[i][1]
        /\ AllSteps[28 + 2 * i].name = Singular[ForeignKeys[i][2]]
        /\ AllSteps[28 + 2 * i].remote = ForeignKeys[i][2]
    BY <2>1 DEF Relationship
  <2>3. i \in {1, 2, 3, 4, 5, 6, 7, 8, 9}
    OBVIOUS
  <2>4. /\ Named[2 * i - 1] = <<ForeignKeys[i][2], ForeignKeys[i][1]>>
        /\ Named[2 * i] = <<ForeignKeys[i][1], Singular[ForeignKeys[i][2]]>>
    BY <2>3, KeysListed DEF Named, Singular
  <2>5. /\ \E n \in 1..14 : Tables[n] = ForeignKeys[i][1]
        /\ \E n \in 1..14 : Tables[n] = ForeignKeys[i][2]
    <3> DEFINE names == {"projects", "project_roles", "rounds", "round_roles", "applications",
                         "applications_payouts", "donations", "attestations", "attestation_txns"}
    <3>1. ForeignKeys[i][1] \in names /\ ForeignKeys[i][2] \in names
      BY <2>3, KeysListed
    <3>2. \A t \in names : \E n \in 1..14 : Tables[n] = t
      BY <1>1
    <3> HIDE DEF names
    <3>. QED BY <3>1, <3>2
  <2>. QED BY <2>2, <2>4, <2>5
<1>3. Good(19) /\ Good(20) /\ Good(21)
  <2>1. /\ AllSteps[28 + 19] = Relationship("donations", "attestationTransactions", "attestation_txns")
        /\ AllSteps[28 + 20] = Relationship("applications", "projects", "projects")
        /\ AllSteps[28 + 21] = Relationship("attestation_txns", "donation", "donations")
    BY StepsListed DEF VirtualArrays, VirtualObjects
  <2>2. /\ Named[19] = <<"donations", "attestationTransactions">>
        /\ Named[20] = <<"applications", "projects">> /\ Named[21] = <<"attestation_txns", "donation">>
    BY DEF Named
  <2>. QED BY <1>1, <2>1, <2>2 DEF Relationship
<1>4. \A k \in 1..21 : k \in 19..21 \/ \E i \in 1..9 : k = 2 * i - 1 \/ k = 2 * i
  OBVIOUS
<1> HIDE DEF Good
<1>5. \A k \in 1..21 : Good(k)
  BY <1>2, <1>3, <1>4
<1>. QED BY <1>5 DEF Good

\* No table has two relationships of one name.
LEMMA NamesDiffer ==
    \A j, k \in 1..21 : Named[j][1] = Named[k][1] /\ Named[j][2] = Named[k][2] => j = k
BY DEF Named

\* What each step is.
LEMMA Kinds ==
    \A j \in 1..50 :
        \/ \E i \in 1..14 : j = 2 * i - 1 /\ AllSteps[j].op = "track" /\ AllSteps[j].table = Tables[i]
        \/ \E i \in 1..14 : j = 2 * i /\ AllSteps[j].op = "permit" /\ AllSteps[j].table = Tables[i]
        \/ \E k \in 1..21 : j = 28 + k /\ AllSteps[j].op = "relate"
        \/ j = 50 /\ AllSteps[j].op = "function" /\ AllSteps[j].returns = Tables[1]
<1>1. \A i \in 1..14 : /\ AllSteps[2 * i - 1].op = "track" /\ AllSteps[2 * i - 1].table = Tables[i]
                       /\ AllSteps[2 * i].op = "permit" /\ AllSteps[2 * i].table = Tables[i]
  BY StepsOfTable
<1>2. AllSteps[50].op = "function" /\ AllSteps[50].returns = Tables[1]
  BY StepsListed DEF CustomFunctions, TrackFunction, Tables
<1>3. \A j \in 1..50 : \/ \E i \in 1..14 : j = 2 * i - 1 \/ j = 2 * i
                       \/ \E k \in 1..21 : j = 28 + k
                       \/ j = 50
  <2>1. ASSUME NEW j \in 1..50, j > 28, j # 50 PROVE j - 28 \in 1..21 /\ j = 28 + (j - 28)
    BY <2>1
  <2>2. ASSUME NEW j \in 1..28 PROVE \E i \in 1..14 : j = 2 * i - 1 \/ j = 2 * i
    OBVIOUS
  <2>3. \A j \in 1..50 : j \in 1..28 \/ j > 28
    OBVIOUS
  <2>. QED BY <2>1, <2>2, <2>3
<1>4. \A k \in 1..21 : AllSteps[28 + k].op = "relate"
  BY RelationshipsNamed, Zenon
<1>5. TAKE j \in 1..50
<1>6. CASE \E i \in 1..14 : j = 2 * i - 1
  BY <1>1, <1>6
<1>7. CASE \E i \in 1..14 : j = 2 * i
  BY <1>1, <1>7
<1>8. CASE \E k \in 1..21 : j = 28 + k
  BY <1>4, <1>8, Zenon
<1>9. CASE j = 50
  BY <1>2, <1>9, Zenon
<1>. QED BY <1>3, <1>6, <1>7, <1>8, <1>9, Zenon

\* Which tables are tracked and which can be read after k steps, and the
\* relationships there are.
LEMMA MetadataAfter ==
    ASSUME NEW k \in 0..50
    PROVE  /\ \A t : t \in Tracked(After(k)) <=> \E i \in 1..14 : 2 * i - 1 <= k /\ t = Tables[i]
           /\ \A t : t \in Permitted(After(k)) <=> \E i \in 1..14 : 2 * i <= k /\ t = Tables[i]
           /\ \A r \in Related(After(k)) : \E n \in 1..21 : 28 + n <= k /\ r = AllSteps[28 + n]
<1>1. \A x : x \in After(k) <=> \E j \in 1..k : AllSteps[j] = x
  BY AfterHas
<1>2. \A j \in 1..k : j \in 1..50 /\ j <= k
  OBVIOUS
<1>3. \A i \in 1..14 : /\ 2 * i - 1 <= k => 2 * i - 1 \in 1..k
                       /\ 2 * i <= k => 2 * i \in 1..k
  OBVIOUS
<1>4. \A i \in 1..14 : /\ AllSteps[2 * i - 1].op = "track" /\ AllSteps[2 * i - 1].table = Tables[i]
                       /\ AllSteps[2 * i].op = "permit" /\ AllSteps[2 * i].table = Tables[i]
  BY StepsOfTable
<1>5. ASSUME NEW t
      PROVE  t \in Tracked(After(k)) <=> \E i \in 1..14 : 2 * i - 1 <= k /\ t = Tables[i]
  <2>1. ASSUME NEW i \in 1..14, 2 * i - 1 <= k, t = Tables[i] PROVE t \in Tracked(After(k))
    <3>1. AllSteps[2 * i - 1] \in After(k)
      BY <1>1, <1>3, <2>1
    <3>. QED BY <1>4, <2>1, <3>1 DEF Tracked
  <2>2. ASSUME t \in Tracked(After(k)) PROVE \E i \in 1..14 : 2 * i - 1 <= k /\ t = Tables[i]
    <3>1. PICK x \in After(k) : x.op = "track" /\ t = x.table
      BY <2>2 DEF Tracked
    <3>2. PICK j \in 1..k : AllSteps[j] = x
      BY <1>1, <3>1
    <3>3. \E i \in 1..14 : j = 2 * i - 1 /\ x.table = Tables[i]
      BY <1>2, <3>1, <3>2, Kinds
    <3>. QED BY <1>2, <3>1, <3>3
  <2>. QED BY <2>1, <2>2
<1>6. ASSUME NEW t
      PROVE  t \in Permitted(After(k)) <=> \E i \in 1..14 : 2 * i <= k /\ t = Tables[i]
  <2>1. ASSUME NEW i \in 1..14, 2 * i <= k, t = Tables[i] PROVE t \in Permitted(After(k))
    <3>1. AllSteps[2 * i] \in After(k)
      BY <1>1, <1>3, <2>1
    <3>. QED BY <1>4, <2>1, <3>1 DEF Permitted
  <2>2. ASSUME t \in Permitted(After(k)) PROVE \E i \in 1..14 : 2 * i <= k /\ t = Tables[i]
    <3>1. PICK x \in After(k) : x.op = "permit" /\ t = x.table
      BY <2>2 DEF Permitted
    <3>2. PICK j \in 1..k : AllSteps[j] = x
      BY <1>1, <3>1
    <3>3. \E i \in 1..14 : j = 2 * i /\ x.table = Tables[i]
      BY <1>2, <3>1, <3>2, Kinds
    <3>. QED BY <1>2, <3>1, <3>3
  <2>. QED BY <2>1, <2>2
<1>7. ASSUME NEW r \in Related(After(k))
      PROVE  \E n \in 1..21 : 28 + n <= k /\ r = AllSteps[28 + n]
  <2>1. r \in After(k) /\ r.op = "relate"
    BY DEF Related
  <2>2. PICK j \in 1..k : AllSteps[j] = r
    BY <1>1, <2>1
  <2>3. \E n \in 1..21 : j = 28 + n
    BY <1>2, <2>1, <2>2, Kinds
  <2>. QED BY <1>2, <2>2, <2>3
<1>. QED BY <1>5, <1>6, <1>7

\* Hasura refuses none of them.
LEMMA NoneRefused ==
    ASSUME NEW k \in 1..50
    PROVE  ~Refuses(AllSteps[k], After(k - 1), Present(Folders))
<1> DEFINE done == After(k - 1)
           step == AllSteps[k]
<1>1. k - 1 \in 0..50
  OBVIOUS
<1>2. /\ \A t : t \in Tracked(done) <=> \E i \in 1..14 : 2 * i - 1 <= k - 1 /\ t = Tables[i]
      /\ \A r \in Related(done) : \E n \in 1..21 : 28 + n <= k - 1 /\ r = AllSteps[28 + n]
  BY <1>1, MetadataAfter
<1> HIDE DEF done
<1>3. ASSUME NEW i \in 1..14, k = 2 * i - 1, step.op = "track", step.table = Tables[i]
      PROVE  ~Refuses(step, done, Present(Folders))
  <2>1. \A n \in 1..14 : 2 * n - 1 <= k - 1 => n # i
    BY <1>3
  <2>2. Tables[i] \notin Tracked(done)
    BY <1>2, <2>1, TablesListed
  <2>3. Tables[i] \in Present(Folders)
    BY TablesListed
  <2>. QED BY <1>3, <2>2, <2>3 DEF Refuses
<1>4. ASSUME NEW i \in 1..14, k = 2 * i, step.op = "permit", step.table = Tables[i]
      PROVE  ~Refuses(step, done, Present(Folders))
  <2>1. Tables[i] \in Tracked(done)
    BY <1>2, <1>4
  <2>. QED BY <1>4, <2>1 DEF Refuses
<1>5. ASSUME k > 28 PROVE \A i \in 1..14 : Tables[i] \in Tracked(done)
  BY <1>2, <1>5
<1>6. ASSUME NEW n \in 1..21, k = 28 + n, step.op = "relate"
      PROVE  ~Refuses(step, done, Present(Folders))
  <2>1. /\ step.table = Named[n][1] /\ step.name = Named[n][2]
        /\ \E i \in 1..14 : Tables[i] = step.table
        /\ \E i \in 1..14 : Tables[i] = step.remote
    BY <1>6, RelationshipsNamed
  <2>2. {step.table, step.remote} \subseteq Tracked(done)
    BY <1>5, <1>6, <2>1
  <2>3. ASSUME NEW r \in Related(done), r.table = step.table, r.name = step.name PROVE FALSE
    <3>1. PICK m \in 1..21 : 28 + m <= k - 1 /\ r = AllSteps[28 + m]
      BY <1>2
    <3>2. r.table = Named[m][1] /\ r.name = Named[m][2]
      BY <3>1, RelationshipsNamed
    <3>3. m = n
      BY <2>1, <2>3, <3>2, NamesDiffer
    <3>. QED BY <1>6, <3>1, <3>3
  <2>. QED BY <1>6, <2>2, <2>3 DEF Refuses
<1>7. ASSUME k = 50, step.op = "function", step.returns = Tables[1]
      PROVE  ~Refuses(step, done, Present(Folders))
  <2>1. Tables[1] \in Tracked(done)
    BY <1>5, <1>7
  <2>. QED BY <1>7, <2>1 DEF Refuses
<1>. QED BY <1>3, <1>4, <1>6, <1>7, Kinds DEF done

\* So it goes to the end, ...
LEMMA AcceptsAll == AcceptedOver[Folders] = 50
<1>1. AcceptedOver[Folders] = Accepted(Present(Folders))
  BY DEF AcceptedOver
<1>2. Len(AllSteps) = 50 /\ DOMAIN AllSteps = 1..50
  BY StepsListed
<1> DEFINE steps == Steps(Present(Folders))
           refused == {i \in DOMAIN steps :
                         Refuses(steps[i], ToSet(SubSeq(steps, 1, i - 1)), Present(Folders))}
<1>3. steps = AllSteps
  BY DEF AllSteps
<1>4. Accepted(Present(Folders)) =
        IF refused = {} THEN Len(steps)
        ELSE (CHOOSE i \in refused : \A j \in refused : i <= j) - 1
  BY DEF Accepted
<1>5. refused = {}
  <2>1. ASSUME NEW i \in 1..50
        PROVE  ~Refuses(AllSteps[i], ToSet(SubSeq(AllSteps, 1, i - 1)), Present(Folders))
    BY NoneRefused DEF After
  <2> HIDE DEF steps
  <2>. QED BY <1>2, <1>3, <2>1
<1> HIDE DEF refused, steps
<1>. QED BY <1>1, <1>2, <1>3, <1>4, <1>5

\* ... where every table can be read and every key followed both ways.
LEMMA WholeAfterAll == CompleteAfter[50]
<1>1. Len(AllSteps) = 50
  BY StepsListed
<1>2. CompleteAfter[50] =
        /\ 50 = Len(AllSteps) /\ Tracked(After(50)) = Permitted(After(50))
        /\ \A fk \in ToSet(ForeignKeys) :
             /\ Relationship(fk[2], fk[1], fk[1]) \in After(50)
             /\ Relationship(fk[1], Singular[fk[2]], fk[2]) \in After(50)
  BY <1>1 DEF CompleteAfter, After
<1>3. Tracked(After(50)) = Permitted(After(50))
  <2>1. \A i \in 1..14 : 2 * i - 1 <= 50 /\ 2 * i <= 50
    OBVIOUS
  <2>2. \A t : t \in Tracked(After(50)) <=> t \in Permitted(After(50))
    BY <2>1, MetadataAfter
  <2>. QED BY <2>2 DEF Tracked, Permitted
<1>4. ASSUME NEW fk \in ToSet(ForeignKeys)
      PROVE  /\ Relationship(fk[2], fk[1], fk[1]) \in After(50)
             /\ Relationship(fk[1], Singular[fk[2]], fk[2]) \in After(50)
  <2>1. PICK i \in 1..9 : fk = ForeignKeys[i]
    BY KeysListed DEF ToSet
  <2>2. /\ AllSteps[28 + (2 * i - 1)] = Relationship(fk[2], fk[1], fk[1])
        /\ AllSteps[28 + 2 * i] = Relationship(fk[1], Singular[fk[2]], fk[2])
    BY <2>1, StepsListed DEF OfKey
  <2>3. 28 + (2 * i - 1) \in 1..50 /\ 28 + 2 * i \in 1..50
    OBVIOUS
  <2>4. \A x : x \in After(50) <=> \E j \in 1..50 : AllSteps[j] = x
    BY AfterHas
  <2>. QED BY <2>2, <2>3, <2>4, Zenon
<1>. QED BY <1>1, <1>2, <1>3, <1>4

\* Tables that keep what those of colour c hold, and whose timings are not null
\* but for a bootstrap's.
Kept(c, tables) ==
    /\ tables \in [CacheNames -> Seq(Row)]
    /\ \A t \in CacheNames : tables[t] \in Seq(RowsIn(t)) /\ Holds(rows[c][t], tables[t])
    /\ NullBlind(tables["strategy_timings"])

\* The lookups of an event keep the tables ...
LEMMA LookedKept ==
    ASSUME VarTypes, RowsFit, NullsBlind,
           NEW c \in Colors, NEW k \in 1..N, NEW prices \in Seq(1..N),
           NEW looked \in Looked(c, k, prices)
    PROVE  Kept(c, looked)
<1>1. rows \in [Colors -> [CacheNames -> Seq(Row)]]
  BY DEF VarTypes
<1>2. /\ looked \in [CacheNames -> Seq(Row)]
      /\ \A t \in CacheNames : looked[t] \in Seq(RowsIn(t)) /\ Holds(rows[c][t], looked[t])
      /\ looked["strategy_timings"] = rows[c]["strategy_timings"]
  BY <1>1, LookedKeeps
<1>3. NullBlind(looked["strategy_timings"])
  BY <1>2 DEF NullsBlind
<1>. QED BY <1>2, <1>3 DEF Kept

\* ... also where the timings are stored.
LEMMA PoolLookedKept ==
    ASSUME VarTypes, RowsFit, NullsBlind, NEW c \in Colors, NEW tables \in PoolLooked(c)
    PROVE  Kept(c, tables)
<1>1. 1 \in 1..N /\ <<1>> \in Seq(1..N)
  BY KeysNumbered
<1>2. CASE tables \in Looked(c, 1, <<1>>)
  BY <1>1, <1>2, LookedKept
<1>3. CASE StoresTimings(c)
  <2> DEFINE none == rows[c]["strategy_timings"]
             one == <<1>>
  <2>1. PICK looked \in Looked(c, 1, <<1>>), times \in Written(none, RowsOf(one, TimesRead(c))) :
           tables = [looked EXCEPT !["strategy_timings"] = times]
    BY <1>3 DEF PoolLooked
  <2>2. Kept(c, looked)
    BY <1>1, LookedKept
  <2>3. none = <<>> /\ TimesRead(c) = "contract"
    BY <1>3 DEF StoresTimings, TimesRead
  <2>4. none \in Seq(TimesRows) /\ one \in Seq(1..N) /\ Len(none) = 0
    BY <1>1, <2>3
  <2>5. \A x \in 1..N : <<x, "contract">> \in TimesRows
    BY DEF TimesRows
  <2> HIDE DEF none, one
  <2>6. /\ times \in Seq(TimesRows)
        /\ \A i \in 1..Len(times) : times[i][2] = "contract" \/ \E j \in 1..Len(none) : times[i] = none[j]
    <3>1. times \in Written(none, RowsOf(one, "contract"))
      BY <2>1, <2>3
    <3>2. PICK S, K : S = TimesRows /\ K = 1..N
      OBVIOUS
    <3>3. none \in Seq(S) /\ one \in Seq(K) /\ \A x \in K : <<x, "contract">> \in S
      BY <2>4, <2>5, <3>2
    <3>4. Upserted(S, none, "contract", times)
      BY <3>1, <3>3, UpsertKeeps
    <3>. QED BY <3>2, <3>4 DEF Upserted
  <2>7. \A i \in 1..Len(times) : times[i][2] = "contract"
    BY <2>4, <2>6
  <2>8. NullBlind(times) /\ Holds(none, times) /\ times \in Seq(Row)
    BY <2>4, <2>6, <2>7 DEF NullBlind, Holds, Row
  <2>9. /\ tables \in [CacheNames -> Seq(Row)] /\ tables["strategy_timings"] = times
        /\ \A t \in CacheNames \ {"strategy_timings"} : tables[t] = looked[t]
    BY <2>1, <2>2, <2>8 DEF Kept, CacheNames
  <2>. QED BY <2>2, <2>6, <2>8, <2>9 DEF Kept, RowsIn, none
<1>. QED BY <1>2, <1>3 DEF PoolLooked

\* The tables of a colour may stay as they are.
LEMMA SelfKept ==
    ASSUME VarTypes, RowsFit, NullsBlind, NEW c \in Colors
    PROVE  Kept(c, rows[c])
<1>1. rows[c] \in [CacheNames -> Seq(Row)]
  BY DEF VarTypes
<1>2. \A t \in CacheNames : Holds(rows[c][t], rows[c][t])
  BY <1>1, BeginsSelf
<1>. QED BY <1>1, <1>2 DEF Kept, RowsFit, NullsBlind

\* The copy, and what it leaves alone.
LEMMA CopyFacts ==
    ASSUME IInv, script.at \in Copying \ {"done"}
    PROVE  /\ script \in Scripts /\ script.color \in Colors /\ Target \in Colors
           /\ Target # script.color
           /\ script.table \in 1..3 /\ Table \in CacheNames
           /\ Source \in Seq(RowsIn(Table)) /\ rows[Target][Table] \in Seq(RowsIn(Table))
           /\ rows \in [Colors -> [CacheNames -> Seq(Row)]]
           /\ \A i \in 1..3 : i # script.table => CacheTables[i] # Table
<1>1. script \in Scripts /\ script.color \in Colors
  BY DEF IInv, VarTypes, Scripts
<1>2. Target \in Colors /\ Target # script.color
  BY <1>1 DEF Target, Other, Colors
<1>3. script.table \in 1..3
  BY DEF IInv, CopyStands
<1>4. Table \in CacheNames
  BY <1>3, TableNames DEF Table
<1>5. \A i, j \in 1..3 : i # j => CacheTables[i] # CacheTables[j]
  <2>1. \A i \in 1..3 : i = 1 \/ i = 2 \/ i = 3
    OBVIOUS
  <2>. QED BY <2>1, TableNames
<1>. QED BY <1>1, <1>2, <1>3, <1>4, <1>5 DEF IInv, RowsFit, VarTypes, Source, Table

\* What the step of a service does: every row is kept, and none of the table that is
\* being copied moves unless the copy is marked, the only thing that happens to it.
RowsKept ==
    /\ rows' \in [Colors -> [CacheNames -> Seq(Row)]]
    /\ \A d \in Colors : Kept(d, rows'[d])
    /\ script.at \in {"fetch", "insert"} /\ ~script'.touched
         => Begins(Source, rows'[script.color][Table])
    /\ script' = [script EXCEPT !.touched = script'.touched]
    /\ script'.touched \in BOOLEAN /\ (script.touched => script'.touched)

\* A service that writes nothing.
LEMMA NothingWritten ==
    ASSUME IInv, UNCHANGED <<rows, script>>
    PROVE  RowsKept
<1>1. \A d \in Colors : Kept(d, rows'[d])
  BY SelfKept DEF IInv
<1>2. script.at \in {"fetch", "insert"} => Begins(Source, rows'[script.color][Table])
  <2> SUFFICES ASSUME script.at \in {"fetch", "insert"}
               PROVE  Begins(Source, rows'[script.color][Table])
    OBVIOUS
  <2>1. Source \in Seq(RowsIn(Table))
    BY CopyFacts DEF Copying
  <2>. QED BY <2>1, BeginsSelf DEF Source
<1>3. script.touched \in BOOLEAN /\ script' = [script EXCEPT !.touched = script.touched]
  BY DEF IInv, VarTypes, Scripts
<1>. QED BY <1>1, <1>2, <1>3 DEF RowsKept, IInv, VarTypes

\* A service that writes to the tables of its colour.
LEMMA WritesKept ==
    ASSUME IInv, NEW c \in Colors, NEW tables, Kept(c, tables), Writes(c, tables)
    PROVE  RowsKept
<1>1. /\ rows \in [Colors -> [CacheNames -> Seq(Row)]] /\ tables \in [CacheNames -> Seq(Row)]
      /\ rows' = [rows EXCEPT ![c] = tables]
  BY DEF IInv, VarTypes, Kept, Writes
<1>2. /\ rows' \in [Colors -> [CacheNames -> Seq(Row)]] /\ rows'[c] = tables
      /\ \A d \in Colors \ {c} : rows'[d] = rows[d]
  BY <1>1
<1>3. \A d \in Colors : Kept(d, rows'[d])
  BY <1>2, SelfKept DEF IInv
<1> DEFINE moves == /\ script.at \in {"fetch", "insert"} /\ script.color = c
                    /\ ~IsPrefix(Source, tables[Table])
           value == script.touched \/ moves
<1>4. script' = [script EXCEPT !.touched = value]
  BY DEF Writes
<1>5. ASSUME script.at \in {"fetch", "insert"}, ~moves
      PROVE  Begins(Source, rows'[script.color][Table])
  <2>1. Source \in Seq(RowsIn(Table)) /\ Table \in CacheNames /\ script.color \in Colors
    BY <1>5, CopyFacts DEF Copying
  <2>2. CASE script.color = c
    <3>1. tables[Table] \in Seq(RowsIn(Table))
      BY <2>1 DEF Kept
    <3>2. IsPrefix(Source, tables[Table])
      BY <1>5, <2>2
    <3>3. Begins(Source, tables[Table])
      BY <2>1, <3>1, <3>2, PrefixBegins
    <3>. QED BY <1>2, <2>2, <3>3
  <2>3. CASE script.color # c
    <3>1. rows'[script.color][Table] = Source
      BY <1>2, <2>1, <2>3 DEF Source
    <3>. QED BY <2>1, <3>1, BeginsSelf
  <2>. QED BY <2>2, <2>3
<1> HIDE DEF moves
<1>6. value \in BOOLEAN /\ (script.touched => value) /\ (~value => ~moves)
  <2>1. script.touched \in BOOLEAN
    BY DEF IInv, VarTypes, Scripts
  <2>2. value \in BOOLEAN
    BY <2>1, Zenon
  <2>. QED BY <2>2
<1>7. script'.touched = value
  BY <1>4 DEF IInv, VarTypes, Scripts
<1> HIDE DEF value
<1>. QED BY <1>2, <1>3, <1>4, <1>5, <1>6, <1>7 DEF RowsKept

\* A step of the loop of a service, of its process or of its operator's luck.
ServiceMoves(c) == ServiceStep(c) \/ CommitFails(c) \/ Settle(c) \/ Crash(c)

\* Every step of a service keeps the rows.
LEMMA ServiceKeepsRows ==
    ASSUME IInv, NEW c \in Colors, ServiceMoves(c)
    PROVE  RowsKept
<1>1. CASE UNCHANGED <<rows, script>>
  BY <1>1, NothingWritten
<1> DEFINE k == proc[c].event
<1>2. VarTypes /\ RowsFit /\ NullsBlind
  BY DEF IInv
<1>3. proc[c] \in Services /\ (proc[c].at \in {"fetched", "batch"} => k \in 1..N)
  BY DEF IInv, VarTypes, Services, InHand, Holding
<1>4. CASE Prefetch(c)
  <2>1. k \in 1..N
    BY <1>3, <1>4 DEF Prefetch
  <2>2. PICK prices \in {<<k>>, [i \in 1..k |-> i]} :
            \E tables \in Looked(c, k, prices) : Writes(c, tables)
    BY <1>4 DEF Prefetch
  <2>3. prices \in Seq(1..N)
    <3>1. <<k>> \in Seq(1..N)
      BY <2>1
    <3>2. \A i \in 1..k : i \in 1..N
      BY <2>1, DeployAssumption
    <3> HIDE DEF k
    <3>3. k \in Nat /\ [i \in 1..k |-> i] \in [1..k -> 1..N]
      BY <2>1, <3>2, DeployAssumption
    <3>4. [i \in 1..k |-> i] \in Seq(1..N)
      BY <3>3
    <3>. QED BY <3>1, <3>4
  <2>. QED BY <1>2, <2>1, <2>2, <2>3, LookedKept, WritesKept
<1>5. CASE Handle(c)
  <2>1. k \in 1..N
    BY <1>3, <1>5 DEF Handle
  <2>2. PICK tables : /\ Writes(c, tables)
                      /\ \/ tables \in PoolLooked(c) \/ tables \in Looked(c, k, <<k>>)
                         \/ tables = rows[c]
    BY <1>5 DEF Handle
  <2>3. <<k>> \in Seq(1..N)
    BY <2>1
  <2>4. Kept(c, tables)
    BY <1>2, <2>1, <2>2, <2>3, LookedKept, PoolLookedKept, SelfKept
  <2>. QED BY <2>2, <2>4, WritesKept
<1>. QED BY <1>1, <1>4, <1>5
         DEF ServiceMoves, ServiceStep, Boot, ReadPointer, Commit, CommitFails, Settle, Crash
-----------------------------------------------------------------------------
(* The processing tables of a colour and the service that writes to them.    *)

\* What tables l and service p must agree on, with the tables created late or not,
\* there or not, and after a bootstrap that stored null or not.
OpenOf(p) == IF p.at = "commit" THEN {p.event} ELSE {}
Fits(l, p, isLate, has, isBlind) ==
    /\ l \in Ledgers /\ p \in Services
    /\ p.at \in Holding <=> p.event # 0
    /\ ~has => l = NoLedger
    /\ has /\ ~isLate /\ p.at \in {"fetched", "batch"} => p.event = l.pointer + 1
    /\ p.at = "commit" => has /\ p.event = l.pointer
    /\ "null" \in {l.times, p.times} => isBlind
    /\ ~isLate => 1..l.pointer = l.handled \cup l.failed \cup l.lost \cup OpenOf(p)

\* Those of both colours agree ...
LEMMA BothFit ==
    ASSUME IInv
    PROVE  \A c \in Colors : Fits(ledger[c], proc[c], late[c], HasProcessing(c), blind)
<1> SUFFICES ASSUME NEW c \in Colors
             PROVE  Fits(ledger[c], proc[c], late[c], HasProcessing(c), blind)
  OBVIOUS
<1>1. ledger[c] \in Ledgers /\ proc[c] \in Services
  BY DEF IInv, VarTypes
<1>2. Open(c) = OpenOf(proc[c])
  BY DEF Open, OpenOf
<1>. QED BY <1>1, <1>2 DEF IInv, InHand, AppliedFromStart, TimesFromContract, Fits

\* ... which is what a step has to show.
ServiceStands == /\ proc' \in [Colors -> Services] /\ ledger' \in [Colors -> Ledgers]
                 /\ InHand' /\ AppliedFromStart' /\ TimesFromContract'

LEMMA AllFit ==
    ASSUME ledger' = [c \in Colors |-> ledger'[c]], proc' = [c \in Colors |-> proc'[c]],
           \A c \in Colors : Fits(ledger'[c], proc'[c], late'[c], HasProcessing(c)', blind')
    PROVE  ServiceStands
<1>1. \A c \in Colors : ledger'[c] \in Ledgers /\ proc'[c] \in Services
  BY DEF Fits
<1>2. proc' \in [Colors -> Services] /\ ledger' \in [Colors -> Ledgers]
  BY <1>1
<1>3. \A c \in Colors : Open(c)' = OpenOf(proc'[c])
  BY DEF Open, OpenOf
<1>4. InHand'
  BY DEF InHand, Fits
<1>5. AppliedFromStart'
  BY <1>3 DEF AppliedFromStart, Fits
<1>6. TimesFromContract'
  BY DEF TimesFromContract, Fits
<1>. QED BY <1>2, <1>4, <1>5, <1>6 DEF ServiceStands

\* Processes end, with what they have open.
LEMMA EndStands ==
    ASSUME IInv, NEW colors, End(colors), UNCHANGED <<migrated, late, blind>>
    PROVE  ServiceStands
<1> DEFINE Lost(l, p) == IF p.at = "commit" THEN [l EXCEPT !.lost = @ \cup {p.event}] ELSE l
<1>1. ASSUME NEW l, NEW p, NEW isLate, NEW has, NEW isBlind, Fits(l, p, isLate, has, isBlind)
      PROVE  Fits(Lost(l, p), Off, isLate, has, isBlind)
  <2>1. /\ Off \in Services /\ Off.at = "off" /\ Off.event = 0 /\ Off.times = "none"
        /\ N \in Nat
    BY DeployAssumption DEF Off, Services, Times
  <2>2. l \in Ledgers /\ p \in Services /\ p.event \in Nat
    BY <1>1, <2>1 DEF Fits, Services
  <2>3. OpenOf(Off) = {}
    BY <2>1 DEF OpenOf
  <2>4. CASE p.at = "commit"
    <3> DEFINE new == [l EXCEPT !.lost = @ \cup {p.event}]
    <3>1. /\ new \in Ledgers /\ new.lost = l.lost \cup {p.event} /\ new.times = l.times
          /\ new.pointer = l.pointer /\ new.handled = l.handled /\ new.failed = l.failed
      BY <2>2 DEF Ledgers
    <3>2. OpenOf(p) = {p.event} /\ Lost(l, p) = new
      BY <2>4 DEF OpenOf
    <3> HIDE DEF new
    <3>3. ~isLate => 1..new.pointer = new.handled \cup new.failed \cup new.lost \cup OpenOf(Off)
      BY <1>1, <2>3, <3>1, <3>2 DEF Fits
    <3> HIDE DEF Lost
    <3>. QED BY <1>1, <2>1, <2>4, <3>1, <3>2, <3>3 DEF Fits, Holding
  <2>5. CASE p.at # "commit"
    <3>1. OpenOf(p) = {} /\ Lost(l, p) = l
      BY <2>5 DEF OpenOf
    <3> HIDE DEF Lost
    <3>. QED BY <1>1, <2>1, <2>3, <3>1 DEF Fits, Holding
  <2>. QED BY <2>4, <2>5
<1>2. /\ proc' = [c \in Colors |-> IF c \in colors THEN Off ELSE proc[c]]
      /\ ledger' = [c \in Colors |-> IF c \in colors THEN Lost(ledger[c], proc[c]) ELSE ledger[c]]
  BY DEF End
<1> HIDE DEF Lost
<1>3. \A c \in Colors : Fits(ledger'[c], proc'[c], late'[c], HasProcessing(c)', blind')
  BY <1>1, <1>2, BothFit DEF HasProcessing
<1>4. ledger' = [c \in Colors |-> ledger'[c]] /\ proc' = [c \in Colors |-> proc'[c]]
  BY <1>2
<1>. QED BY <1>3, <1>4, AllFit
-----------------------------------------------------------------------------
(* What a step of the operator does to the databases, the services and the   *)
(* scripts.                                                                  *)

\* Services go on or end; nothing else happens to the databases.
Deploys ==
    /\ UNCHANGED <<migrated, rows, script, api, late, blind>>
    /\ UNCHANGED <<proc, ledger>> \/ \E colors : End(colors)

\* A folder of migrations is applied, or rolled back.
Migrates(c, folder) ==
    /\ folder \notin migrated[c] /\ Latest(c, folder)
    /\ late' = IF folder # "processing" THEN late
               ELSE [late EXCEPT ![c] = proc[c].event > 1]
    /\ UNCHANGED <<ledger, rows, proc, script, api, blind>>

Resets(c, folder) ==
    /\ folder = "processing" => proc[c].at # "commit"
    /\ RolledBack(c, folder) /\ UNCHANGED <<proc, script, api, late, blind>>

\* What was looked up is added to a table.
Fills(c, t, keys) ==
    /\ \E table \in Written(rows[c][t], RowsOf(SetToSeq(keys), "doc")) :
          rows' = [rows EXCEPT ![c][t] = table]
    /\ UNCHANGED <<migrated, ledger, proc, script, api, late, blind>>

\* A script starts that goes on by itself.
Starts(c) ==
    /\ \/ \E known, missing \in BOOLEAN :
            script' = [NoScript EXCEPT !.at = "timings", !.color = c, !.knows = known,
                                       !.missing = missing]
       \/ script' = [NoScript EXCEPT !.at = "truncate", !.color = c]
    /\ UNCHANGED <<migrated, ledger, rows, proc, api, late, blind>>

\* The API is configured, to the end or not.
Configures(c) ==
    /\ \E entry : /\ api' = [api EXCEPT ![c] = entry]
                  /\ entry.over = Folders /\ ~entry.cut => entry.done = AcceptedOver[Folders]
    /\ UNCHANGED <<migrated, ledger, rows, proc, script, late, blind>>

Commanded ==
    \/ Deploys
    \/ \E c \in Colors, folder \in Folders : Migrates(c, folder) \/ Resets(c, folder)
    \/ \E c \in Colors, t \in {"price_cache", "metadata_cache"}, keys \in SUBSET (1..N) :
          Fills(c, t, keys)
    \/ \E c \in Colors : Starts(c) \/ Configures(c)

\* terraform apply
LEMMA ApplyDeploys ==
    ASSUME NEW a, NEW s, NEW images, Apply(a, s, images)
    PROVE  Deploys
BY DEF Apply, Deploys, histVars

\* A command that does nothing.
LEMMA NothingDeploys == ASSUME Nothing PROVE Deploys
BY DEF Nothing, Deploys, dbVars, histVars

\* A command of the runbook is one of those.
LEMMA RunCommanded ==
    ASSUME VarTypes, NEW k \in Commands, NEW fails \in BOOLEAN, Run(k, fails)
    PROVE  Commanded
<1>1. CASE k.command = "create" /\ CreateDatabases(fails)
  BY <1>1 DEF CreateDatabases, Commanded, Deploys, histVars
<1>2. CASE k.command = "deploy-to-aws" /\ DeployToAws(k.images)
  BY <1>2, ApplyDeploys DEF DeployToAws, Commanded
<1>3. CASE k.command = "deploy" /\ DeployBlueGreen(k.color, k.images)
  BY <1>3, ApplyDeploys, NothingDeploys DEF DeployBlueGreen, Commanded
<1>4. CASE k.command = "promote" /\ PromoteBlueGreen(k.color)
  BY <1>4, ApplyDeploys, NothingDeploys DEF PromoteBlueGreen, Commanded
<1>5. CASE k.command = "destroy" /\ DestroyBlueGreen(k.color)
  BY <1>5, ApplyDeploys, NothingDeploys DEF DestroyBlueGreen, Commanded
<1> DEFINE c == k.color
           folder == k.folder
<1>6. k.command \notin {"create", "deploy-to-aws"} => c \in Colors
  BY DEF Commands
<1>7. k.command \in {"migrate", "reset"} => folder \in Folders
  BY DEF Commands
<1> HIDE DEF c, folder
<1>8. CASE k.command = "migrate" /\ Migrate(c, folder)
  <2>1. Nothing \/ Migrates(c, folder)
    BY <1>8 DEF Migrate, Migrates, deployVars
  <2>. QED BY <1>6, <1>7, <1>8, <2>1, NothingDeploys DEF Commanded
<1>9. CASE k.command = "reset" /\ Reset(c, folder)
  <2>1. Nothing \/ Resets(c, folder)
    BY <1>9 DEF Reset, Resets, deployVars, histVars
  <2>. QED BY <1>6, <1>7, <1>9, <2>1, NothingDeploys DEF Commanded
<1>10. ASSUME c \in Colors, NEW t \in {"price_cache", "metadata_cache"}, Fill(c, t, fails)
       PROVE  Commanded
  <2> DEFINE missing == KeysOf[t] \ Keys(c, t)
  <2>1. missing \in SUBSET (1..N)
    BY KeysNumbered DEF CacheNames
  <2> HIDE DEF missing
  <2>2. Nothing \/ \E found \in SUBSET missing : Fills(c, t, found)
    <3>1. CASE ~HasCache(c)
      BY <1>10, <3>1 DEF Fill
    <3>2. CASE HasCache(c)
      <4>1. PICK found \in IF fails THEN SUBSET missing ELSE {missing} :
               \E table \in Written(rows[c][t], RowsOf(SetToSeq(found), "doc")) :
                  rows' = [rows EXCEPT ![c][t] = table]
        BY <1>10, <3>2 DEF Fill, missing
      <4>2. found \in SUBSET missing
        OBVIOUS
      <4>. QED BY <1>10, <3>2, <4>1, <4>2 DEF Fill, Fills, histVars
    <3>. QED BY <3>1, <3>2
  <2>. QED BY <1>10, <2>1, <2>2, NothingDeploys DEF Commanded
<1>11. CASE k.command = "metadata" /\ BootstrapMetadata(c, fails)
  BY <1>6, <1>10, <1>11 DEF BootstrapMetadata
<1>12. CASE k.command = "pricing" /\ BootstrapPricing(c, fails)
  BY <1>6, <1>10, <1>12 DEF BootstrapPricing
<1>13. CASE k.command = "timings" /\ BootstrapTimings(c)
  <2>1. Nothing \/ Starts(c)
    BY <1>13 DEF BootstrapTimings, Starts, dbVars, histVars
  <2>. QED BY <1>6, <1>13, <2>1, NothingDeploys DEF Commanded
<1>14. CASE k.command = "copy" /\ CopyCache(c)
  <2>1. Starts(c)
    BY <1>14 DEF CopyCache, Starts, dbVars, histVars
  <2>. QED BY <1>6, <1>14, <2>1 DEF Commanded
<1>15. CASE k.command = "configure" /\ Configure(c, fails)
  <2>1. Nothing \/ Configures(c)
    <3>1. CASE c \notin created \/ ~Deployed(active, state, c)
      BY <1>15, <3>1 DEF Configure
    <3>2. CASE ~(c \notin created \/ ~Deployed(active, state, c))
      <4>1. PICK cut \in IF fails THEN Cuts ELSE {AcceptedOver[migrated[c]]} :
               /\ cut <= AcceptedOver[migrated[c]]
               /\ api' = [api EXCEPT ![c] = [done |-> cut, over |-> migrated[c],
                                             cut |-> cut < AcceptedOver[migrated[c]]]]
        BY <1>15, <3>2 DEF Configure
      <4> DEFINE accepted == AcceptedOver[migrated[c]]
                 entry == [done |-> cut, over |-> migrated[c], cut |-> cut < accepted]
      <4>2. entry.over = Folders /\ ~entry.cut => entry.done = AcceptedOver[Folders]
        <5> SUFFICES ASSUME migrated[c] = Folders, ~(cut < accepted) PROVE cut = accepted
          OBVIOUS
        <5>1. accepted \in Nat
          BY AcceptsAll
        <5>2. cut = accepted \/ cut \in Nat
          BY DeployAssumption
        <5>. QED BY <4>1, <5>1, <5>2
      <4> HIDE DEF entry
      <4>3. api' = [api EXCEPT ![c] = entry]
        BY <4>1 DEF entry
      <4>. QED BY <1>15, <3>2, <4>2, <4>3 DEF Configure, Configures, dbVars, histVars
    <3>. QED BY <3>1, <3>2
  <2>. QED BY <1>6, <1>15, <2>1, NothingDeploys DEF Commanded
<1>. QED BY <1>1, <1>2, <1>3, <1>4, <1>5, <1>8, <1>9, <1>11, <1>12, <1>13, <1>14, <1>15
         DEF Run, c, folder
-----------------------------------------------------------------------------
(* The commands of the operator preserve the invariant. *)

\* The script that does nothing.
LEMMA NoScriptFits ==
    /\ NoScript \in Scripts /\ NoScript.at = "idle" /\ NoScript.buffer = <<>>
    /\ NoScript.table = 1 /\ NoScript.start = [i \in 1..3 |-> {}]
<1>1. DOMAIN CacheTables = 1..3
  BY TableNames
<1>2. [i \in 1..3 |-> {}] \in [1..3 -> SUBSET Row]
  OBVIOUS
<1>. QED BY <1>1, <1>2 DEF NoScript, Scripts, Colors

\* A command takes a step of the runbook or one more, when no script is running.
LEMMA OperatorCommands ==
    ASSUME VarTypes, Operator
    PROVE  script.at = "idle" /\ next' \in Nat \ {0} /\ Commanded
<1>1. script.at = "idle" /\ (FollowRunbook \/ ExtraCommand)
  BY DEF Operator
<1>2. Runbook \in Seq(Commands) /\ next \in Nat \ {0}
  BY DeployAssumption DEF VarTypes
<1>3. CASE FollowRunbook
  <2>1. next \in 1..Len(Runbook) /\ next' = next + 1
    BY <1>2, <1>3 DEF FollowRunbook
  <2>2. Runbook[next] \in Commands
    BY <1>2, <2>1
  <2>3. Nothing \/ \E fails \in BOOLEAN : Run(Runbook[next], fails)
    BY <1>3 DEF FollowRunbook
  <2>4. Commanded
    BY <2>2, <2>3, RunCommanded, NothingDeploys DEF Commanded
  <2>. QED BY <1>1, <1>2, <2>1, <2>4
<1>4. CASE ExtraCommand
  <2>1. PICK k \in ToSet(Runbook) : Run(k, FALSE)
    BY <1>4 DEF ExtraCommand
  <2>2. k \in Commands
    BY <1>2 DEF ToSet
  <2>3. next' = next
    BY <1>4 DEF ExtraCommand
  <2>. QED BY <1>1, <1>2, <2>1, <2>2, <2>3, RunCommanded
<1>. QED BY <1>1, <1>3, <1>4

\* Where nothing happens to tables and scripts.
Quiet == UNCHANGED <<rows, script, blind>>

\* What the tables and the scripts are in stays.
LEMMA QuietKeeps ==
    ASSUME RowsFit, NullsBlind, CopyStands, CopyFollowsSource, Quiet
    PROVE  RowsFit' /\ NullsBlind' /\ CopyStands' /\ CopyFollowsSource'
<1>1. RowsFit'
  BY DEF RowsFit, Quiet
<1>2. NullsBlind'
  BY DEF NullsBlind, NullBlind, Quiet
<1>3. CopyStands'
  BY DEF CopyStands, Arrived, Target, Source, Table, Quiet
<1>4. CopyFollowsSource'
  BY DEF CopyFollowsSource, Target, Quiet
<1>. QED BY <1>1, <1>2, <1>3, <1>4

\* The services go on as they are.
LEMMA ServicesGoOn ==
    ASSUME IInv, UNCHANGED <<migrated, ledger, proc, late>>, blind => blind'
    PROVE  ServiceStands
<1>1. ledger = [c \in Colors |-> ledger[c]] /\ proc = [c \in Colors |-> proc[c]]
  BY DEF IInv, VarTypes
<1>2. \A c \in Colors : Fits(ledger[c], proc[c], late[c], HasProcessing(c)', blind')
  BY BothFit DEF Fits, HasProcessing
<1>. QED BY <1>1, <1>2, AllFit

\* Services are deployed.
LEMMA DeploysOK ==
    ASSUME IInv, Deploys, next' \in Nat \ {0}
    PROVE  IInv'
<1>1. Quiet /\ UNCHANGED <<migrated, api, late, blind>>
  BY DEF Deploys, Quiet
<1>2. RowsFit' /\ NullsBlind' /\ CopyStands' /\ CopyFollowsSource'
  BY <1>1, QuietKeeps DEF IInv
<1>3. ServiceStands
  BY <1>1, EndStands, ServicesGoOn DEF Deploys
<1>4. VarTypes'
  BY <1>1, <1>3 DEF IInv, VarTypes, Quiet, ServiceStands
<1>5. ApiStands'
  BY <1>1 DEF IInv, ApiStands
<1>. QED BY <1>2, <1>3, <1>4, <1>5 DEF IInv, ServiceStands

\* A folder of migrations is applied.
LEMMA MigratesOK ==
    ASSUME IInv, NEW c \in Colors, NEW folder \in Folders, Migrates(c, folder), next' \in Nat \ {0}
    PROVE  IInv'
<1>1. Quiet /\ UNCHANGED <<ledger, proc, api>>
  BY DEF Migrates, Quiet
<1>2. RowsFit' /\ NullsBlind' /\ CopyStands' /\ CopyFollowsSource'
  BY <1>1, QuietKeeps DEF IInv
<1>3. /\ migrated' \in [Colors -> SUBSET Folders] /\ migrated'[c] = migrated[c] \cup {folder}
      /\ \A d \in Colors \ {c} : migrated'[d] = migrated[d]
  BY DEF IInv, VarTypes, Migrates, Latest
<1>4. proc[c].event \in Nat
  BY DeployAssumption DEF IInv, VarTypes, Services
<1> DEFINE b == proc[c].event > 1
<1>5. b \in BOOLEAN
  BY <1>4
<1>6. late' = IF folder # "processing" THEN late ELSE [late EXCEPT ![c] = b]
  BY DEF Migrates
<1> HIDE DEF b
<1>7. /\ late' \in [Colors -> BOOLEAN] /\ \A d \in Colors \ {c} : late'[d] = late[d]
      /\ late'[c] = IF folder # "processing" THEN late[c] ELSE b
  BY <1>5, <1>6 DEF IInv, VarTypes
<1>8. VarTypes'
  BY <1>1, <1>3, <1>7 DEF IInv, VarTypes, Quiet
<1>9. folder = "processing" => ledger[c] = NoLedger
  BY DEF IInv, InHand, HasProcessing, Migrates
<1>10. ServiceStands
  <2>1. ledger' = [d \in Colors |-> ledger'[d]] /\ proc' = [d \in Colors |-> proc'[d]]
    BY <1>1 DEF IInv, VarTypes
  <2>2. ASSUME NEW d \in Colors
        PROVE  Fits(ledger[d], proc[d], late'[d], HasProcessing(d)', blind)
    <3>1. Fits(ledger[d], proc[d], late[d], HasProcessing(d), blind)
      BY BothFit
    <3>2. CASE d = c /\ folder = "processing"
      <4>1. /\ ledger[d] = NoLedger /\ ~HasProcessing(d) /\ HasProcessing(d)' /\ late'[d] = b
        BY <1>3, <1>7, <1>9, <3>2 DEF HasProcessing, Migrates
      <4>2. proc[d].at # "commit"
        BY <3>1, <4>1 DEF Fits
      <4>3. ~b /\ proc[d].event # 0 => proc[d].event = 1
        BY <1>4, <3>2 DEF b
      <4>4. /\ NoLedger.pointer = 0 /\ NoLedger.handled = {} /\ NoLedger.failed = {}
            /\ NoLedger.lost = {} /\ 1..0 = {}
        BY DEF NoLedger
      <4>5. OpenOf(proc[d]) = {}
        BY <4>2 DEF OpenOf
      <4>. QED BY <3>1, <4>1, <4>2, <4>3, <4>4, <4>5 DEF Fits, Holding
    <3>3. CASE ~(d = c /\ folder = "processing")
      <4>1. (HasProcessing(d)' <=> HasProcessing(d)) /\ late'[d] = late[d]
        BY <1>3, <1>7, <3>3 DEF HasProcessing
      <4>. QED BY <3>1, <4>1 DEF Fits
    <3>. QED BY <3>2, <3>3
  <2>. QED BY <1>1, <2>1, <2>2, AllFit DEF Quiet
<1>11. ApiStands'
  BY <1>1 DEF IInv, ApiStands
<1>. QED BY <1>2, <1>8, <1>10, <1>11 DEF IInv, ServiceStands

\* A folder of migrations is rolled back.
LEMMA ResetsOK ==
    ASSUME IInv, NEW c \in Colors, NEW folder \in Folders, Resets(c, folder),
           script.at = "idle", next' \in Nat \ {0}
    PROVE  IInv'
<1>1. UNCHANGED <<proc, script, api, late, blind>>
  BY DEF Resets
<1>2. /\ migrated' \in [Colors -> SUBSET Folders] /\ migrated'[c] = migrated[c] \ {folder}
      /\ \A d \in Colors \ {c} : migrated'[d] = migrated[d]
  BY DEF IInv, VarTypes, Resets, RolledBack
<1>3. NoLedger \in Ledgers
  BY DEF NoLedger, Ledgers, Times
<1>4. /\ ledger' \in [Colors -> Ledgers] /\ \A d \in Colors \ {c} : ledger'[d] = ledger[d]
      /\ ledger'[c] = IF folder = "processing" THEN NoLedger ELSE ledger[c]
  BY <1>3 DEF IInv, VarTypes, Resets, RolledBack, Dropped
<1>5. NoRows \in [CacheNames -> Seq(Row)] /\ \A t \in CacheNames : NoRows[t] = <<>>
  <2>1. NoRows = [t \in CacheNames |-> <<>>]
    BY TableNames DEF NoRows
  <2>. QED BY <2>1
<1>6. /\ rows' \in [Colors -> [CacheNames -> Seq(Row)]]
      /\ \A d \in Colors : rows'[d] = rows[d] \/ rows'[d] = NoRows
  BY <1>5 DEF IInv, VarTypes, Resets, RolledBack, DroppedRows
<1>7. VarTypes'
  BY <1>1, <1>2, <1>4, <1>6 DEF IInv, VarTypes
<1>8. RowsFit'
  <2>1. \A t : <<>> \in Seq(RowsIn(t))
    OBVIOUS
  <2>2. \A d \in Colors, t \in CacheNames : rows'[d][t] = rows[d][t] \/ rows'[d][t] = <<>>
    BY <1>5, <1>6
  <2>3. \A d \in Colors, t \in CacheNames : rows'[d][t] \in Seq(RowsIn(t))
    BY <2>1, <2>2 DEF IInv, RowsFit
  <2>. QED BY <2>3 DEF RowsFit
<1>9. NullsBlind'
  <2>1. \A j \in 1..Len(<<>>) : FALSE
    OBVIOUS
  <2>2. "strategy_timings" \in CacheNames
    BY DEF CacheNames
  <2>3. \A d \in Colors : rows'[d]["strategy_timings"] = rows[d]["strategy_timings"]
                            \/ rows'[d]["strategy_timings"] = <<>>
    BY <1>5, <1>6, <2>2
  <2>. QED BY <1>1, <2>1, <2>3 DEF IInv, NullsBlind, NullBlind
<1>10. CopyStands' /\ CopyFollowsSource'
  <2>1. script.buffer = <<>>
    BY DEF IInv, CopyStands
  <2>2. CopyStands'
    BY <1>1, <2>1 DEF IInv, CopyStands, Copying
  <2>3. CopyFollowsSource'
    BY <1>1 DEF CopyFollowsSource
  <2>. QED BY <2>2, <2>3
<1>11. ServiceStands
  <2>1. ledger' = [d \in Colors |-> ledger'[d]] /\ proc' = [d \in Colors |-> proc'[d]]
    BY <1>1, <1>4 DEF IInv, VarTypes
  <2>2. ASSUME NEW d \in Colors
        PROVE  Fits(ledger'[d], proc[d], late[d], HasProcessing(d)', blind)
    <3>1. Fits(ledger[d], proc[d], late[d], HasProcessing(d), blind)
      BY BothFit
    <3>2. CASE d = c /\ folder = "processing"
      <4>1. ledger'[d] = NoLedger /\ ~HasProcessing(d)' /\ proc[d].at # "commit"
        BY <1>2, <1>4, <3>2 DEF HasProcessing, Resets
      <4>2. /\ NoLedger.pointer = 0 /\ NoLedger.handled = {} /\ NoLedger.failed = {}
            /\ NoLedger.lost = {} /\ NoLedger.times = "none" /\ 1..0 = {}
        BY DEF NoLedger
      <4>3. OpenOf(proc[d]) = {}
        BY <4>1 DEF OpenOf
      <4>. QED BY <1>3, <3>1, <4>1, <4>2, <4>3 DEF Fits
    <3>3. CASE ~(d = c /\ folder = "processing")
      <4>1. (HasProcessing(d)' <=> HasProcessing(d)) /\ ledger'[d] = ledger[d]
        BY <1>2, <1>4, <3>3 DEF HasProcessing
      <4>. QED BY <3>1, <4>1 DEF Fits
    <3>. QED BY <3>2, <3>3
  <2>. QED BY <1>1, <2>1, <2>2, AllFit
<1>12. ApiStands'
  BY <1>1 DEF IInv, ApiStands
<1>. QED BY <1>7, <1>8, <1>9, <1>10, <1>11, <1>12 DEF IInv, ServiceStands

\* What was looked up, in some order.
LEMMA KeysInOrder ==
    ASSUME NEW keys \in SUBSET (1..N)
    PROVE  SetToSeq(keys) \in Seq(1..N)
<1>1. IsFiniteSet(keys)
  <2>1. 1 \in Int /\ N \in Int
    BY DeployAssumption
  <2>2. IsFiniteSet(1..N)
    BY <2>1, FS_Interval
  <2>. QED BY <2>2, FS_Subset
<1> DEFINE n == Cardinality(keys)
<1>2. n \in Nat
  BY <1>1, FS_CardinalityType
<1>3. PICK g : g \in Bijection(1..n, keys)
  BY <1>1, FS_CardinalityType DEF ExistsBijection
<1>4. g \in [1..n -> keys] /\ IsInjective(g)
  BY <1>3 DEF Bijection, Injection, IsInjective
<1>5. SetToSeq(keys) \in [1..n -> keys]
  BY <1>4 DEF SetToSeq
<1> HIDE DEF n
<1>6. PICK S, f : S = 1..N /\ f = SetToSeq(keys)
  OBVIOUS
<1>7. f \in [1..n -> S]
  BY <1>5, <1>6
<1>8. f \in Seq(S)
  BY <1>2, <1>7
<1>. QED BY <1>6, <1>8

\* A table is filled.
LEMMA FillsOK ==
    ASSUME IInv, NEW c \in Colors, NEW t \in {"price_cache", "metadata_cache"},
           NEW keys \in SUBSET (1..N), Fills(c, t, keys),
           script.at = "idle", next' \in Nat \ {0}
    PROVE  IInv'
<1>1. UNCHANGED <<migrated, ledger, proc, script, api, late, blind>>
  BY DEF Fills
<1> DEFINE old == rows[c][t]
           found == SetToSeq(keys)
<1>2. PICK table \in Written(old, RowsOf(found, "doc")) : rows' = [rows EXCEPT ![c][t] = table]
  BY DEF Fills
<1>3. old \in Seq(DocRows) /\ found \in Seq(1..N)
  BY KeysInOrder DEF IInv, RowsFit, RowsIn, CacheNames
<1>4. \A x \in 1..N : <<x, "doc">> \in DocRows
  BY DEF DocRows
<1> HIDE DEF old, found
<1>5. table \in Seq(DocRows)
  <2>1. PICK K, S : K = 1..N /\ S = DocRows
    OBVIOUS
  <2>2. old \in Seq(S) /\ found \in Seq(K) /\ \A x \in K : <<x, "doc">> \in S
    BY <1>3, <1>4, <2>1
  <2>3. Upserted(S, old, "doc", table)
    BY <2>2, UpsertKeeps
  <2>. QED BY <2>1, <2>3 DEF Upserted
<1>6. table \in Seq(Row)
  BY <1>5 DEF Row
<1>7. rows' = [rows EXCEPT ![c][t] = table]
  BY <1>2
<1>8. /\ rows' \in [Colors -> [CacheNames -> Seq(Row)]] /\ rows'[c][t] = table
      /\ \A d \in Colors, u \in CacheNames : d # c \/ u # t => rows'[d][u] = rows[d][u]
  BY <1>6, <1>7 DEF IInv, VarTypes, CacheNames
<1>9. VarTypes'
  BY <1>1, <1>8 DEF IInv, VarTypes
<1>10. RowsFit'
  BY <1>5, <1>8 DEF IInv, RowsFit, RowsIn
<1>11. NullsBlind'
  BY <1>1, <1>8 DEF IInv, NullsBlind, NullBlind, CacheNames
<1>12. CopyStands' /\ CopyFollowsSource'
  <2>1. script.buffer = <<>>
    BY DEF IInv, CopyStands
  <2>2. CopyStands'
    BY <1>1, <2>1 DEF IInv, CopyStands, Copying
  <2>3. CopyFollowsSource'
    BY <1>1 DEF CopyFollowsSource
  <2>. QED BY <2>2, <2>3
<1>13. ServiceStands /\ ApiStands'
  BY <1>1, ServicesGoOn DEF IInv, ApiStands
<1>. QED BY <1>9, <1>10, <1>11, <1>12, <1>13 DEF IInv, ServiceStands

\* A script starts.
LEMMA StartsOK ==
    ASSUME IInv, NEW c \in Colors, Starts(c), next' \in Nat \ {0}
    PROVE  IInv'
<1>1. UNCHANGED <<migrated, ledger, rows, proc, api, late, blind>>
  BY DEF Starts
<1>2. /\ script' \in Scripts /\ script'.buffer = <<>> /\ script'.start = [i \in 1..3 |-> {}]
      /\ script'.at = "timings" \/ (script'.at = "truncate" /\ script'.table = 1)
  <2>1. "timings" \in {"idle", "timings"} \cup Copying /\ "truncate" \in Copying
    BY DEF Copying
  <2>2. CASE \E known, missing \in BOOLEAN :
                script' = [NoScript EXCEPT !.at = "timings", !.color = c, !.knows = known,
                                           !.missing = missing]
    BY <2>1, <2>2, NoScriptFits DEF Scripts
  <2>3. CASE script' = [NoScript EXCEPT !.at = "truncate", !.color = c]
    BY <2>1, <2>3, NoScriptFits DEF Scripts
  <2>. QED BY <2>2, <2>3 DEF Starts
<1>3. CopyStands' /\ CopyFollowsSource' /\ NullBlind(script.buffer)'
  <2>1. \A j \in 1..Len(<<>>) : FALSE
    OBVIOUS
  <2>2. CopyStands'
    BY <1>2 DEF CopyStands, Copying
  <2>3. CopyFollowsSource'
    BY <1>2 DEF CopyFollowsSource
  <2>4. NullBlind(script.buffer)'
    BY <1>2, <2>1 DEF NullBlind
  <2>. QED BY <2>2, <2>3, <2>4
<1>4. VarTypes' /\ RowsFit'
  BY <1>1, <1>2 DEF IInv, VarTypes, RowsFit
<1>5. NullsBlind'
  BY <1>1, <1>3 DEF IInv, NullsBlind, NullBlind
<1>6. ServiceStands /\ ApiStands'
  BY <1>1, ServicesGoOn DEF IInv, ApiStands
<1>. QED BY <1>3, <1>4, <1>5, <1>6 DEF IInv, ServiceStands

\* The API is configured.
LEMMA ConfiguresOK ==
    ASSUME IInv, NEW c \in Colors, Configures(c), next' \in Nat \ {0}
    PROVE  IInv'
<1>1. Quiet /\ UNCHANGED <<migrated, ledger, proc, late>>
  BY DEF Configures, Quiet
<1>2. RowsFit' /\ NullsBlind' /\ CopyStands' /\ CopyFollowsSource'
  BY <1>1, QuietKeeps DEF IInv
<1>3. PICK entry : /\ api' = [api EXCEPT ![c] = entry]
                   /\ entry.over = Folders /\ ~entry.cut => entry.done = AcceptedOver[Folders]
  BY DEF Configures
<1>4. DOMAIN api = Colors
  BY DEF IInv, VarTypes
<1>5. /\ api' = [d \in Colors |-> api'[d]] /\ api'[c] = entry
      /\ \A d \in Colors \ {c} : api'[d] = api[d]
  BY <1>3, <1>4
<1>6. VarTypes'
  BY <1>1, <1>5 DEF IInv, VarTypes, Quiet
<1>7. ApiStands'
  BY <1>3, <1>5 DEF IInv, ApiStands
<1>8. ServiceStands
  BY <1>1, ServicesGoOn DEF Quiet
<1>. QED BY <1>2, <1>6, <1>7, <1>8 DEF IInv, ServiceStands

\* Every command preserves the invariant.
LEMMA OperatorOK ==
    ASSUME IInv, Operator
    PROVE  IInv'
<1>1. script.at = "idle" /\ next' \in Nat \ {0} /\ Commanded
  BY OperatorCommands DEF IInv
<1>. QED BY <1>1, DeploysOK, MigratesOK, ResetsOK, FillsOK, StartsOK, ConfiguresOK DEF Commanded
-----------------------------------------------------------------------------
(* The steps of the scripts preserve the invariant.                          *)

\* A script leaves the services, the processing tables and the API alone.
LEMMA ScriptRest ==
    ASSUME IInv, UNCHANGED <<migrated, ledger, proc, api, next, late>>,
           blind' \in BOOLEAN, blind => blind',
           rows' \in [Colors -> [CacheNames -> Seq(Row)]], script' \in Scripts,
           RowsFit', NullsBlind', CopyStands', CopyFollowsSource'
    PROVE  IInv'
<1>1. VarTypes'
  BY DEF IInv, VarTypes
<1>2. ServiceStands /\ ApiStands'
  BY ServicesGoOn DEF IInv, ApiStands
<1>. QED BY <1>1, <1>2 DEF IInv, ServiceStands

\* A script ends, or fails.
LEMMA ScriptEnds ==
    ASSUME script' = NoScript
    PROVE  script' \in Scripts /\ CopyStands' /\ CopyFollowsSource' /\ script'.buffer = <<>>
<1>1. CopyStands'
  BY NoScriptFits DEF CopyStands, Copying
<1>2. CopyFollowsSource'
  BY NoScriptFits DEF CopyFollowsSource
<1>. QED BY <1>1, <1>2, NoScriptFits

\* There is no null in what is empty.
LEMMA NoneNull == \A table : table = <<>> => NullBlind(table) /\ NullBlind(table)'
BY DEF NullBlind

\* The script of the timings.
LEMMA StoreTimingsOK ==
    ASSUME IInv, StoreTimings
    PROVE  IInv'
<1> DEFINE c == script.color
           table == rows[c]["strategy_timings"]
<1>1. c \in Colors /\ script.knows \in BOOLEAN
  BY DEF IInv, VarTypes, Scripts
<1> DEFINE value == IF script.knows THEN "contract" ELSE "null"
           one == <<1>>
<1>2. /\ value \in {"contract", "null"} /\ script' = NoScript
      /\ UNCHANGED <<migrated, ledger, proc, api, next, late>>
      /\ \/ /\ \E up \in Written(table, RowsOf(one, value)) :
                  rows' = [rows EXCEPT ![c]["strategy_timings"] = up]
            /\ blind' = (blind \/ value = "null")
         \/ UNCHANGED <<rows, blind>>
  BY DEF StoreTimings
<1>3. table \in Seq(TimesRows)
  BY <1>1 DEF IInv, RowsFit, RowsIn, CacheNames
<1>4. one \in Seq(1..N)
  BY KeysNumbered
<1> HIDE DEF c, table, value, one
<1>5. CASE UNCHANGED <<rows, blind>>
  <2>1. NullBlind(script.buffer)' /\ blind' \in BOOLEAN /\ (blind => blind')
    BY <1>2, <1>5, NoScriptFits, NoneNull DEF IInv, VarTypes
  <2>2. script' \in Scripts /\ CopyStands' /\ CopyFollowsSource'
    BY <1>2, ScriptEnds
  <2>3. RowsFit' /\ NullsBlind' /\ rows' \in [Colors -> [CacheNames -> Seq(Row)]]
    BY <1>5, <2>1 DEF IInv, VarTypes, RowsFit, NullsBlind, NullBlind
  <2>. QED BY <1>2, <2>1, <2>2, <2>3, ScriptRest
<1> SUFFICES ASSUME NEW up \in Written(table, RowsOf(one, value)),
                    rows' = [rows EXCEPT ![c]["strategy_timings"] = up],
                    blind' = (blind \/ value = "null")
             PROVE  IInv'
  BY <1>2, <1>5
<1>6. /\ up \in Seq(TimesRows)
      /\ \A i \in 1..Len(up) : up[i][2] = value \/ \E j \in 1..Len(table) : up[i] = table[j]
  <2>1. PICK K, S : K = 1..N /\ S = TimesRows
    OBVIOUS
  <2>2. \A x \in K : <<x, value>> \in S
    BY <1>2, <2>1 DEF TimesRows
  <2>3. one \in Seq(K) /\ table \in Seq(S)
    BY <1>3, <1>4, <2>1
  <2>4. Upserted(S, table, value, up)
    BY <2>2, <2>3, UpsertKeeps
  <2>. QED BY <2>1, <2>4 DEF Upserted
<1>7. blind' \in BOOLEAN /\ (blind => blind') /\ (value = "null" => blind')
  <2>1. blind \in BOOLEAN
    BY DEF IInv, VarTypes
  <2>2. blind' \in BOOLEAN
    BY <2>1, Zenon
  <2>. QED BY <2>2
<1>8. up \in Seq(Row)
  BY <1>6 DEF Row
<1>9. /\ rows' \in [Colors -> [CacheNames -> Seq(Row)]]
      /\ \A d \in Colors, t \in CacheNames :
            \/ rows'[d][t] = rows[d][t]
            \/ d = c /\ t = "strategy_timings" /\ rows'[d][t] = up
  <2>1. rows \in [Colors -> [CacheNames -> Seq(Row)]] /\ "strategy_timings" \in CacheNames
    BY DEF IInv, VarTypes, CacheNames
  <2>2. [rows[c] EXCEPT !["strategy_timings"] = up] \in [CacheNames -> Seq(Row)]
    BY <1>1, <1>8, <2>1
  <2>. QED BY <1>1, <2>1, <2>2
<1>10. RowsFit'
  BY <1>6, <1>9 DEF IInv, RowsFit, RowsIn
<1>11. NullsBlind'
  <2>1. \A d \in Colors : \A j \in 1..Len(rows[d]["strategy_timings"]) :
            rows[d]["strategy_timings"][j][2] = "null" => blind
    BY DEF IInv, NullsBlind, NullBlind
  <2>2. ASSUME NEW d \in Colors, NEW j \in 1..Len(rows'[d]["strategy_timings"]),
               rows'[d]["strategy_timings"][j][2] = "null"
        PROVE  blind'
    <3>1. CASE rows'[d]["strategy_timings"] = rows[d]["strategy_timings"]
      BY <1>7, <2>1, <2>2, <3>1
    <3>2. CASE rows'[d]["strategy_timings"] # rows[d]["strategy_timings"]
      <4>1. d = c /\ rows'[d]["strategy_timings"] = up /\ (value = "null" => blind')
        BY <1>7, <1>9, <3>2 DEF CacheNames
      <4>2. value = "null" \/ \E i \in 1..Len(table) : table[i][2] = "null"
        BY <1>6, <2>2, <4>1
      <4>. QED BY <1>1, <1>7, <2>1, <4>1, <4>2 DEF table
    <3>. QED BY <3>1, <3>2
  <2>3. NullBlind(script.buffer)'
    BY <1>2, NoScriptFits, NoneNull
  <2>. QED BY <2>2, <2>3 DEF NullsBlind, NullBlind
<1>12. script' \in Scripts /\ CopyStands' /\ CopyFollowsSource'
  BY <1>2, ScriptEnds
<1>. QED BY <1>2, <1>7, <1>9, <1>10, <1>11, <1>12, ScriptRest

\* Rows of any table are rows.
LEMMA RowsAreRows == \A t : RowsIn(t) \subseteq Row /\ Seq(RowsIn(t)) \subseteq Seq(Row)
BY DEF RowsIn, Row

\* With no row of the table left, nothing of it is copied twice.
LEMMA TruncateOK ==
    ASSUME IInv, Truncate
    PROVE  IInv'
<1>1. /\ script.at = "truncate" /\ UNCHANGED <<migrated, ledger, proc, api, next, late, blind>>
      /\ \/ script' = NoScript /\ UNCHANGED rows
         \/ /\ rows' = [rows EXCEPT ![Target][Table] = <<>>]
            /\ script' = [script EXCEPT !.at = "count"]
  BY DEF Truncate, otherVars, histVars
<1>2. script.at \in Copying \ {"done"}
  BY <1>1 DEF Copying
<1>3. blind' \in BOOLEAN /\ (blind => blind')
  BY <1>1 DEF IInv, VarTypes
<1>4. CASE script' = NoScript /\ UNCHANGED rows
  <2>1. script' \in Scripts /\ CopyStands' /\ CopyFollowsSource' /\ script'.buffer = <<>>
    BY <1>4, ScriptEnds
  <2>2. RowsFit' /\ rows' \in [Colors -> [CacheNames -> Seq(Row)]]
    BY <1>4 DEF IInv, RowsFit, VarTypes
  <2>3. NullsBlind'
    BY <1>1, <1>4, <2>1, NoneNull DEF IInv, NullsBlind, NullBlind
  <2>. QED BY <1>1, <1>3, <2>1, <2>2, <2>3, ScriptRest
<1>5. CASE /\ rows' = [rows EXCEPT ![Target][Table] = <<>>]
           /\ script' = [script EXCEPT !.at = "count"]
  <2> DEFINE target == Target
             table == Table
  <2>1. /\ script \in Scripts /\ target \in Colors /\ table \in CacheNames
        /\ rows \in [Colors -> [CacheNames -> Seq(Row)]] /\ script.table \in 1..3
        /\ \A i \in 1..3 : i # script.table => CacheTables[i] # table
    BY <1>2, CopyFacts
  <2>2. rows' = [rows EXCEPT ![target][table] = <<>>]
    BY <1>5
  <2>3. Target' = target
    BY <1>5, <2>1 DEF Target, Scripts
  <2> HIDE DEF target, table
  <2>4. /\ rows' \in [Colors -> [CacheNames -> Seq(Row)]] /\ rows'[target][table] = <<>>
        /\ \A d \in Colors, t \in CacheNames : d # target \/ t # table => rows'[d][t] = rows[d][t]
    BY <2>1, <2>2
  <2>5. RowsFit'
    <3>1. \A t : <<>> \in Seq(RowsIn(t))
      OBVIOUS
    <3>2. \A d \in Colors, t \in CacheNames : rows'[d][t] \in Seq(RowsIn(t))
      BY <2>4, <3>1 DEF IInv, RowsFit
    <3>. QED BY <3>2 DEF RowsFit
  <2>6. /\ script' \in Scripts /\ script'.at = "count" /\ script'.table = script.table
        /\ script'.start = script.start /\ script'.buffer = script.buffer
        /\ script'.touched = script.touched
    BY <1>5, <2>1 DEF Scripts, Copying
  <2>7. NullsBlind'
    <3>1. \A d \in Colors : rows'[d]["strategy_timings"] = rows[d]["strategy_timings"]
                              \/ rows'[d]["strategy_timings"] = <<>>
      BY <2>4 DEF CacheNames
    <3>. QED BY <1>1, <2>6, <3>1, NoneNull DEF IInv, NullsBlind, NullBlind
  <2>8. CopyStands'
    BY <1>1, <2>6 DEF IInv, CopyStands, Copying
  <2>9. CopyFollowsSource'
    <3> SUFFICES ASSUME ~script'.touched, NEW i \in 1..(script'.table - 1)
                 PROVE  script'.start[i] \subseteq ToSet(rows'[Target'][CacheTables[i]])
      BY DEF CopyFollowsSource
    <3>1. i \in 1..3 /\ i # script.table /\ i \in 1..(script.table - 1)
      BY <2>1, <2>6
    <3>2. rows'[target][CacheTables[i]] = rows[target][CacheTables[i]]
      BY <2>1, <2>4, <3>1, TableNames
    <3>3. script.start[i] \subseteq ToSet(rows[target][CacheTables[i]])
      BY <1>1, <2>6, <3>1 DEF IInv, CopyFollowsSource, target
    <3>. QED BY <2>3, <2>6, <3>2, <3>3
  <2>. QED BY <1>1, <1>3, <2>4, <2>5, <2>6, <2>7, <2>8, <2>9, ScriptRest
<1>. QED BY <1>1, <1>4, <1>5

\* Only the script moves on.
LEMMA RowsRest ==
    ASSUME IInv, UNCHANGED <<migrated, ledger, rows, proc, api, next, late, blind>>,
           script' \in Scripts, NullBlind(script.buffer)', CopyStands', CopyFollowsSource'
    PROVE  IInv'
<1>1. RowsFit' /\ rows' \in [Colors -> [CacheNames -> Seq(Row)]] /\ blind' \in BOOLEAN
  BY DEF IInv, RowsFit, VarTypes
<1>2. NullsBlind'
  BY DEF IInv, NullsBlind, NullBlind
<1>. QED BY <1>1, <1>2, ScriptRest

\* Rows of a table from a place on.
LEMMA PageRows ==
    ASSUME NEW S, NEW table \in Seq(S), NEW from \in Nat, NEW size \in Nat \ {0}
    PROVE  /\ Page(table, from, size) \in Seq(S)
           /\ \A i \in 1..Len(Page(table, from, size)) :
                 from + i \in 1..Len(table) /\ Page(table, from, size)[i] = table[from + i]
           /\ \A j \in 1..Len(table) : from < j /\ j <= from + size =>
                 \E i \in 1..Len(Page(table, from, size)) : Page(table, from, size)[i] = table[j]
<1> DEFINE last == IF from + size < Len(table) THEN from + size ELSE Len(table)
           page == SubSeq(table, from + 1, last)
<1>1. Page(table, from, size) = page
  BY DEF Page
<1>2. /\ last \in Nat /\ last <= Len(table) /\ Len(table) \in Nat
      /\ \A j \in 1..Len(table) : j <= from + size => j <= last
  OBVIOUS
<1> HIDE DEF last
<1>3. /\ page \in Seq(S)
      /\ Len(page) = IF from + 1 <= last THEN last - from ELSE 0
      /\ \A i \in 1..(last - from) : page[i] = table[from + i]
  <2>1. ASSUME NEW i \in 1..(last - from) PROVE table[from + i] \in S
    <3>1. from + i \in 1..Len(table)
      BY <1>2
    <3>. QED BY <3>1
  <2>2. page = [i \in 1..(last - from) |-> table[from + i]]
    BY <1>2
  <2> HIDE DEF page
  <2>3. page \in [1..(last - from) -> S]
    BY <2>1, <2>2
  <2>4. CASE from + 1 <= last
    <3> DEFINE m == last - from
    <3>1. m \in Nat /\ page \in [1..m -> S] /\ \A i \in 1..m : page[i] = table[from + i]
      BY <1>2, <2>2, <2>3, <2>4
    <3> HIDE DEF m
    <3>2. page \in Seq(S) /\ Len(page) = m /\ \A i \in 1..m : page[i] = table[from + i]
      BY <3>1
    <3>. QED BY <2>4, <3>2 DEF m
  <2>5. CASE ~(from + 1 <= last)
    <3>1. 1..(last - from) = {}
      BY <1>2, <2>5
    <3>2. page = <<>>
      BY <2>2, <3>1
    <3>3. <<>> \in Seq(S) /\ Len(<<>>) = 0
      OBVIOUS
    <3>. QED BY <2>5, <3>1, <3>2, <3>3
  <2>. QED BY <2>4, <2>5
<1> HIDE DEF page
<1>4. ASSUME NEW i \in 1..Len(page)
      PROVE  from + i \in 1..Len(table) /\ page[i] = table[from + i]
  <2>1. from + 1 <= last /\ i \in 1..(last - from)
    BY <1>2, <1>3
  <2>. QED BY <1>2, <1>3, <2>1
<1>5. ASSUME NEW j \in 1..Len(table), from < j, j <= from + size
      PROVE  \E i \in 1..Len(page) : page[i] = table[j]
  <2>1. j - from \in 1..(last - from) /\ j - from \in 1..Len(page) /\ from + (j - from) = j
    BY <1>2, <1>3, <1>5
  <2>. QED BY <1>3, <2>1
<1>. QED BY <1>1, <1>3, <1>4, <1>5

\* They are not more than asked for.
LEMMA PageSize ==
    ASSUME NEW S, NEW table \in Seq(S), NEW from \in Nat, NEW size \in Nat \ {0}
    PROVE  Len(Page(table, from, size)) <= size
<1> DEFINE page == Page(table, from, size)
<1>1. page \in Seq(S) /\ \A i \in 1..Len(page) : from + i \in 1..Len(table)
  BY PageRows
<1>2. Page(table, from, size) =
         SubSeq(table, from + 1, IF from + size < Len(table) THEN from + size ELSE Len(table))
  BY DEF Page
<1>. QED BY <1>1, <1>2

\* The copy goes on to the next table when the rows that were counted are there.
LEMMA NextTableOK ==
    ASSUME IInv, script.at \in {"count", "fetch"}, script.buffer = <<>>,
           ~script.touched => script.start[script.table] \subseteq ToSet(rows[Target][Table]),
           script' = NextTable(script),
           UNCHANGED <<migrated, ledger, rows, proc, api, next, late, blind>>
    PROVE  IInv'
<1>1. script.at \in Copying \ {"done"}
  BY DEF Copying
<1>2. script \in Scripts /\ script.table \in 1..3
  BY <1>1, CopyFacts
<1>3. /\ script' \in Scripts /\ script'.table = script.table + 1
      /\ script'.at = (IF script.table = 3 THEN "done" ELSE "truncate")
      /\ script'.buffer = <<>> /\ script'.start = script.start
      /\ script'.touched = script.touched /\ script'.color = script.color
  <2>1. Len(CacheTables) = 3
    BY TableNames
  <2>2. script' = IF script.table = 3 THEN [script EXCEPT !.at = "done", !.table = @ + 1]
                  ELSE [script EXCEPT !.at = "truncate", !.table = @ + 1]
    BY <2>1 DEF NextTable
  <2>3. script.table + 1 \in 1..4
    BY <1>2
  <2>4. CASE script.table = 3
    <3>1. script' = [script EXCEPT !.at = "done", !.table = 4]
      BY <2>2, <2>4
    <3>2. PICK n, at : n = 4 /\ at = "done"
      OBVIOUS
    <3>3. n \in 1..4 /\ at \in {"idle", "timings"} \cup Copying
      BY <3>2 DEF Copying
    <3>4. script' = [script EXCEPT !.at = at, !.table = n]
      BY <3>1, <3>2
    <3>5. script' \in Scripts /\ script'.table = n /\ script'.at = at
      BY <1>2, <3>3, <3>4 DEF Scripts
    <3>. QED BY <1>2, <2>4, <3>1, <3>2, <3>5 DEF Scripts
  <2>5. CASE script.table # 3
    BY <1>2, <2>2, <2>3, <2>5, ZenonT(60) DEF Scripts, Copying
  <2>. QED BY <2>4, <2>5
<1>4. NullBlind(script.buffer)'
  BY <1>3, NoneNull
<1>5. CopyStands'
  <2>1. \A i \in 1..3 : i < script.table + 1 \/ script.start[i] = {}
    BY <1>2 DEF IInv, CopyStands
  <2>. QED BY <1>2, <1>3, <2>1 DEF CopyStands, Copying
<1>6. Target' = Target
  BY <1>3 DEF Target
<1>7. CopyFollowsSource'
  <2> SUFFICES ASSUME ~script'.touched, NEW i \in 1..(script'.table - 1)
               PROVE  script'.start[i] \subseteq ToSet(rows'[Target'][CacheTables[i]])
    BY DEF CopyFollowsSource
  <2>1. i = script.table \/ i \in 1..(script.table - 1)
    BY <1>2, <1>3
  <2>2. i # script.table => script.start[i] \subseteq ToSet(rows[Target][CacheTables[i]])
    BY <1>3, <2>1 DEF IInv, CopyFollowsSource
  <2>3. i = script.table => script.start[i] \subseteq ToSet(rows[Target][CacheTables[i]])
    BY <1>3 DEF Table
  <2>. QED BY <1>3, <1>6, <2>2, <2>3
<1>. QED BY <1>3, <1>4, <1>5, <1>7, RowsRest

\* The copy stays at its table.
LEMMA SameTable ==
    ASSUME IInv, script.at \in Copying \ {"done"}, UNCHANGED rows,
           script'.color = script.color, script'.table = script.table,
           script'.touched = script.touched,
           \A i \in 1..3 : i # script.table => script'.start[i] = script.start[i]
    PROVE  /\ CopyFollowsSource' /\ Target' = Target /\ Source' = Source /\ Table' = Table
<1>1. script.table \in 1..3
  BY CopyFacts
<1>2. Target' = Target /\ Source' = Source /\ Table' = Table
  BY DEF Target, Source, Table
<1>3. CopyFollowsSource'
  <2> SUFFICES ASSUME ~script'.touched, NEW i \in 1..(script'.table - 1)
               PROVE  script'.start[i] \subseteq ToSet(rows'[Target'][CacheTables[i]])
    BY DEF CopyFollowsSource
  <2>1. i \in 1..3 /\ i # script.table /\ i \in 1..(script.table - 1)
    BY <1>1
  <2>2. script.at \in {"truncate", "count", "fetch", "insert", "done"}
    BY DEF Copying
  <2>. QED BY <1>2, <2>1, <2>2 DEF IInv, CopyFollowsSource
<1>. QED BY <1>2, <1>3

\* SELECT COUNT(*)
LEMMA CountOK ==
    ASSUME IInv, Count
    PROVE  IInv'
<1>1. script.at = "count" /\ UNCHANGED <<migrated, ledger, rows, proc, api, next, late, blind>>
  BY DEF Count, otherVars, histVars
<1>2. script.at \in Copying \ {"done"}
  BY <1>1 DEF Copying
<1>3. /\ script \in Scripts /\ script.table \in 1..3 /\ Source \in Seq(RowsIn(Table))
      /\ \A t : RowsIn(t) \subseteq Row
  BY <1>2, CopyFacts, RowsAreRows
<1>4. script.buffer = <<>> /\ script.start[script.table] = {}
  BY <1>1, <1>3 DEF IInv, CopyStands
<1>5. CASE script' = NextTable(script)
  BY <1>1, <1>4, <1>5, NextTableOK
<1>6. CASE script' = [script EXCEPT !.at = "fetch", !.total = Counted(Source), !.offset = 0,
                                    !.start[script.table] = ToSet(Source)]
  <2> DEFINE s == Source
  <2>1. s \in Seq(RowsIn(Table)) /\ Len(s) \in Nat
    BY <1>3
  <2>2. ToSet(s) = {s[j] : j \in 1..Len(s)} /\ ToSet(s) \subseteq Row
    BY <1>3, <2>1 DEF ToSet
  <2>3. Counted(s) = Len(s)
    BY DEF Counted
  <2> HIDE DEF s
  <2>4. script' = [script EXCEPT !.at = "fetch", !.total = Len(s), !.offset = 0,
                                 !.start[script.table] = ToSet(s)]
    BY <1>6, <2>3 DEF s
  <2>5. /\ script.start \in [1..3 -> SUBSET Row]
        /\ [script.start EXCEPT ![script.table] = ToSet(s)] \in [1..3 -> SUBSET Row]
    BY <1>3, <2>2 DEF Scripts
  <2>6. /\ script'.at = "fetch" /\ script'.total = Len(s) /\ script'.offset = 0
        /\ script'.start = [script.start EXCEPT ![script.table] = ToSet(s)]
        /\ script'.table = script.table /\ script'.color = script.color
        /\ script'.touched = script.touched /\ script'.buffer = <<>>
    BY <1>3, <1>4, <2>4 DEF Scripts
  <2>7. script' \in Scripts
    BY <1>3, <2>1, <2>4, <2>5 DEF Scripts, Copying
  <2>8. /\ script'.start[script.table] = ToSet(s)
        /\ \A i \in 1..3 : i # script.table => script'.start[i] = script.start[i]
    BY <1>3, <2>5, <2>6
  <2>9. CopyFollowsSource' /\ Source' = s /\ Table' = Table
    BY <1>1, <1>2, <2>6, <2>8, SameTable DEF s
  <2>10. CopyStands'
    <3>1. script'.at \in Copying \ {"done"} => script'.table \in 1..3
      BY <1>3, <2>6
    <3>2. \A i \in 1..3 : i < script'.table \/ i = script'.table \/ script'.start[i] = {}
      BY <1>1, <2>6, <2>8 DEF IInv, CopyStands
    <3>3. script'.buffer \in Seq(RowsIn(Table'))
      BY <2>6
    <3>4. \A r \in script'.start[script'.table] :
              \E j \in 1..Len(s) : j <= script'.total /\ s[j] = r
      BY <2>1, <2>2, <2>6, <2>8
    <3>5. \A j \in 1..Len(s) : ~(j <= script'.offset)
      BY <2>1, <2>6
    <3>. QED BY <2>1, <2>6, <2>9, <3>1, <3>2, <3>3, <3>4, <3>5 DEF CopyStands
  <2>11. NullBlind(script.buffer)'
    BY <2>6, NoneNull
  <2>. QED BY <1>1, <2>7, <2>9, <2>10, <2>11, RowsRest
<1>. QED BY <1>5, <1>6 DEF Count

\* SELECT * LIMIT fetchBatchSize OFFSET offset
LEMMA FetchOK ==
    ASSUME IInv, Fetch
    PROVE  IInv'
<1>1. script.at = "fetch" /\ UNCHANGED <<migrated, ledger, rows, proc, api, next, late, blind>>
  BY DEF Fetch, otherVars, histVars
<1>2. script.at \in Copying \ {"done"}
  BY <1>1 DEF Copying
<1> DEFINE s == Source
           T == rows[Target][Table]
<1>3. /\ script \in Scripts /\ script.table \in 1..3 /\ s \in Seq(RowsIn(Table))
      /\ T \in Seq(RowsIn(Table))
  BY <1>2, CopyFacts
<1>4. script.buffer = <<>> /\ script.total \in Nat /\ script.offset \in Nat
  BY <1>1, <1>3 DEF IInv, CopyStands, Scripts
<1>5. ~script.touched =>
        /\ script.total <= Len(s)
        /\ \A r \in script.start[script.table] : \E j \in 1..Len(s) : j <= script.total /\ s[j] = r
        /\ \A j \in 1..Len(s) : j <= script.total /\ j <= script.offset =>
              \E i \in 1..Len(T) : T[i] = s[j]
  <2>1. \A i \in 1..Len(script.buffer) : FALSE
    BY <1>4
  <2>. QED BY <1>1, <2>1 DEF IInv, CopyStands, Arrived
<1>6. FetchBatch \in Nat \ {0}
  BY DeployAssumption
<1>7. CASE script' = NextTable(script) /\ script.offset >= script.total
  <2>1. ToSet(T) = {T[i] : i \in 1..Len(T)}
    BY <1>3 DEF ToSet
  <2> HIDE DEF s, T
  <2>2. ASSUME ~script.touched, NEW r \in script.start[script.table] PROVE r \in ToSet(T)
    <3>1. PICK j \in 1..Len(s) : j <= script.total /\ s[j] = r
      BY <1>5, <2>2
    <3>2. j <= script.offset
      BY <1>3, <1>4, <1>7, <3>1
    <3>. QED BY <1>5, <2>1, <2>2, <3>1, <3>2
  <2>. QED BY <1>1, <1>4, <1>7, <2>2, NextTableOK DEF T
<1>8. CASE /\ script' = [script EXCEPT !.at = "insert", !.offset = @ + FetchBatch,
                           !.buffer = Page(Source, script.offset, FetchBatch)]
           /\ ~(script.offset >= script.total)
  <2> DEFINE page == Page(s, script.offset, FetchBatch)
             o == script.offset + FetchBatch
  <2>1. /\ page \in Seq(RowsIn(Table))
        /\ \A i \in 1..Len(page) : script.offset + i \in 1..Len(s) /\ page[i] = s[script.offset + i]
        /\ \A j \in 1..Len(s) : script.offset < j /\ j <= o =>
              \E i \in 1..Len(page) : page[i] = s[j]
    <3>1. PICK S : S = RowsIn(Table)
      OBVIOUS
    <3>2. s \in Seq(S) /\ script.offset \in Nat /\ FetchBatch \in Nat \ {0}
      BY <1>3, <1>4, <1>6, <3>1
    <3> HIDE DEF s
    <3>3. /\ page \in Seq(S)
          /\ \A i \in 1..Len(page) :
                script.offset + i \in 1..Len(s) /\ page[i] = s[script.offset + i]
          /\ \A j \in 1..Len(s) : script.offset < j /\ j <= script.offset + FetchBatch =>
                \E i \in 1..Len(page) : page[i] = s[j]
      BY <3>2, PageRows, SMTT(60)
    <3>. QED BY <3>1, <3>3
  <2>2. o \in Nat
    BY <1>4, <1>6
  <2>3. script' = [script EXCEPT !.at = "insert", !.offset = o, !.buffer = page]
    BY <1>8
  <2>4. page \in Seq(Row)
    BY <2>1, RowsAreRows
  <2> HIDE DEF page
  <2>5. /\ script' \in Scripts /\ script'.at = "insert" /\ script'.offset = o
        /\ script'.buffer = page /\ script'.start = script.start
        /\ script'.table = script.table /\ script'.color = script.color
        /\ script'.touched = script.touched /\ script'.total = script.total
    BY <1>3, <2>2, <2>3, <2>4 DEF Scripts, Copying
  <2>6. CopyFollowsSource' /\ Source' = s /\ Table' = Table /\ Target' = Target
    BY <1>1, <1>2, <2>5, SameTable
  <2>7. rows'[Target'][Table'] = T
    BY <1>1, <2>6
  <2> HIDE DEF s, T
  <2>8. ASSUME ~script.touched, NEW j \in 1..Len(s), j <= script.total, j <= o
        PROVE  Arrived(j)'
    <3>1. CASE j <= script.offset
      <4>1. \E i \in 1..Len(T) : T[i] = s[j]
        BY <1>5, <2>8, <3>1
      <4>. QED BY <2>6, <2>7, <4>1 DEF Arrived
    <3>2. CASE ~(j <= script.offset)
      <4>1. script.offset < j
        BY <1>3, <1>4, <3>2
      <4>2. \E i \in 1..Len(page) : page[i] = s[j]
        BY <2>1, <2>8, <4>1
      <4>. QED BY <2>5, <2>6, <4>2 DEF Arrived
    <3>. QED BY <3>1, <3>2
  <2>9. CopyStands'
    <3>1. \A i \in 1..3 : i < script'.table \/ i = script'.table \/ script'.start[i] = {}
      BY <1>1, <2>5 DEF IInv, CopyStands
    <3>. QED BY <1>3, <1>5, <2>1, <2>5, <2>6, <2>8, <3>1 DEF CopyStands
  <2>10. NullBlind(script.buffer)'
    <3> SUFFICES ASSUME NEW i \in 1..Len(page), page[i][2] = "null" PROVE blind
      BY <1>1, <2>5 DEF NullBlind
    <3>1. script.offset + i \in 1..Len(s) /\ page[i] = s[script.offset + i]
      BY <2>1
    <3>2. CASE Table = "strategy_timings"
      <4>1. NullBlind(s)
        BY <1>2, <3>2, CopyFacts DEF IInv, NullsBlind, Source, s
      <4>. QED BY <3>1, <4>1 DEF NullBlind
    <3>3. CASE Table # "strategy_timings"
      <4>1. page[i] \in DocRows
        BY <2>1, <3>3 DEF RowsIn
      <4>. QED BY <4>1 DEF DocRows
    <3>. QED BY <3>2, <3>3
  <2>. QED BY <1>1, <2>5, <2>6, <2>9, <2>10, RowsRest
<1>. QED BY <1>7, <1>8 DEF Fetch

\* A batch is inserted.
LEMMA InsertOK ==
    ASSUME IInv, Insert
    PROVE  IInv'
<1> DEFINE batch == Page(script.buffer, 0, InsertBatch)
           rest == SubSeq(script.buffer, InsertBatch + 1, Len(script.buffer))
           target == Target
           table == Table
           T == rows[Target][Table]
           s == Source
<1>1. script.at = "insert" /\ UNCHANGED <<migrated, ledger, proc, api, next, late, blind>>
  BY DEF Insert, otherVars, histVars
<1>2. script.at \in Copying \ {"done"}
  BY <1>1 DEF Copying
<1>3. /\ script \in Scripts /\ script.table \in 1..3 /\ s \in Seq(RowsIn(table))
      /\ T \in Seq(RowsIn(table)) /\ target \in Colors /\ script.color \in Colors
      /\ target # script.color /\ table \in CacheNames
      /\ rows \in [Colors -> [CacheNames -> Seq(Row)]]
      /\ \A i \in 1..3 : i # script.table => CacheTables[i] # table
  BY <1>2, CopyFacts
<1>4. script.buffer \in Seq(RowsIn(table))
  BY <1>1 DEF IInv, CopyStands
<1>5. CASE script' = NoScript /\ UNCHANGED rows
  <2>1. script' \in Scripts /\ CopyStands' /\ CopyFollowsSource' /\ script'.buffer = <<>>
    BY <1>5, ScriptEnds
  <2>2. NullBlind(script.buffer)'
    BY <2>1, NoneNull
  <2>. QED BY <1>1, <1>5, <2>1, <2>2, RowsRest
<1>6. CASE /\ ~\E r \in ToSet(batch) : r[1] \in Keys(Target, Table)
           /\ \E up \in Written(T, batch) : rows' = [rows EXCEPT ![Target][Table] = up]
           /\ script' = IF rest # <<>> THEN [script EXCEPT !.buffer = rest]
                        ELSE [script EXCEPT !.buffer = <<>>, !.at = "fetch"]
  <2>1. InsertBatch \in Nat \ {0} /\ Len(script.buffer) \in Nat
    BY <1>4, DeployAssumption
  <2>2. /\ batch \in Seq(RowsIn(table))
        /\ \A i \in 1..Len(batch) : i \in 1..Len(script.buffer) /\ batch[i] = script.buffer[i]
        /\ \A j \in 1..Len(script.buffer) : j <= InsertBatch =>
              \E i \in 1..Len(batch) : batch[i] = script.buffer[j]
    <3>1. 0 \in Nat /\ \A i : i \in Nat => 0 + i = i
      OBVIOUS
    <3>2. \A i \in 1..Len(batch) : 0 + i \in 1..Len(script.buffer) /\ batch[i] = script.buffer[0 + i]
      BY <1>4, <2>1, PageRows
    <3>3. \A j \in 1..Len(script.buffer) : 0 < j /\ j <= 0 + InsertBatch =>
              \E i \in 1..Len(batch) : batch[i] = script.buffer[j]
      BY <1>4, <2>1, PageRows
    <3>4. batch \in Seq(RowsIn(table))
      BY <1>4, <2>1, PageRows
    <3> HIDE DEF batch
    <3>. QED BY <2>1, <3>2, <3>3, <3>4
  <2>3. /\ rest \in Seq(RowsIn(table))
        /\ \A i \in 1..Len(rest) : InsertBatch + i \in 1..Len(script.buffer)
                                     /\ rest[i] = script.buffer[InsertBatch + i]
        /\ \A j \in 1..Len(script.buffer) : InsertBatch < j =>
              \E i \in 1..Len(rest) : rest[i] = script.buffer[j]
    <3> DEFINE size == Len(script.buffer) + 1
    <3>1. size \in Nat \ {0} /\ ~(InsertBatch + size < Len(script.buffer))
      BY <2>1
    <3>2. rest = Page(script.buffer, InsertBatch, size)
      BY <3>1 DEF Page
    <3>3. \A j \in 1..Len(script.buffer) : j <= InsertBatch + size
      BY <2>1
    <3> HIDE DEF rest
    <3>4. PICK S, b, from, n : /\ S = RowsIn(table) /\ b = script.buffer
                               /\ from = InsertBatch /\ n = size
      OBVIOUS
    <3> HIDE DEF size
    <3>5. b \in Seq(S) /\ from \in Nat /\ n \in Nat \ {0}
      BY <1>4, <2>1, <3>1, <3>4
    <3> DEFINE page == Page(b, from, n)
    <3>6. /\ page \in Seq(S)
          /\ \A i \in 1..Len(page) : from + i \in 1..Len(b) /\ page[i] = b[from + i]
          /\ \A j \in 1..Len(b) : from < j /\ j <= from + n =>
                \E i \in 1..Len(page) : page[i] = b[j]
      BY <3>5, PageRows
    <3>7. rest = page
      BY <3>2, <3>4
    <3> HIDE DEF page
    <3>. QED BY <3>3, <3>4, <3>6, <3>7
  <2>4. PICK up \in Written(T, batch) : rows' = [rows EXCEPT ![target][table] = up]
    BY <1>6
  <2>5. /\ up \in Seq(RowsIn(table))
        /\ \A i \in 1..Len(up) : \/ \E j \in 1..Len(T) : up[i] = T[j]
                                 \/ \E j \in 1..Len(batch) : up[i] = batch[j]
        /\ \A j \in 1..Len(batch) : \E i \in 1..Len(up) : up[i] = batch[j]
        /\ \A j \in 1..Len(T) : \E i \in 1..Len(up) : up[i] = T[j]
    <3>1. T \in Seq(RowsIn(table)) /\ batch \in Seq(RowsIn(table))
      BY <1>3, <2>2
    <3>2. PICK S : S = RowsIn(table)
      OBVIOUS
    <3>3. T \in Seq(S) /\ batch \in Seq(S)
      BY <3>1, <3>2
    <3>4. /\ \A j \in 1..Len(T) : T[j] \in ToSet(T)
          /\ \A i \in 1..Len(batch) : batch[i] \in ToSet(batch)
      <4> HIDE DEF T, batch
      <4>. QED BY <3>3 DEF ToSet
    <3>5. Keys(Target, Table) = {r[1] : r \in ToSet(T)}
      BY DEF Keys
    <3>6. ASSUME NEW j \in 1..Len(T), NEW i \in 1..Len(batch) PROVE batch[i][1] # T[j][1]
      <4>1. T[j][1] \in Keys(Target, Table)
        BY <3>4, <3>5
      <4>2. batch[i][1] \notin Keys(Target, Table)
        BY <1>6, <3>4
      <4>. QED BY <4>1, <4>2
    <3> HIDE DEF T, batch
    <3>7. Stored(S, T, batch, up)
      BY <2>4, <3>3, WrittenKeeps
    <3>. QED BY <3>2, <3>6, <3>7 DEF Stored
  <2>6. /\ script'.buffer = rest /\ script'.at \in {"insert", "fetch"}
        /\ script'.at = "fetch" => rest = <<>>
        /\ script'.start = script.start /\ script'.offset = script.offset
        /\ script'.table = script.table /\ script'.color = script.color
        /\ script'.touched = script.touched /\ script'.total = script.total
        /\ script' \in Scripts
    <3>1. rest \in Seq(Row)
      BY <2>3, RowsAreRows
    <3> HIDE DEF rest
    <3>2. CASE rest # <<>>
      BY <1>1, <1>3, <1>6, <3>1, <3>2 DEF Scripts, Copying
    <3>3. CASE rest = <<>>
      BY <1>1, <1>3, <1>6, <3>1, <3>3 DEF Scripts, Copying
    <3>. QED BY <3>2, <3>3
  <2>7. Target' = target /\ Table' = table
    BY <2>6 DEF Target, Table
  <2> HIDE DEF batch, rest, target, table
  <2>8. up \in Seq(Row)
    BY <2>5, RowsAreRows
  <2>9. /\ rows' \in [Colors -> [CacheNames -> Seq(Row)]] /\ rows'[target][table] = up
        /\ \A d \in Colors, t \in CacheNames : d # target \/ t # table => rows'[d][t] = rows[d][t]
    <3>1. [rows[target] EXCEPT ![table] = up] \in [CacheNames -> Seq(Row)]
      BY <1>3, <2>8
    <3>. QED BY <1>3, <2>4, <3>1
  <2>10. Source' = s
    BY <1>3, <2>6, <2>7, <2>9 DEF Source, table
  <2>11. RowsFit'
    BY <2>5, <2>9 DEF IInv, RowsFit
  <2>12. \A i \in 1..Len(script.buffer) : script.buffer[i][2] = "null" => blind
    BY DEF IInv, NullsBlind, NullBlind
  <2>13. NullsBlind'
    <3>1. NullBlind(script.buffer)'
      BY <1>1, <2>3, <2>6, <2>12 DEF NullBlind
    <3>2. ASSUME NEW d \in Colors, NEW i \in 1..Len(rows'[d]["strategy_timings"]),
                 rows'[d]["strategy_timings"][i][2] = "null"
          PROVE  blind
      <4>1. CASE d = target /\ table = "strategy_timings"
        <5>1. T = rows[d]["strategy_timings"]
          BY <4>1 DEF target, table
        <5>2. rows'[d]["strategy_timings"] = up
          BY <2>9, <4>1
        <5> HIDE DEF T
        <5>3. (\E j \in 1..Len(T) : up[i] = T[j]) \/ \E j \in 1..Len(batch) : up[i] = batch[j]
          BY <2>5, <3>2, <5>2
        <5>4. CASE \E j \in 1..Len(T) : up[i] = T[j]
          <6>1. PICK j \in 1..Len(T) : up[i] = T[j]
            BY <5>4
          <6>. QED BY <3>2, <5>1, <5>2, <6>1 DEF IInv, NullsBlind, NullBlind
        <5>5. CASE \E j \in 1..Len(batch) : up[i] = batch[j]
          <6>1. PICK j \in 1..Len(batch) : up[i] = batch[j]
            BY <5>5
          <6>. QED BY <2>2, <2>12, <3>2, <5>2, <6>1
        <5>. QED BY <5>3, <5>4, <5>5
      <4>2. CASE ~(d = target /\ table = "strategy_timings")
        <5>1. rows'[d]["strategy_timings"] = rows[d]["strategy_timings"]
          BY <2>9, <4>2 DEF CacheNames
        <5>. QED BY <3>2, <5>1 DEF IInv, NullsBlind, NullBlind
      <4>. QED BY <4>1, <4>2
    <3>. QED BY <1>1, <3>1, <3>2 DEF NullsBlind, NullBlind
  <2>14. CopyFollowsSource'
    <3> SUFFICES ASSUME ~script'.touched, NEW i \in 1..(script'.table - 1)
                 PROVE  script'.start[i] \subseteq ToSet(rows'[Target'][CacheTables[i]])
      BY DEF CopyFollowsSource
    <3>1. i \in 1..3 /\ i # script.table /\ i \in 1..(script.table - 1)
      BY <1>3, <2>6
    <3>2. rows'[target][CacheTables[i]] = rows[target][CacheTables[i]]
      BY <1>3, <2>9, <3>1, TableNames
    <3>3. script.start[i] \subseteq ToSet(rows[target][CacheTables[i]])
      BY <1>1, <2>6, <3>1 DEF IInv, CopyFollowsSource, target
    <3>. QED BY <2>6, <2>7, <3>2, <3>3
  <2>15. ASSUME ~script.touched, NEW j \in 1..Len(s), j <= script.total, j <= script.offset
         PROVE  Arrived(j)'
    <3> SUFFICES \/ \E i \in 1..Len(up) : up[i] = s[j]
                 \/ \E i \in 1..Len(rest) : rest[i] = s[j]
      BY <2>6, <2>7, <2>9, <2>10 DEF Arrived
    <3>1. Arrived(j)
      BY <1>1, <2>15 DEF IInv, CopyStands
    <3>2. CASE \E i \in 1..Len(T) : T[i] = s[j]
      <4>1. PICK i \in 1..Len(T) : T[i] = s[j]
        BY <3>2
      <4>. QED BY <2>5, <4>1
    <3>3. CASE \E i \in 1..Len(script.buffer) : script.buffer[i] = s[j]
      <4>1. PICK i \in 1..Len(script.buffer) : script.buffer[i] = s[j]
        BY <3>3
      <4>2. CASE i <= InsertBatch
        <5>1. PICK n \in 1..Len(batch) : batch[n] = script.buffer[i]
          BY <2>2, <4>2
        <5>. QED BY <2>5, <4>1, <5>1
      <4>3. CASE ~(i <= InsertBatch)
        <5>1. InsertBatch < i
          BY <2>1, <4>3
        <5>. QED BY <2>3, <4>1, <5>1
      <4>. QED BY <4>2, <4>3
    <3>. QED BY <3>1, <3>2, <3>3 DEF Arrived
  <2>16. CopyStands'
    <3>1. /\ \A i \in 1..3 : i < script.table \/ i = script.table \/ script.start[i] = {}
          /\ ~script.touched =>
               /\ script.total <= Len(s)
               /\ \A r \in script.start[script.table] :
                     \E j \in 1..Len(s) : j <= script.total /\ s[j] = r
      BY <1>1 DEF IInv, CopyStands
    <3> HIDE DEF s, T
    <3>2. script'.at \in {"fetch", "insert"} /\ (script'.at # "insert" => script'.buffer = <<>>)
      BY <2>6
    <3>. QED BY <1>3, <2>3, <2>6, <2>7, <2>10, <2>15, <3>1, <3>2 DEF CopyStands
  <2>17. blind' \in BOOLEAN /\ (blind => blind')
    BY <1>1 DEF IInv, VarTypes
  <2>. QED BY <1>1, <2>6, <2>9, <2>11, <2>13, <2>14, <2>16, <2>17, ScriptRest
<1>. QED BY <1>5, <1>6 DEF Insert

\* The script ends, or is interrupted.
LEMMA ScriptStopsOK ==
    ASSUME IInv, CopyDone \/ CutScript
    PROVE  IInv'
<1>1. /\ script' = NoScript
      /\ UNCHANGED <<migrated, ledger, rows, proc, api, next, late, blind>>
  BY DEF CopyDone, CutScript, otherVars, dbVars, histVars
<1>2. script' \in Scripts /\ CopyStands' /\ CopyFollowsSource' /\ script'.buffer = <<>>
  BY <1>1, ScriptEnds
<1>3. NullBlind(script.buffer)'
  BY <1>2, NoneNull
<1>. QED BY <1>1, <1>2, <1>3, RowsRest
-----------------------------------------------------------------------------
(* The steps of the services preserve the invariant.                         *)

\* Of a script that is running, a service at most marks that it moved rows of what
\* is being copied.
LEMMA ScriptTouched ==
    ASSUME IInv, RowsKept
    PROVE  /\ script' \in Scripts /\ script'.at = script.at /\ script'.color = script.color
           /\ script'.table = script.table /\ script'.total = script.total
           /\ script'.offset = script.offset /\ script'.buffer = script.buffer
           /\ script'.start = script.start /\ (script.touched => script'.touched)
<1>1. script \in Scripts
  BY DEF IInv, VarTypes
<1>2. script.touched => script'.touched
  BY Zenon DEF RowsKept
<1>3. /\ script'.at = script.at /\ script'.color = script.color
      /\ script'.table = script.table /\ script'.total = script.total
      /\ script'.offset = script.offset /\ script'.buffer = script.buffer
      /\ script'.start = script.start /\ script' \in Scripts
  BY <1>1 DEF Scripts, RowsKept
<1>. QED BY <1>2, <1>3, Zenon

\* Tables that keep their rows still hold what was copied, and what was counted.
LEMMA ServiceCopyOK ==
    ASSUME IInv, NEW c \in Colors, ServiceMoves(c)
    PROVE  RowsFit' /\ NullsBlind' /\ CopyStands' /\ CopyFollowsSource'
<1>1. RowsKept
  BY ServiceKeepsRows
<1>2. /\ script' \in Scripts /\ script'.at = script.at /\ script'.color = script.color
      /\ script'.table = script.table /\ script'.total = script.total
      /\ script'.offset = script.offset /\ script'.buffer = script.buffer
      /\ script'.start = script.start /\ (script.touched => script'.touched)
  BY <1>1, ScriptTouched
<1>3. UNCHANGED blind
  BY DEF ServiceMoves, ServiceStep, Boot, ReadPointer, Prefetch, Handle, Commit, CommitFails,
         Settle, Crash, serviceVars
<1>4. Target' = Target /\ Table' = Table
  BY <1>2 DEF Target, Table
<1>5. \A d \in Colors, t \in CacheNames :
          rows'[d][t] \in Seq(RowsIn(t)) /\ Holds(rows[d][t], rows'[d][t])
  BY <1>1 DEF RowsKept, Kept
<1>6. RowsFit'
  BY <1>5 DEF RowsFit
<1>7. NullsBlind'
  <2>1. \A d \in Colors : NullBlind(rows'[d]["strategy_timings"])
    BY <1>1 DEF RowsKept, Kept
  <2>2. NullBlind(script'.buffer)
    BY <1>2 DEF IInv, NullsBlind
  <2>. QED BY <1>3, <2>1, <2>2 DEF NullsBlind, NullBlind
<1>8. CopyStands'
  <2>1. CASE script.at \notin {"fetch", "insert"}
    BY <1>2, <1>4, <2>1 DEF IInv, CopyStands
  <2>2. CASE script.at \in {"fetch", "insert"}
    <3>1. script.at \in Copying \ {"done"}
      BY <2>2 DEF Copying
    <3> DEFINE s == Source
               T == rows[Target][Table]
               s2 == rows'[script.color][Table]
               T2 == rows'[Target][Table]
    <3>2. /\ script.color \in Colors /\ Target \in Colors /\ Table \in CacheNames
          /\ script.table \in 1..3 /\ script \in Scripts /\ s \in Seq(RowsIn(Table))
      BY <3>1, CopyFacts
    <3>3. s2 \in Seq(RowsIn(Table)) /\ Holds(T, T2)
      BY <1>5, <3>2
    <3>4. ~script'.touched => Begins(s, s2)
      BY <1>1, <2>2, <3>2 DEF RowsKept
    <3>5. Source' = s2 /\ rows'[Target'][Table'] = T2
      BY <1>2, <1>4 DEF Source
    <3>6. script.total \in Nat /\ script.offset \in Nat
      BY <3>2 DEF Scripts
    <3>7. ~script.touched =>
            /\ script.total <= Len(s)
            /\ \A r \in script.start[script.table] :
                  \E j \in 1..Len(s) : j <= script.total /\ s[j] = r
            /\ \A j \in 1..Len(s) :
                  j <= script.total /\ j <= script.offset =>
                     \/ \E i \in 1..Len(T) : T[i] = s[j]
                     \/ \E i \in 1..Len(script.buffer) : script.buffer[i] = s[j]
      BY <2>2 DEF IInv, CopyStands, Arrived
    <3> HIDE DEF s, T, s2, T2
    <3>8. ASSUME ~script'.touched
          PROVE  /\ script.total <= Len(s2)
                 /\ \A r \in script.start[script.table] :
                       \E j \in 1..Len(s2) : j <= script.total /\ s2[j] = r
                 /\ \A j \in 1..Len(s2) :
                       j <= script.total /\ j <= script.offset =>
                          \/ \E i \in 1..Len(T2) : T2[i] = s2[j]
                          \/ \E i \in 1..Len(script.buffer) : script.buffer[i] = s2[j]
      <4>1. /\ Len(s) \in Nat /\ Len(s2) \in Nat /\ Len(s) <= Len(s2)
            /\ \A j \in 1..Len(s) : s2[j] = s[j]
        BY <3>2, <3>3, <3>4, <3>8 DEF Begins
      <4>2. script.total <= Len(s) /\ ~script.touched
        BY <1>2, <3>7, <3>8
      <4>3. ASSUME NEW r \in script.start[script.table]
            PROVE  \E j \in 1..Len(s2) : j <= script.total /\ s2[j] = r
        <5>1. PICK j \in 1..Len(s) : j <= script.total /\ s[j] = r
          BY <3>7, <4>2
        <5>2. j \in 1..Len(s2) /\ s2[j] = r
          BY <4>1, <5>1
        <5>. QED BY <5>1, <5>2
      <4>4. ASSUME NEW j \in 1..Len(s2), j <= script.total, j <= script.offset
            PROVE  \/ \E i \in 1..Len(T2) : T2[i] = s2[j]
                   \/ \E i \in 1..Len(script.buffer) : script.buffer[i] = s2[j]
        <5>1. j \in 1..Len(s) /\ s2[j] = s[j]
          BY <3>6, <4>1, <4>2, <4>4
        <5>2. \A i \in 1..Len(T) : \E n \in 1..Len(T2) : T2[n] = T[i]
          BY <3>3 DEF Holds
        <5>. QED BY <3>7, <4>2, <4>4, <5>1, <5>2
      <4>. QED BY <3>6, <4>1, <4>2, <4>3, <4>4
    <3>9. \A i \in 1..3 : \/ i < script.table
                          \/ i = script.table /\ script.at \in {"fetch", "insert"}
                          \/ script.start[i] = {}
      BY DEF IInv, CopyStands
    <3>10. script.buffer \in Seq(RowsIn(Table)) /\ (script.at # "insert" => script.buffer = <<>>)
      BY <2>2 DEF IInv, CopyStands
    <3>. QED BY <1>2, <1>4, <2>2, <3>2, <3>5, <3>8, <3>9, <3>10 DEF CopyStands, Arrived
  <2>. QED BY <2>1, <2>2
<1>9. CopyFollowsSource'
  <2> SUFFICES ASSUME script.at \in {"truncate", "count", "fetch", "insert", "done"},
                      ~script'.touched, NEW i \in 1..(script.table - 1)
               PROVE  script.start[i] \subseteq ToSet(rows'[Target][CacheTables[i]])
    BY <1>2, <1>4 DEF CopyFollowsSource
  <2>1. script.start[i] \subseteq ToSet(rows[Target][CacheTables[i]])
    BY <1>2 DEF IInv, CopyFollowsSource
  <2>2. i \in 1..3 /\ script.color \in Colors
    BY DEF IInv, VarTypes, Scripts
  <2>3. Target \in Colors /\ CacheTables[i] \in CacheNames
    BY <2>2, TableNames DEF Target, Other, Colors
  <2>4. PICK a, b : a = rows[Target][CacheTables[i]] /\ b = rows'[Target][CacheTables[i]]
    OBVIOUS
  <2>5. Holds(a, b) /\ a \in Seq(RowsIn(CacheTables[i])) /\ b \in Seq(RowsIn(CacheTables[i]))
    BY <1>5, <2>3, <2>4 DEF IInv, RowsFit
  <2>6. ToSet(a) \subseteq ToSet(b)
    BY <2>5 DEF Holds, ToSet
  <2>. QED BY <2>1, <2>4, <2>6
<1>. QED BY <1>6, <1>7, <1>8, <1>9

\* The times of a round are those of the contract but for a bootstrap that stored
\* null.
LEMMA TimesOfPool ==
    ASSUME IInv, NEW c \in Colors
    PROVE  PoolTimes(c) \in Times /\ (PoolTimes(c) = "null" => blind)
<1> DEFINE table == rows[c]["strategy_timings"]
           value == IF ~image[c] THEN "unhandled"
                    ELSE IF table = <<>> THEN TimesRead(c) ELSE Head(table)[2]
<1>1. table \in Seq(TimesRows) /\ NullBlind(table)
  BY DEF IInv, RowsFit, NullsBlind, RowsIn, CacheNames
<1>2. table # <<>> => Head(table) = table[1] /\ Head(table) \in TimesRows /\ 1 \in 1..Len(table)
  <2> HIDE DEF table
  <2>. QED BY <1>1
<1>3. \A r \in TimesRows : r[2] \in {"contract", "null"}
  BY DEF TimesRows
<1>4. PoolTimes(c) = value
  BY DEF PoolTimes
<1> HIDE DEF table
<1>5. value \in {"unhandled", "contract", "null"} /\ (value = "null" => blind)
  BY <1>1, <1>2, <1>3 DEF TimesRead, NullBlind
<1> HIDE DEF value
<1>. QED BY <1>4, <1>5 DEF Times

\* One service moves, and one set of tables with it.
LEMMA OneFits ==
    ASSUME IInv, NEW c \in Colors, NEW l, NEW p, UNCHANGED <<migrated, late, blind>>,
           ledger' = [ledger EXCEPT ![c] = l], proc' = [proc EXCEPT ![c] = p],
           Fits(l, p, late[c], HasProcessing(c), blind)
    PROVE  ServiceStands
<1>1. /\ ledger' = [d \in Colors |-> ledger'[d]] /\ proc' = [d \in Colors |-> proc'[d]]
      /\ ledger'[c] = l /\ proc'[c] = p
      /\ \A d \in Colors \ {c} : ledger'[d] = ledger[d] /\ proc'[d] = proc[d]
  BY DEF IInv, VarTypes
<1>2. \A d \in Colors : HasProcessing(d)' = HasProcessing(d)
  BY DEF HasProcessing
<1>3. \A d \in Colors : Fits(ledger'[d], proc'[d], late'[d], HasProcessing(d)', blind')
  BY <1>1, <1>2, BothFit
<1>. QED BY <1>1, <1>3, AllFit

\* The first numbers up to the next one.
LEMMA UpToNext ==
    ASSUME NEW n \in Nat
    PROVE  1..(n + 1) = (1..n) \cup {n + 1}
OBVIOUS

\* Where a service goes, and what it writes down.
LEMMA ServiceLedgerOK ==
    ASSUME IInv, NEW c \in Colors, ServiceMoves(c), UNCHANGED <<migrated, late, blind>>
    PROVE  ServiceStands
<1> DEFINE k == proc[c].event
           l == ledger[c]
           p == proc[c]
           At(at, event) == [Off EXCEPT !.at = at, !.event = event]
<1>1. /\ l \in Ledgers /\ p \in Services /\ N \in Nat /\ 0 \in 0..N
      /\ Fits(l, p, late[c], HasProcessing(c), blind)
      /\ ledger = [ledger EXCEPT ![c] = l]
  <2>1. Fits(l, p, late[c], HasProcessing(c), blind)
    BY BothFit
  <2>2. ledger = [ledger EXCEPT ![c] = l]
    BY DEF IInv, VarTypes
  <2>. QED BY <2>1, <2>2, DeployAssumption DEF Fits
<1>2. k \in 0..N /\ k \in Nat /\ l.pointer \in Nat
  BY <1>1 DEF Services, Ledgers
<1>3. ASSUME NEW at \in {"off", "idle", "dead"} \cup Holding, NEW event \in 0..N
      PROVE  /\ At(at, event) \in Services /\ At(at, event).at = at
             /\ At(at, event).event = event /\ At(at, event).times = "none"
             /\ at # "commit" => OpenOf(At(at, event)) = {}
  BY DEF Off, Services, Times, OpenOf
<1>4. \A at, event : Goto(c, at, event) => proc' = [proc EXCEPT ![c] = At(at, event)]
  BY DEF Goto
<1> DEFINE Failing == Failed(l, k)
<1>5. /\ Failing \in Ledgers /\ Failing.pointer = k /\ Failing.handled = l.handled
      /\ Failing.failed = l.failed \cup {k} /\ Failing.lost = l.lost /\ Failing.times = l.times
  BY <1>1, <1>2 DEF Failed, Ledgers
<1>6. p.at \in {"fetched", "batch"} /\ HasProcessing(c) /\ ~late[c] =>
         /\ k = l.pointer + 1
         /\ 1..k = (l.handled \cup l.failed \cup l.lost) \cup {k}
  <2>1. p.at # "commit" => OpenOf(p) = {}
    BY DEF OpenOf
  <2>. QED BY <1>1, <1>2, <2>1, UpToNext DEF Fits
<1>7. p.at = "commit" => OpenOf(p) = {k}
  BY DEF OpenOf
<1>8. p.at # "commit" => OpenOf(p) = {}
  BY DEF OpenOf
<1> HIDE DEF k, l, p, At, Failing
<1>9. CASE Boot(c)
  <2>1. /\ p.at = "off" /\ ledger' = [ledger EXCEPT ![c] = l]
        /\ proc' = [proc EXCEPT ![c] = At("idle", 0)]
    BY <1>1, <1>4, <1>9 DEF Boot, p
  <2>2. Fits(l, At("idle", 0), late[c], HasProcessing(c), blind)
    BY <1>1, <1>3, <1>8, <2>1 DEF Fits, Holding
  <2>. QED BY <2>1, <2>2, OneFits
<1>10. CASE ReadPointer(c)
  <2>1. /\ p.at = "idle" /\ HasProcessing(c) /\ l.pointer < N
        /\ ledger' = [ledger EXCEPT ![c] = l]
        /\ proc' = [proc EXCEPT ![c] = At("fetched", l.pointer + 1)]
    BY <1>1, <1>4, <1>10 DEF ReadPointer, p, l
  <2>2. l.pointer + 1 \in 0..N /\ l.pointer + 1 # 0
    BY <1>1, <1>2, <2>1
  <2>3. Fits(l, At("fetched", l.pointer + 1), late[c], HasProcessing(c), blind)
    BY <1>1, <1>3, <1>8, <2>1, <2>2 DEF Fits, Holding
  <2>. QED BY <2>1, <2>3, OneFits
<1>11. CASE Prefetch(c)
  <2>1. /\ p.at = "fetched" /\ ledger' = [ledger EXCEPT ![c] = l]
        /\ proc' = [proc EXCEPT ![c] = At("batch", k)]
    BY <1>1, <1>4, <1>11 DEF Prefetch, p, k
  <2>2. Fits(l, At("batch", k), late[c], HasProcessing(c), blind)
    BY <1>1, <1>2, <1>3, <1>8, <2>1 DEF Fits, Holding, k, p
  <2>. QED BY <2>1, <2>2, OneFits
<1>12. CASE Handle(c)
  <2>1. p.at = "batch" /\ k # 0
    BY <1>1, <1>12 DEF Handle, Fits, Holding, k, p
  <2>2. CASE ~HasProcessing(c) /\ Goto(c, "dead", 0) /\ UNCHANGED ledger
    <3>1. /\ ledger' = [ledger EXCEPT ![c] = l] /\ proc' = [proc EXCEPT ![c] = At("dead", 0)]
      BY <1>1, <1>4, <2>2
    <3>2. Fits(l, At("dead", 0), late[c], HasProcessing(c), blind)
      BY <1>1, <1>3, <1>8, <2>1 DEF Fits, Holding
    <3>. QED BY <3>1, <3>2, OneFits
  <2>3. CASE /\ HasProcessing(c) /\ Goto(c, "idle", 0)
             /\ ledger' = [ledger EXCEPT ![c] = Failed(@, k)]
    <3>1. /\ ledger' = [ledger EXCEPT ![c] = Failing] /\ proc' = [proc EXCEPT ![c] = At("idle", 0)]
      BY <1>4, <2>3 DEF Failing, l
    <3>2. Fits(Failing, At("idle", 0), late[c], HasProcessing(c), blind)
      BY <1>1, <1>3, <1>5, <1>6, <2>1, <2>3 DEF Fits, Holding
    <3>. QED BY <3>1, <3>2, OneFits
  <2>4. CASE /\ HasProcessing(c)
             /\ proc' = [proc EXCEPT ![c].at = "commit",
                           ![c].times = IF k = 1 THEN PoolTimes(c) ELSE ledger[c].times]
             /\ ledger' = [ledger EXCEPT ![c].pointer = k]
    <3> DEFINE times == IF k = 1 THEN PoolTimes(c) ELSE l.times
               new == [p EXCEPT !.at = "commit", !.times = times]
               written == [l EXCEPT !.pointer = k]
    <3>1. times \in Times /\ (times = "null" => blind)
      <4>1. l.times \in Times /\ (l.times = "null" => blind)
        BY <1>1 DEF Ledgers, Fits
      <4>. QED BY <4>1, TimesOfPool
    <3>2. /\ proc' = [proc EXCEPT ![c] = new] /\ ledger' = [ledger EXCEPT ![c] = written]
      BY <2>4 DEF p, l, IInv, VarTypes
    <3> HIDE DEF times
    <3>3. /\ new \in Services /\ new.at = "commit" /\ new.event = k /\ new.times = times
          /\ OpenOf(new) = {k}
      BY <1>1, <3>1 DEF Services, Holding, OpenOf, k, p
    <3>4. /\ written \in Ledgers /\ written.pointer = k /\ written.handled = l.handled
          /\ written.failed = l.failed /\ written.lost = l.lost /\ written.times = l.times
      BY <1>1, <1>2 DEF Ledgers
    <3> HIDE DEF new, written
    <3>5. Fits(written, new, late[c], HasProcessing(c), blind)
      BY <1>1, <1>6, <2>1, <2>4, <3>1, <3>3, <3>4 DEF Fits, Holding
    <3>. QED BY <3>2, <3>5, OneFits
  <2>. QED BY <1>12, <2>2, <2>3, <2>4 DEF Handle, k
<1>13. CASE Commit(c)
  <2> DEFINE stored == [l EXCEPT !.handled = @ \cup {k}, !.times = p.times]
  <2>1. /\ p.at = "commit" /\ proc' = [proc EXCEPT ![c] = At("idle", 0)]
        /\ ledger' = [ledger EXCEPT ![c] = stored]
    BY <1>4, <1>13 DEF Commit, p, l, k, IInv, VarTypes
  <2>2. p.times \in Times
    BY <1>1 DEF Services
  <2>3. /\ stored \in Ledgers /\ stored.pointer = l.pointer /\ stored.handled = l.handled \cup {k}
        /\ stored.failed = l.failed /\ stored.lost = l.lost /\ stored.times = p.times
    BY <1>1, <1>2, <2>2 DEF Ledgers
  <2> HIDE DEF stored
  <2>4. Fits(stored, At("idle", 0), late[c], HasProcessing(c), blind)
    BY <1>1, <1>3, <1>7, <2>1, <2>3 DEF Fits, Holding
  <2>. QED BY <2>1, <2>4, OneFits
<1>14. CASE CommitFails(c)
  <2>1. /\ p.at = "commit" /\ proc' = [proc EXCEPT ![c] = At("idle", 0)]
        /\ ledger' = [ledger EXCEPT ![c] = Failing]
    BY <1>4, <1>14 DEF CommitFails, Failing, p, l, k
  <2>2. k = l.pointer
    BY <1>1, <2>1 DEF Fits, k, p
  <2>3. Fits(Failing, At("idle", 0), late[c], HasProcessing(c), blind)
    BY <1>1, <1>3, <1>5, <1>7, <2>1, <2>2 DEF Fits, Holding
  <2>. QED BY <2>1, <2>3, OneFits
<1>15. CASE Settle(c) \/ Crash(c)
  BY <1>15, EndStands DEF Settle, Crash
<1>. QED BY <1>9, <1>10, <1>11, <1>12, <1>13, <1>14, <1>15 DEF ServiceMoves, ServiceStep

\* Every step of a service preserves the invariant.
LEMMA ServiceOK ==
    ASSUME IInv, NEW c \in Colors, ServiceMoves(c)
    PROVE  IInv'
<1>1. UNCHANGED <<migrated, api, next, late, blind>>
  BY DEF ServiceMoves, ServiceStep, Boot, ReadPointer, Prefetch, Handle, Commit, CommitFails,
         Settle, Crash, serviceVars
<1>2. ServiceStands
  BY <1>1, ServiceLedgerOK
<1>3. RowsKept
  BY ServiceKeepsRows
<1>4. script' \in Scripts /\ rows' \in [Colors -> [CacheNames -> Seq(Row)]]
  BY <1>3, ScriptTouched DEF RowsKept
<1>5. VarTypes'
  BY <1>1, <1>2, <1>4 DEF IInv, VarTypes, ServiceStands
<1>6. ApiStands'
  BY <1>1 DEF IInv, ApiStands
<1>. QED BY <1>2, <1>5, <1>6, ServiceCopyOK DEF IInv, ServiceStands

-----------------------------------------------------------------------------
(* The theorems.                                                             *)

\* The invariant holds before the first command ...
LEMMA InitOK == Init => IInv
<1> SUFFICES ASSUME Init PROVE IInv
  OBVIOUS
<1>1. /\ NoLedger \in Ledgers /\ NoLedger.pointer = 0 /\ NoLedger.times = "none"
      /\ NoLedger.handled = {} /\ NoLedger.failed = {} /\ NoLedger.lost = {}
  BY DEF NoLedger, Ledgers, Times
<1>2. /\ NoRows \in [CacheNames -> Seq(Row)]
      /\ \A t \in CacheNames : NoRows[t] = <<>> /\ NoRows[t] \in Seq(RowsIn(t))
  <2>1. <<>> \in Seq(Row) /\ \A t : <<>> \in Seq(RowsIn(t))
    OBVIOUS
  <2>. QED BY <2>1, TableNames DEF NoRows
<1>3. Off \in Services /\ Off.at = "off" /\ Off.event = 0 /\ Off.times = "none"
  BY DeployAssumption DEF Off, Services, Times
<1>4. VarTypes
  <2>1. /\ migrated \in [Colors -> SUBSET Folders] /\ ledger \in [Colors -> Ledgers]
        /\ rows \in [Colors -> [CacheNames -> Seq(Row)]] /\ proc \in [Colors -> Services]
    BY <1>1, <1>2, <1>3 DEF Init
  <2>2. api = [c \in Colors |-> api[c]]
    BY DEF Init
  <2>3. script \in Scripts
    BY NoScriptFits DEF Init
  <2>4. next \in Nat \ {0} /\ late \in [Colors -> BOOLEAN]
    BY DEF Init
  <2>5. blind \in BOOLEAN
    BY Zenon DEF Init
  <2>. QED BY <2>1, <2>2, <2>3, <2>4, <2>5 DEF VarTypes
<1>5. RowsFit
  BY <1>2 DEF Init, RowsFit
<1>6. InHand
  BY <1>3 DEF Init, InHand, HasProcessing, Holding
<1>7. NullsBlind
  BY <1>2, NoScriptFits, NoneNull DEF Init, NullsBlind, CacheNames
<1>8. CopyStands /\ CopyFollowsSource
  BY NoScriptFits DEF Init, CopyStands, CopyFollowsSource, Copying
<1>9. ApiStands
  BY DEF Init, ApiStands, NoApi
<1>10. AppliedFromStart /\ TimesFromContract
  <2>1. 1..0 = {}
    OBVIOUS
  <2>2. \A c \in Colors : Open(c) = {}
    BY <1>3 DEF Init, Open
  <2>. QED BY <1>1, <2>1, <2>2 DEF Init, AppliedFromStart, TimesFromContract
<1>. QED BY <1>4, <1>5, <1>6, <1>7, <1>8, <1>9, <1>10 DEF IInv

\* ... and every step preserves it.
LEMMA NextOK == IInv /\ [Next]_vars => IInv'
<1> SUFFICES ASSUME IInv, [Next]_vars PROVE IInv'
  OBVIOUS
<1>1. CASE Operator
  BY <1>1, OperatorOK
<1>2. CASE ScriptStep
  BY <1>2, StoreTimingsOK, TruncateOK, CountOK, FetchOK, InsertOK, ScriptStopsOK DEF ScriptStep
<1>3. CASE CutScript
  BY <1>3, ScriptStopsOK
<1>4. CASE \E c \in Colors : ServiceMoves(c)
  BY <1>4, ServiceOK
<1>5. CASE UNCHANGED vars
  <2>1. UNCHANGED <<migrated, ledger, rows, proc, script, api, next, late, blind>>
    BY <1>5 DEF vars, dbVars, histVars
  <2>2. CopyStands'
    BY <2>1, SMTT(60) DEF IInv, CopyStands, Source, Table, Target, Arrived
  <2>3. CopyFollowsSource'
    BY <2>1 DEF IInv, CopyFollowsSource, Target
  <2>4. script' \in Scripts /\ NullBlind(script.buffer)'
    BY <2>1 DEF IInv, VarTypes, NullsBlind, NullBlind
  <2>. QED BY <2>1, <2>2, <2>3, <2>4, RowsRest
<1>. QED BY <1>1, <1>2, <1>3, <1>4, <1>5 DEF Next, ServiceMoves

\* The invariant holds in every state: commands, slips, scripts cut off, services
\* that crash.
THEOREM Inductive == Spec => []IInv
BY InitOK, NextOK, PTL DEF Spec

\* Whatever the runbook and its slips do to the processing tables, every event up to
\* the pointer of a database is stored, reported or in an open transaction, or was
\* in one when its process ended, but for tables created under a service that was
\* in a later event.
THEOREM EventsApplied == Spec => []AppliedFromStart
<1>1. IInv => AppliedFromStart
  BY DEF IInv
<1>. QED BY <1>1, Inductive, PTL

\* A table that the copy of the cache has gone past holds, in the target, every
\* row that was counted in the source, for batches of any size, as long as no write
\* of a service moved the rows of a table that was counted.
THEOREM CopyComplete == Spec => []CopyFollowsSource
<1>1. IInv => CopyFollowsSource
  BY DEF IInv
<1>. QED BY <1>1, Inductive, PTL

\* The script says "Successfully copied cache data" after paging through a table
\* without an order.  A table that fills its batches, all of whose rows were
\* counted, can be written to before the first batch is read, one new row, so that
\* its last row is in none of the batches the script reads, and missing afterwards.
THEOREM CopyMayMiss ==
    ASSUME NEW S, NEW table \in Seq(S), Len(table) > 0, NEW r \in S,
           \A j \in 1..Len(table) : table[j][1] # r[1],
           \A i, j \in 1..Len(table) : i # j => table[i][1] # table[j][1]
    PROVE  \E after \in Written(table, <<r>>) :
              /\ table[Len(table)] \in ToSet(after)
              /\ \A offset \in Nat : offset + FetchBatch <= Len(table) =>
                    table[Len(table)] \notin ToSet(Page(after, offset, FetchBatch))
<1> DEFINE n == Len(table)
           after == [i \in 1..(n + 1) |-> IF i = 1 THEN r ELSE table[i - 1]]
<1>1. n \in Nat /\ n \in 1..n /\ \A j \in 1..n : table[j] \in S
  OBVIOUS
<1>2. \A i \in 1..(n + 1) : i = 1 \/ i - 1 \in 1..n
  BY <1>1
<1>3. after \in [1..(n + 1) -> S]
  BY <1>1, <1>2
<1>4. ListOf(S, n + 1, after)
  BY <1>1, <1>3, FunctionIsSeq
<1>5. IsFirst(r, table, after)
  <2>1. after[1] = r
    BY <1>1
  <2>2. ASSUME NEW j \in 1..n PROVE after[j + 1] = table[j]
    <3>1. j + 1 \in 1..(n + 1) /\ j + 1 # 1 /\ j + 1 - 1 = j
      BY <1>1
    <3>. QED BY <3>1
  <2>. QED BY <1>4, <2>1, <2>2 DEF IsFirst, ListOf
<1>6. /\ \A x : x \in ToSet(table) <=> \E j \in 1..n : table[j] = x
      /\ ToSet(<<r>>) = {r} /\ Len(<<r>>) = 1
  BY DEF ToSet
<1>7. \A x : x \in ToSet(after) <=> \E j \in 1..(n + 1) : after[j] = x
  BY <1>4 DEF ToSet, ListOf
<1> HIDE DEF after
<1>8. \A i \in 1..(n + 1) : after[i] = r \/ \E j \in 1..n : j = i - 1 /\ after[i] = table[j]
  BY <1>1, <1>2, <1>5 DEF IsFirst
<1> HIDE DEF n
<1>9. after \in Written(table, <<r>>)
  <2>1. {x[1] : x \in ToSet(<<r>>)} = {r[1]}
    BY <1>6
  <2>2. Without(table, {r[1]}) = table
    BY WithoutKeeps
  <2>3. Without(after, {r[1]}) = table
    BY <1>5, WithoutFirst
  <2>4. after \in [1..(n + 1) -> ToSet(table) \cup {r}]
    BY <1>3, <1>6, <1>8
  <2>5. r \in ToSet(after)
    <3>1. 1 \in 1..(n + 1) /\ after[1] = r
      BY <1>1, <1>5 DEF IsFirst
    <3>. QED BY <1>7, <3>1
  <2>6. Written(table, <<r>>) =
          {t \in [1..(n + 1) -> ToSet(table) \cup {r}] :
              Without(t, {r[1]}) = table /\ {r} \subseteq ToSet(t)}
    <3> DEFINE keys == {x[1] : x \in ToSet(<<r>>)}
    <3>1. Written(table, <<r>>) =
            {t \in [1..(Len(Without(table, keys)) + Len(<<r>>))
                      -> ToSet(Without(table, keys)) \cup ToSet(<<r>>)] :
                Without(t, keys) = Without(table, keys) /\ ToSet(<<r>>) \subseteq ToSet(t)}
      BY DEF Written
    <3>2. keys = {r[1]}
      BY <2>1
    <3> HIDE DEF keys
    <3>. QED BY <1>6, <2>2, <3>1, <3>2 DEF n
  <2>. QED BY <2>3, <2>4, <2>5, <2>6
<1>10. table[n] \in ToSet(after)
  <2>1. n + 1 \in 1..(n + 1) /\ after[n + 1] = table[n]
    BY <1>1, <1>5 DEF IsFirst, n
  <2>. QED BY <1>7, <2>1
<1>11. ASSUME NEW offset \in Nat, offset + FetchBatch <= n
       PROVE  table[n] \notin ToSet(Page(after, offset, FetchBatch))
  <2> DEFINE page == Page(after, offset, FetchBatch)
  <2>1. FetchBatch \in Nat \ {0}
    BY DeployAssumption
  <2>2. /\ page \in Seq(S)
        /\ \A i \in 1..Len(page) : offset + i \in 1..Len(after) /\ page[i] = after[offset + i]
        /\ Len(page) <= FetchBatch
    <3>1. after \in Seq(S)
      BY <1>4 DEF ListOf
    <3>. QED BY <2>1, <3>1, PageRows, PageSize
  <2> HIDE DEF page
  <2>3. SUFFICES ASSUME NEW i \in 1..Len(page), page[i] = table[n] PROVE FALSE
    BY <2>2 DEF ToSet, page
  <2>4. offset + i \in 1..(n + 1) /\ offset + i - 1 < n /\ after[offset + i] = table[n]
    BY <1>1, <1>4, <1>11, <2>1, <2>2, <2>3 DEF ListOf
  <2>5. after[offset + i] # r
    BY <1>1, <2>4 DEF n
  <2>6. PICK j \in 1..n : j = offset + i - 1 /\ after[offset + i] = table[j]
    BY <1>8, <2>4, <2>5
  <2>7. j # n /\ n \in 1..n /\ table[j] = table[n]
    BY <1>1, <2>4, <2>6
  <2>8. table[j][1] # table[n][1]
    BY <2>7 DEF n
  <2>. QED BY <2>7, <2>8
<1>. QED BY <1>9, <1>10, <1>11 DEF n

\* Null times of a round come from a bootstrap without the handler and from
\* nowhere else, also where the cache that held them was copied.
THEOREM ContractTimes == Spec => []TimesFromContract
<1>1. IInv => TimesFromContract
  BY DEF IInv
<1>. QED BY <1>1, Inductive, PTL

\* A configuration of the API over a database with both folders that was not cut
\* off left every table it tracks readable and every foreign key to be followed
\* both ways: no step of the list is refused.
THEOREM ApiWhole == Spec => []ApiComplete
<1>1. IInv => ApiComplete
  BY AcceptsAll, WholeAfterAll DEF IInv, ApiStands, ApiComplete
<1>. QED BY <1>1, Inductive, PTL
=============================================================================
