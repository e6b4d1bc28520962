--------------------------- MODULE PricingProofs ---------------------------
(***************************************************************************)
(* However the calls of the loops, the writes to the cache and the clock   *)
(* interleave, the price of an event was quoted near it, and the search    *)
(* through the rows finds what its reference finds.                        *)
(*                                                                         *)
(* The invariant behind the first is about the cache: the price of a row   *)
(* was quoted near the time the row is stored under.  The second needs     *)
(* what the binary search computes, for tables of every length.  It is the *)
(* only function that satisfies the equation it is defined by (OneSearch), *)
(* and one that does can be written down once it is known how many rows    *)
(* are at or before the time (EndsSearches).                               *)
(***************************************************************************)
EXTENDS Pricing, WellFoundedInduction, FiniteSetTheorems, TLAPS

\* The price of a row was quoted near the time of the row.
RowIsSound(r) ==
    /\ r.origin <= r.at + TimeDelta
    /\ r.at - r.origin <= TimeDelta + Lag

IInv ==
    /\ now \in Nat
    /\ cache \subseteq Row /\ writes \subseteq Row
    /\ IsFiniteSet(cache)
    /\ asking \in [Chains -> [call : {"none", "price", "prices"}, times : SUBSET Nat]]
    /\ \A r \in cache \cup writes : RowIsSound(r)
    /\ PriceIsNear
    /\ SearchFindsFloor

\* The search window is a length of time.
LEMMA WindowIsNat == Window \in Nat
BY PricingAssumption DEF Window
-----------------------------------------------------------------------------
(* The binary search. *)

\* One step of the search between two places, f being the rest of it.
Halved(s, t, f, left, right) ==
    LET mid == (left + right) \div 2 IN
    IF left + 1 >= right THEN left
    ELSE IF s[mid].at = t THEN mid
    ELSE IF s[mid].at < t THEN f[<<mid, right>>] ELSE f[<<left, mid>>]
Searches(s, n, t, f) == f = [p \in (1..n) \X (1..n) |-> Halved(s, t, f, p[1], p[2])]

\* The function the search is defined by, where there is one.
LEMMA BisectIs ==
    ASSUME NEW s, NEW n, NEW t, NEW F, Searches(s, n, t, F),
           \A G : Searches(s, n, t, G) => G = F
    PROVE  Bisect(s, n, t) = F[<<1, n>>]
<1> DEFINE G == CHOOSE f : Searches(s, n, t, f)
<1>1. Searches(s, n, t, G)
  OBVIOUS
<1>2. Bisect(s, n, t) = G[<<1, n>>]
  BY DEF Bisect, Searches, Halved
<1>. QED BY <1>1, <1>2

\* The place a search for t between left and right ends at, if m rows are at or before t.
Ends(m, left, right) ==
    IF left + 1 >= right \/ m < left THEN left ELSE IF m < right THEN m ELSE right - 1

\* On rows in their order a search for t does what is expected of it.
LEMMA EndsSearches ==
    ASSUME NEW n \in Nat, NEW t \in Int, NEW m \in 0..n, NEW s, 
           \A k \in 1..n : s[k].at \in Int,
           \A i, j \in 1..n : i < j => s[i].at < s[j].at,
           \A k \in 1..n : s[k].at <= t <=> k <= m
    PROVE  Searches(s, n, t, [p \in (1..n) \X (1..n) |-> Ends(m, p[1], p[2])])
<1> DEFINE F == [p \in (1..n) \X (1..n) |-> Ends(m, p[1], p[2])]
<1>1. ASSUME NEW l \in 1..n, NEW r \in 1..n
      PROVE  F[<<l, r>>] = Halved(s, t, F, l, r)
  <2>1. F[<<l, r>>] = Ends(m, l, r)
    OBVIOUS
  <2>2. CASE l + 1 >= r
    BY <2>1, <2>2 DEF Ends, Halved
  <2>3. CASE ~(l + 1 >= r)
    <3> DEFINE mid == (l + r) \div 2
    <3>1. mid \in 1..n /\ l < mid /\ mid < r
      BY <2>3
    <3>2. F[<<mid, r>>] = Ends(m, mid, r) /\ F[<<l, mid>>] = Ends(m, l, mid)
      BY <3>1
    <3>3. Halved(s, t, F, l, r) = IF s[mid].at = t THEN mid
                                  ELSE IF s[mid].at < t THEN F[<<mid, r>>] ELSE F[<<l, mid>>]
      BY <2>3 DEF Halved
    <3> HIDE DEF mid, F
    <3>4. CASE s[mid].at = t
      <4>1. mid <= m
        BY <3>1, <3>4
      <4>2. ~(mid < m)
        <5>1. SUFFICES ASSUME mid < m PROVE FALSE
          OBVIOUS
        <5>2. s[m].at <= t /\ s[mid].at < s[m].at /\ s[m].at \in Int
          BY <3>1, <5>1
        <5>. QED BY <5>2, <3>4
      <4>. QED BY <2>1, <2>3, <3>1, <3>3, <3>4, <4>1, <4>2 DEF Ends
    <3>5. CASE s[mid].at < t
      <4>1. mid <= m
        BY <3>1, <3>5
      <4>. QED BY <2>1, <2>3, <3>1, <3>2, <3>3, <3>5, <4>1 DEF Ends
    <3>6. CASE s[mid].at > t
      <4>1. m < mid
        BY <3>1, <3>6
      <4>. QED BY <2>1, <2>3, <3>1, <3>2, <3>3, <3>6, <4>1 DEF Ends
    <3>. QED BY <3>1, <3>4, <3>5, <3>6
  <2>. QED BY <2>2, <2>3
<1>2. \A p \in (1..n) \X (1..n) : F[p] = Halved(s, t, F, p[1], p[2])
  BY <1>1
<1>3. F = [p \in (1..n) \X (1..n) |-> Halved(s, t, F, p[1], p[2])]
  BY <1>2
<1>. QED BY <1>3 DEF Searches

\* A set of numbers that is not empty has a least one.
LEMMA LeastElement ==
    ASSUME NEW S \in SUBSET Nat, S # {}
    PROVE  \E m \in S : \A n \in S : m <= n
<1>. DEFINE R == OpToRel(<, Nat)
<1>1. IsWellFoundedOn(R, Nat)
  BY NatLessThanWellFounded
<1>2. \A x, y \in Nat : <<x, y>> \in R <=> x < y
  BY DEF OpToRel
<1>. HIDE DEF R
<1>3. PICK m \in S : \A n \in S : ~(<<n, m>> \in R)
  BY <1>1, WFMin
<1>4. ASSUME NEW n \in S PROVE m <= n
  <2>1. m \in Nat /\ n \in Nat
    OBVIOUS
  <2>2. ~(n < m)
    BY <1>2, <1>3, <2>1, Zenon
  <2>. QED BY <2>1, <2>2
<1>. QED BY <1>4

\* No two functions search: where they differed on the shortest range, one
\* half of it would be a shorter one.
LEMMA OneSearch ==
    ASSUME NEW n \in Nat, NEW t, NEW s, NEW F, NEW G,
           Searches(s, n, t, F), Searches(s, n, t, G)
    PROVE  F = G
<1> DEFINE D == (1..n) \X (1..n)
           Apart == {k \in Nat : \E l, r \in 1..n : r - l = k /\ F[<<l, r>>] # G[<<l, r>>]}
<1>1. \A l, r \in 1..n : F[<<l, r>>] = Halved(s, t, F, l, r) /\ G[<<l, r>>] = Halved(s, t, G, l, r)
  BY DEF Searches
<1>2. Apart = {}
  <2> SUFFICES ASSUME Apart # {} PROVE FALSE
    OBVIOUS
  <2>1. PICK k \in Apart : \A j \in Apart : k <= j
    BY LeastElement
  <2>2. PICK l \in 1..n, r \in 1..n : r - l = k /\ F[<<l, r>>] # G[<<l, r>>]
    OBVIOUS
  <2> DEFINE mid == (l + r) \div 2
  <2>3. CASE l + 1 >= r
    BY <1>1, <2>2, <2>3 DEF Halved
  <2>4. CASE ~(l + 1 >= r)
    <3>1. mid \in 1..n /\ l < mid /\ mid < r
      BY <2>4
    <3>2. F[<<mid, r>>] = G[<<mid, r>>]
      <4>1. r - mid \in Nat /\ ~(k <= r - mid)
        BY <2>2, <3>1
      <4>2. r - mid \notin Apart
        BY <2>1, <4>1
      <4>. HIDE DEF mid
      <4>. QED BY <3>1, <4>1, <4>2
    <3>3. F[<<l, mid>>] = G[<<l, mid>>]
      <4>1. mid - l \in Nat /\ ~(k <= mid - l)
        BY <2>2, <3>1
      <4>2. mid - l \notin Apart
        BY <2>1, <4>1
      <4>. HIDE DEF mid
      <4>. QED BY <3>1, <4>1, <4>2
    <3>4. Halved(s, t, F, l, r) = Halved(s, t, G, l, r)
      BY <3>2, <3>3 DEF Halved
    <3>. QED BY <1>1, <2>2, <3>4
  <2>. QED BY <2>3, <2>4
<1>3. ASSUME NEW l \in 1..n, NEW r \in 1..n PROVE F[<<l, r>>] = G[<<l, r>>]
  <2>1. CASE r - l \in Nat
    BY <1>2, <2>1
  <2>2. CASE r - l \notin Nat
    <3>1. l + 1 >= r
      BY <2>2
    <3>2. Halved(s, t, F, l, r) = l /\ Halved(s, t, G, l, r) = l
      BY <3>1 DEF Halved
    <3>. QED BY <1>1, <3>2
  <2>. QED BY <2>1, <2>2
<1>4. \A p \in D : F[p] = G[p]
  BY <1>3
<1>5. F = [p \in D |-> F[p]] /\ G = [p \in D |-> G[p]]
  BY DEF Searches
<1>. QED BY <1>4, <1>5

\* The rows in their order: each comes once, and those at or before t come first.
LEMMA SortedRows ==
    ASSUME NEW rows \in SUBSET Row, IsFiniteSet(rows), NEW s \in Sortings(rows), NEW t \in Nat
    PROVE  /\ Cardinality(rows) \in Nat
           /\ s \in [1..Cardinality(rows) -> rows]
           /\ \A i, j \in 1..Cardinality(rows) : i < j => s[i].at < s[j].at
           /\ \A r \in rows : \E i \in 1..Cardinality(rows) : s[i] = r
           /\ \E m \in 0..Cardinality(rows) :
                 \A k \in 1..Cardinality(rows) : s[k].at <= t <=> k <= m
<1> DEFINE n == Cardinality(rows)
<1>1. n \in Nat
  BY FS_CardinalityType
<1>2. s \in [1..n -> rows] /\ \A i, j \in 1..n : i < j => s[i].at < s[j].at
  BY DEF Sortings
<1>3. \A i \in 1..n : s[i].at \in Nat
  BY <1>2 DEF Row
<1>4. \A r \in rows : \E i \in 1..n : s[i] = r
  <2>1. s \in Injection(1..n, rows)
    <3>1. ASSUME NEW i \in 1..n, NEW j \in 1..n, s[i] = s[j] PROVE i = j
      BY <1>1, <1>2, <1>3, <3>1
    <3>. QED BY <1>2, <3>1 DEF Injection, IsInjective
  <2>2. Cardinality(1..n) = n
    BY <1>1, FS_Interval
  <2>3. s \in Surjection(1..n, rows)
    BY <2>1, <2>2, FS_Injection
  <2>. QED BY <2>3 DEF Surjection
<1>5. \E m \in 0..n : \A k \in 1..n : s[k].at <= t <=> k <= m
  <2> DEFINE After == {k \in 1..n : s[k].at > t}
  <2>1. CASE After = {}
    <3>1. \A k \in 1..n : s[k].at <= t
      BY <1>3, <2>1
    <3>. QED BY <1>1, <3>1
  <2>2. CASE After # {}
    <3>1. After \in SUBSET Nat
      OBVIOUS
    <3>. HIDE DEF After
    <3>2. PICK f \in After : \A k \in After : f <= k
      BY <2>2, <3>1, LeastElement
    <3>3. f \in 1..n /\ s[f].at > t /\ \A k \in 1..n : s[k].at > t => f <= k
      BY <3>2 DEF After
    <3>4. ASSUME NEW k \in 1..n PROVE s[k].at <= t <=> k <= f - 1
      <4>1. CASE k < f
        BY <1>3, <3>3, <4>1
      <4>2. CASE k = f
        BY <1>3, <3>3, <4>2
      <4>3. CASE f < k
        <5>1. s[f].at < s[k].at
          BY <1>2, <3>3, <4>3
        <5>. QED BY <1>3, <3>3, <4>3, <5>1
      <4>. QED BY <3>3, <4>1, <4>2, <4>3
    <3>5. f - 1 \in 0..n
      BY <1>1, <3>3
    <3>. QED BY <3>4, <3>5
  <2>. QED BY <2>1, <2>2
<1>. QED BY <1>1, <1>2, <1>4, <1>5

\* Between the first row and the last the binary search ends at the last row
\* at or before t.
LEMMA BisectFinds ==
    ASSUME NEW n \in Nat \ {0}, NEW t \in Nat, NEW m \in 0..n, NEW s,
           \A k \in 1..n : s[k].at \in Int,
           \A i, j \in 1..n : i < j => s[i].at < s[j].at,
           \A k \in 1..n : s[k].at <= t <=> k <= m,
           1 <= m, m < n
    PROVE  Bisect(s, n, t) = m
<1> DEFINE F == [p \in (1..n) \X (1..n) |-> Ends(m, p[1], p[2])]
<1>1. Searches(s, n, t, F)
  <2>1. n \in Nat /\ t \in Int
    OBVIOUS
  <2>. QED BY <2>1, EndsSearches
<1>2. \A G : Searches(s, n, t, G) => G = F
  BY <1>1, OneSearch
<1>3. F[<<1, n>>] = m
  BY DEF Ends
<1>. HIDE DEF F
<1>4. Bisect(s, n, t) = F[<<1, n>>]
  BY <1>1, <1>2, BisectIs
<1>. QED BY <1>3, <1>4

\* The search finds the row of the reference, if that is near, and none
\* otherwise.
LEMMA FindsFloor ==
    ASSUME NEW rows \in SUBSET Row, IsFiniteSet(rows), NEW s \in Sortings(rows), NEW t \in Nat,
           FindClosest(s, Cardinality(rows), t) # None
    PROVE  /\ FindClosest(s, Cardinality(rows), t) \in rows
           /\ FindClosest(s, Cardinality(rows), t) = Floor(rows, t)
           /\ t - Floor(rows, t).at <= Window
<1> DEFINE n == Cardinality(rows)
           found == FindClosest(s, n, t)
<1>1. /\ n \in Nat /\ s \in [1..n -> rows]
      /\ \A i, j \in 1..n : i < j => s[i].at < s[j].at
      /\ \A r \in rows : \E i \in 1..n : s[i] = r
  BY SortedRows
<1>2. PICK m \in 0..n : \A k \in 1..n : s[k].at <= t <=> k <= m
  BY SortedRows
<1>3. n # 0
  BY DEF FindClosest
<1>4. \A i \in 1..n : s[i].at \in Nat /\ s[i] \in rows
  BY <1>1 DEF Row
<1>5. \A i, j \in 1..n : i <= j => s[i].at <= s[j].at
  <2>1. ASSUME NEW i \in 1..n, NEW j \in 1..n, i <= j PROVE s[i].at <= s[j].at
    <3>1. CASE i = j
      BY <1>4, <3>1
    <3>2. CASE i < j
      BY <1>1, <1>4, <3>2
    <3>. QED BY <2>1, <3>1, <3>2
  <2>. QED BY <2>1
<1> HIDE DEF n
<1>10. found # None
  BY DEF n
<1> DEFINE before == {r \in rows : r.at <= t}
<1>6. \A k \in 1..m : s[k] \in before
  BY <1>1, <1>2, <1>4
<1>7. ASSUME NEW r \in before PROVE \E k \in 1..m : s[k] = r
  BY <1>1, <1>2
<1>8. CASE m = 0
  <2>1. before = {}
    BY <1>7, <1>8
  <2>2. t < s[1].at /\ s[1] \in rows
    BY <1>1, <1>2, <1>3, <1>4, <1>8
  <2>3. found = s[1]
    BY <1>1, <1>3, <1>4, <2>2 DEF FindClosest, n
  <2>4. \A r \in rows : s[1].at <= r.at /\ (r.at <= s[1].at => r = s[1])
    <3>1. ASSUME NEW r \in rows PROVE s[1].at <= r.at /\ (r.at <= s[1].at => r = s[1])
      <4>1. PICK i \in 1..n : s[i] = r
        BY <1>1
      <4>2. i = 1 \/ (1 < i /\ 1 \in 1..n)
        BY <1>1, <1>3
      <4>. QED BY <1>1, <1>4, <4>1, <4>2
    <3>. QED BY <3>1
  <2>5. Floor(rows, t) = CHOOSE r \in rows : \A q \in rows : r.at <= q.at
    BY <2>1 DEF Floor
  <2>6. Floor(rows, t) = s[1]
    BY <2>2, <2>4, <2>5
  <2>7. t - s[1].at <= Window
    BY <2>2, <1>4, <1>1, <1>3, WindowIsNat
  <2>. QED BY <2>2, <2>3, <2>6, <2>7 DEF n
<1>9. CASE m # 0
  <2>1. m \in 1..n /\ s[m] \in before /\ s[m] \in rows /\ s[m].at \in Nat /\ s[m].at <= t
    BY <1>1, <1>2, <1>4, <1>6, <1>9
  <2>2. \A r \in before : r.at <= s[m].at /\ (s[m].at <= r.at => r = s[m])
    <3>1. ASSUME NEW r \in before PROVE r.at <= s[m].at /\ (s[m].at <= r.at => r = s[m])
      <4>1. PICK k \in 1..m : s[k] = r
        BY <1>7
      <4>2. k = m \/ (k < m /\ k \in 1..n)
        BY <1>1, <2>1
      <4>. QED BY <1>1, <1>4, <2>1, <4>1, <4>2
    <3>. QED BY <3>1
  <2>3. Floor(rows, t) = CHOOSE r \in before : \A q \in before : q.at <= r.at
    BY <2>1 DEF Floor
  <2> HIDE DEF before
  <2>4. Floor(rows, t) = s[m]
    BY <2>1, <2>2, <2>3
  <2>5. found = s[m] /\ t - s[m].at <= Window
    <3>1. CASE t <= s[1].at
      <4>1. m = 1 /\ s[1].at = t
        <5>1. s[1].at <= s[m].at /\ s[1].at \in Nat
          BY <1>1, <1>3, <1>4, <1>5, <2>1
        <5>2. ~(1 < m)
          BY <1>1, <1>4, <2>1, <3>1, <5>1
        <5>. QED BY <2>1, <3>1, <5>1, <5>2
      <4>. QED BY <1>1, <1>3, <2>1, <3>1, <4>1, WindowIsNat DEF FindClosest, n
    <3>2. CASE ~(t <= s[1].at) /\ t >= s[n].at
      <4>1. m = n
        BY <1>1, <1>2, <1>3, <1>4, <3>2
      <4>2. found = NearRow(s, m, t)
        BY <1>1, <1>3, <3>2, <4>1 DEF FindClosest, n
      <4>. QED BY <1>10, <2>1, <4>2, WindowIsNat DEF NearRow, Far
    <3>3. CASE ~(t <= s[1].at) /\ ~(t >= s[n].at)
      <4>1. m < n
        BY <1>1, <1>2, <1>3, <1>4, <3>3
      <4>2. Bisect(s, n, t) = m
        <5>1. n \in Nat \ {0} /\ 1 <= m /\ \A k \in 1..n : s[k].at \in Int
          BY <1>1, <1>3, <1>4, <2>1
        <5>. QED BY <1>1, <1>2, <4>1, <5>1, BisectFinds
      <4>3. found = NearRow(s, m, t)
        BY <1>1, <1>3, <3>3, <4>2 DEF FindClosest, n
      <4>. QED BY <1>10, <2>1, <4>3, WindowIsNat DEF NearRow, Far
    <3>. QED BY <3>1, <3>2, <3>3
  <2>. QED BY <2>1, <2>4, <2>5 DEF n
<1>. QED BY <1>8, <1>9

Distance(x, t) == IF x < t THEN t - x ELSE x - t

\* The search is not for the closest price, whatever the comments of
\* getTokenPrices ("Uses binary search to find the closest price for each
\* requested timestamp") and of findClosestPrice say: when a row after the time
\* is closer than every row up to it, the row found is one of the latter, and
\* further away, in every table that has a near row before the time.
THEOREM CloserIsMissed ==
    ASSUME NEW rows \in SUBSET Row, IsFiniteSet(rows), NEW s \in Sortings(rows), NEW t \in Nat,
           NEW a \in rows, a.at <= t, t - a.at <= Window,
           NEW b \in rows, t < b.at, \A r \in rows : r.at <= t => b.at - t < t - r.at
    PROVE  LET found == FindClosest(s, Cardinality(rows), t) IN
           found \in rows /\ Distance(b.at, t) < Distance(found.at, t)
<1> DEFINE n == Cardinality(rows)
<1>1. /\ n \in Nat /\ s \in [1..n -> rows]
      /\ \A i, j \in 1..n : i < j => s[i].at < s[j].at
      /\ \A r \in rows : \E i \in 1..n : s[i] = r
  BY SortedRows
<1>2. PICK m \in 0..n : \A k \in 1..n : s[k].at <= t <=> k <= m
  BY SortedRows
<1>3. \A k \in 1..n : s[k].at \in Nat /\ s[k] \in rows
  BY <1>1 DEF Row
<1>4. PICK i \in 1..n, j \in 1..n : s[i] = a /\ s[j] = b
  BY <1>1
<1> HIDE DEF n
<1>5. i <= m /\ m < j /\ m \in 1..n /\ 1 <= m /\ m < n /\ n # 0
  BY <1>1, <1>2, <1>3, <1>4
<1>6. s[m].at \in Nat /\ s[m].at <= t /\ s[m] \in rows /\ b.at \in Nat
  BY <1>2, <1>3, <1>4, <1>5
<1>7. b.at - t < t - s[m].at
  BY <1>6
<1>8. a.at <= s[m].at
  BY <1>1, <1>3, <1>4, <1>5
<1>9. ~(t <= s[1].at)
  <2>1. s[1].at <= s[m].at /\ s[1].at \in Nat
    BY <1>1, <1>3, <1>5
  <2>. QED BY <1>6, <1>7, <2>1
<1>10. ~(t >= s[n].at)
  BY <1>1, <1>2, <1>3, <1>5
<1>11. Bisect(s, n, t) = m
  <2>1. n \in Nat \ {0} /\ \A k \in 1..n : s[k].at \in Int
    BY <1>1, <1>3, <1>5
  <2>. QED BY <1>1, <1>2, <1>5, <2>1, BisectFinds
<1>12. ~Far(s, m, t)
  BY <1>4, <1>3, <1>6, <1>8, WindowIsNat DEF Far
<1>13. FindClosest(s, n, t) = s[m]
  BY <1>5, <1>9, <1>10, <1>11, <1>12 DEF FindClosest, NearRow
<1>. QED BY <1>6, <1>7, <1>13 DEF Distance, n

-----------------------------------------------------------------------------
(* The calls. *)

\* The invariant holds in the initial state.
LEMMA InitSound == Init => IInv
<1> SUFFICES ASSUME Init PROVE IInv
  OBVIOUS
<1>1. IsFiniteSet(cache)
  BY FS_EmptySet DEF Init
<1>. QED BY <1>1 DEF Init, IInv, PriceIsNear, SearchFindsFloor, NoAnswer, Idle, RowIsSound

\* A price taken from the cache is near.
LEMMA HitIsNear ==
    ASSUME IInv, NEW c \in Chains, NEW t \in 0..now, Hit(c, t)
    PROVE  IInv'
<1> DEFINE rows == RowsBefore(t)
           n == Cardinality(rows)
<1>1. rows \subseteq cache /\ rows \in SUBSET Row /\ t \in Nat
  BY DEF IInv, RowsBefore, Rows
<1>2. IsFiniteSet(rows) /\ rows # {}
  BY <1>1, FS_Subset DEF Hit, IInv
<1>3. \A r \in rows : r.at <= t /\ t - Window <= r.at
  BY DEF RowsBefore, Rows
<1>4. PICK s \in Sortings(rows) :
         /\ FindClosest(s, n, t) # None
         /\ answer' = [call |-> "price", searched |-> rows,
                       prices |-> {[at |-> t, origin |-> FindClosest(s, n, t).origin]}]
  BY DEF Hit
<1> DEFINE r == FindClosest(s, n, t)
<1>5. r \in rows /\ r = Floor(rows, t) /\ t - Floor(rows, t).at <= Window
  BY <1>1, <1>2, <1>4, FindsFloor
<1> HIDE DEF r
<1>6. r \in Row /\ RowIsSound(r) /\ r.at <= t /\ t - Window <= r.at
  BY <1>1, <1>3, <1>5 DEF IInv
<1>7. answer'.prices = {[at |-> t, origin |-> r.origin]}
  BY <1>4 DEF r
<1>8. PriceIsNear'
  BY <1>1, <1>6, <1>7, WindowIsNat, PricingAssumption DEF PriceIsNear, RowIsSound, Row, Window
<1>9. SearchFindsFloor'
  BY <1>4, <1>5, <1>7 DEF SearchFindsFloor
<1>10. UNCHANGED <<now, cache, writes, asking>>
  BY DEF Hit
<1>. QED BY <1>8, <1>9, <1>10 DEF IInv, RowIsSound

\* A price the source gave is near, and so is the row that is stored of it.
LEMMA FetchedIsNear ==
    ASSUME IInv, NEW c \in Chains, NEW t \in 0..now, Fetched(c, t)
    PROVE  IInv'
<1>1. now \in Nat /\ t \in Nat /\ t <= now
  BY DEF IInv
<1>2. PICK q \in Range1(t) :
         /\ answer' = [call |-> "price", searched |-> {},
                       prices |-> {[at |-> t, origin |-> q]}]
         /\ writes' = writes \cup {Stored(t, q)}
  BY DEF Fetched
<1>3. q \in Nat /\ q <= t + TimeDelta /\ t - q <= TimeDelta + Lag
  BY <1>1, PricingAssumption DEF Range1, Quoted
<1>4. Stored(t, q) \in Row /\ RowIsSound(Stored(t, q))
  BY <1>1, <1>3 DEF Stored, Row, RowIsSound
<1>5. PriceIsNear'
  BY <1>1, <1>2, <1>3, WindowIsNat, PricingAssumption DEF PriceIsNear, Window
<1>6. UNCHANGED <<now, cache>> /\ asking' = [asking EXCEPT ![c] = Idle]
  BY DEF Fetched
<1>7. SearchFindsFloor'
  BY <1>2 DEF SearchFindsFloor
<1>. QED BY <1>2, <1>4, <1>5, <1>6, <1>7 DEF IInv, Idle, RowIsSound

\* The prices a batch is given are those of the floors of its times.
LEMMA ClosestAreFloors ==
    ASSUME NEW rows \in SUBSET Row, IsFiniteSet(rows), NEW s \in Sortings(rows),
           NEW T \in SUBSET Nat, HasAll(s, Cardinality(rows), T),
           answer'.searched = rows, answer'.prices = Closest(s, Cardinality(rows), T)
    PROVE  SearchFindsFloor'
<1> SUFFICES ASSUME NEW p \in Closest(s, Cardinality(rows), T)
             PROVE  /\ p.origin = Floor(rows, p.at).origin
                    /\ p.at - Floor(rows, p.at).at <= Window
  BY DEF SearchFindsFloor
<1>1. PICK t \in T : p = [at |-> t, origin |-> FindClosest(s, Cardinality(rows), t).origin]
  BY DEF Closest
<1>2. FindClosest(s, Cardinality(rows), t) # None
  BY DEF HasAll
<1>3. /\ FindClosest(s, Cardinality(rows), t) = Floor(rows, t)
      /\ t - Floor(rows, t).at <= Window
  BY <1>2, FindsFloor
<1>. QED BY <1>1, <1>3

\* A batch answered from the cache.
LEMMA BulkHitFinds ==
    ASSUME IInv, NEW c \in Chains, NEW T \in Batches, BulkHit(c, T)
    PROVE  IInv'
<1>1. RowsOf(T) \subseteq cache
  BY DEF RowsOf, Rows
<1>2. RowsOf(T) \in SUBSET Row /\ IsFiniteSet(RowsOf(T)) /\ T \in SUBSET Nat
  BY <1>1, FS_Subset DEF IInv, Batches
<1>3. PICK s \in Sortings(RowsOf(T)) :
         /\ HasAll(s, Cardinality(RowsOf(T)), T)
         /\ answer' = [call |-> "prices", searched |-> RowsOf(T),
                       prices |-> Closest(s, Cardinality(RowsOf(T)), T)]
  BY DEF BulkHit
<1>4. answer'.searched = RowsOf(T) /\ answer'.prices = Closest(s, Cardinality(RowsOf(T)), T)
      /\ answer'.call # "price"
  BY <1>3
<1>5. SearchFindsFloor'
  BY <1>2, <1>3, <1>4, ClosestAreFloors
<1>6. UNCHANGED <<now, cache, writes, asking>>
  BY DEF BulkHit
<1>. QED BY <1>4, <1>5, <1>6 DEF IInv, PriceIsNear, RowIsSound

\* Rows of a batch have the time of their price, and there are finitely many.
LEMMA QuotedRows ==
    ASSUME now \in Nat, NEW from, NEW to
    PROVE  LET rows == {Stored(q, q) : q \in Quoted(from, to)}
           IN  /\ rows \in SUBSET Row /\ IsFiniteSet(rows)
               /\ \A r \in rows : RowIsSound(r)
<1> DEFINE rows == {Stored(q, q) : q \in Quoted(from, to)}
<1>1. Quoted(from, to) \in SUBSET Nat /\ \A q \in Quoted(from, to) : q <= now
  BY PricingAssumption DEF Quoted
<1>2. IsFiniteSet(Quoted(from, to))
  BY <1>1, FS_BoundedSetOfNaturals
<1>3. ASSUME NEW q \in Nat PROVE Stored(q, q) \in Row /\ RowIsSound(Stored(q, q))
  BY PricingAssumption DEF Stored, Row, RowIsSound
<1>4. IsFiniteSet(rows)
  <2> DEFINE f == [q \in Quoted(from, to) |-> Stored(q, q)]
  <2>1. f \in Surjection(Quoted(from, to), rows)
    BY DEF Surjection
  <2>. QED BY <1>2, <2>1, FS_Surjection
<1>. QED BY <1>1, <1>3, <1>4

\* A batch answered from the source.
LEMMA BulkFetchedFinds ==
    ASSUME IInv, NEW c \in Chains, BulkFetched(c)
    PROVE  IInv'
<1> DEFINE T == asking[c].times
           rows == {Stored(q, q) : q \in RangeOf(T)}
<1>1. rows \in SUBSET Row /\ IsFiniteSet(rows) /\ \A r \in rows : RowIsSound(r)
  BY QuotedRows DEF IInv, RangeOf
<1>2. writes' = writes \cup rows /\ UNCHANGED <<now, cache>>
      /\ asking' = [asking EXCEPT ![c] = Idle]
  BY DEF BulkFetched
<1>3. PICK s \in Sortings(rows) :
         answer' = IF HasAll(s, Cardinality(rows), T)
                   THEN [call |-> "prices", searched |-> rows,
                         prices |-> Closest(s, Cardinality(rows), T)]
                   ELSE NoAnswer
  BY DEF BulkFetched
<1>4. T \in SUBSET Nat
  BY DEF IInv
<1> HIDE DEF T, rows
<1>5. answer'.call # "price"
  BY <1>3 DEF NoAnswer
<1>6. SearchFindsFloor'
  <2>1. CASE HasAll(s, Cardinality(rows), T)
    <3>1. answer'.searched = rows /\ answer'.prices = Closest(s, Cardinality(rows), T)
      BY <1>3, <2>1
    <3>. QED BY <1>1, <1>4, <2>1, <3>1, ClosestAreFloors
  <2>2. CASE ~HasAll(s, Cardinality(rows), T)
    BY <1>3, <2>2 DEF NoAnswer, SearchFindsFloor
  <2>. QED BY <2>1, <2>2
<1>. QED BY <1>1, <1>2, <1>5, <1>6 DEF IInv, Idle, PriceIsNear, RowIsSound

\* A write that lands keeps the table finite and sound.
LEMMA LandIsSound ==
    ASSUME IInv, NEW w \in writes, Land(w)
    PROVE  IInv'
<1>1. IsFiniteSet({r \in cache : r.at # w.at})
  BY FS_Subset DEF IInv
<1>2. IsFiniteSet(cache')
  BY <1>1, FS_AddElement DEF Land
<1>3. cache' \subseteq cache \cup writes /\ writes' \subseteq writes
  BY DEF Land
<1>. QED BY <1>2, <1>3 DEF IInv, Land, PriceIsNear, SearchFindsFloor, RowIsSound

\* Every step keeps the invariant.
LEMMA NextSound == IInv /\ [Next]_vars => IInv'
<1> SUFFICES ASSUME IInv, [Next]_vars PROVE IInv'
  OBVIOUS
<1>1. CASE Tick
  BY <1>1 DEF Tick, IInv, PriceIsNear, SearchFindsFloor, RowIsSound
<1>2. ASSUME NEW c \in Chains, NEW t \in 0..now, Hit(c, t) PROVE IInv'
  BY <1>2, HitIsNear
<1>3. ASSUME NEW c \in Chains, NEW t \in 0..now, Miss(c, t) PROVE IInv'
  BY <1>3 DEF Miss, IInv, PriceIsNear, SearchFindsFloor, RowIsSound
<1>4. ASSUME NEW c \in Chains, NEW t \in 0..now, Fetched(c, t) PROVE IInv'
  BY <1>4, FetchedIsNear
<1>5. ASSUME NEW c \in Chains, NEW T \in Batches, BulkHit(c, T) PROVE IInv'
  BY <1>5, BulkHitFinds
<1>6. ASSUME NEW c \in Chains, NEW T \in Batches, BulkMiss(c, T) PROVE IInv'
  <2>1. UNCHANGED <<now, cache, writes, answer>> /\ T \in SUBSET Nat
        /\ asking' = [asking EXCEPT ![c] = [call |-> "prices", times |-> T]]
    BY <1>6 DEF BulkMiss, Batches, IInv
  <2>. QED BY <2>1 DEF IInv, PriceIsNear, SearchFindsFloor, RowIsSound
<1>7. ASSUME NEW c \in Chains, BulkFetched(c) PROVE IInv'
  BY <1>7, BulkFetchedFinds
<1>8. ASSUME NEW c \in Chains, Unavailable(c) PROVE IInv'
  BY <1>8 DEF Unavailable, NoAnswer, Idle, IInv, PriceIsNear, SearchFindsFloor, RowIsSound
<1>9. ASSUME NEW w \in writes, Land(w) PROVE IInv'
  BY <1>9, LandIsSound
<1>10. CASE UNCHANGED vars
  BY <1>10 DEF vars, IInv, PriceIsNear, SearchFindsFloor, RowIsSound
<1>. QED BY <1>1, <1>2, <1>3, <1>4, <1>5, <1>6, <1>7, <1>8, <1>9, <1>10 DEF Next

\* The price of an event was quoted at most TimeDelta after it and at most the
\* window, the range and the lag before it, for every source, every number of
\* loops and every length of the window and the range.
THEOREM PriceNear == Spec => []PriceIsNear
<1>1. IInv => PriceIsNear
  BY DEF IInv
<1>. QED BY <1>1, InitSound, NextSound, PTL DEF Spec

\* The search that stops at the closest row before a time finds, in every table
\* of rows and prices under way that can come about, the row of its reference,
\* and no price from further than the window before its event is given out.
THEOREM SearchIsFloor == Spec => []SearchFindsFloor
<1>1. IInv => SearchFindsFloor
  BY DEF IInv
<1>. QED BY <1>1, InitSound, NextSound, PTL DEF Spec
=============================================================================
