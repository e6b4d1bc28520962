--------------------------- MODULE RegistryProofs ---------------------------
(***************************************************************************)
(* The properties of Registry and Roles, for all accounts, profiles, pools *)
(* and documents and any number of calls and losses.  The feed holds what  *)
(* the contracts said and the indexer has not handled.  The invariant says *)
(* that the tables are where the contracts were before the feed: for each  *)
(* profile or pool no event of which was lost there is a history, a value  *)
(* before the feed and after each of its events, that ends where the       *)
(* contract is, starts where the tables are, and makes at each event the   *)
(* move the event records.  A call of the contracts lengthens the history  *)
(* at its end, a handler takes its first move.  This needs the shape of    *)
(* the feed as well: a creation is in it once, before what builds on it,   *)
(* and no role is parked twice before it, so that the creation is never    *)
(* refused for a role it would insert twice.                               *)
(***************************************************************************)
EXTENDS Registry, FunctionTheorems, FiniteSetTheorems, SequenceTheorems, TLAPS

RoleTypes == {"granted", "revoked", "created", "ownerUpdated"}
ProfileTypes == {"ProfileNameUpdated", "ProfileMetadataUpdated", "Registered"}

Grantable == UNION {RolesOf(x) : x \in Entities}
AllRoles == [kind : {"owner", "member", "admin", "manager"}, of : Entities, account : Accounts]
RoleEvents == [type : RoleTypes, role : AllRoles]
DataEvents ==
    UNION {[type : {"ProfileNameUpdated"}, about : Profiles, data : Nat],
           [type : {"ProfileMetadataUpdated"}, about : Profiles, data : Documents],
           [type : {"Registered"}, about : Profiles, data : [of : Profiles, version : Nat]],
           [type : {"OnAttested"}, about : Uids, data : Listings]}
Feedable == RoleEvents \cup DataEvents
Row(p) == {row \in ProjectRow : row.anchor.of = p}

\* The roles an event of this kind may carry
Fits(e) ==
    /\ e.type \in {"granted", "revoked"} => e.role \in RolesOf(e.role.of)
    /\ e.type = "created" /\ e.role.of \in Profiles => e.role.kind = "owner"
    /\ e.type = "ownerUpdated" => e.role.of \in Profiles /\ e.role.kind = "owner"

TypeOK ==
    /\ owner \in [Profiles -> Accounts \cup {NoAccount}]
    /\ pools \subseteq Pools /\ holders \subseteq Grantable
    /\ feed \in Seq(RoleEvents \cup DataEvents)
    /\ \A i \in DOMAIN feed : Fits(feed[i])
    /\ created \subseteq Entities /\ rows \subseteq AllRoles
    /\ \A r \in rows : r \in RolesOf(r.of) \/ (r.kind = "owner" /\ r.of \in Profiles)
    /\ pending \in [Grantable -> Nat]
    /\ profile \in [Profiles -> [version : Nat, doc : Documents \cup {Null}, first : Documents \cup {Null}]]
    /\ attested \in [Uids -> Listings \cup {Null}]
    /\ DOMAIN projects = Profiles
    /\ \A p \in Profiles : projects[p] # Null => projects[p] \in Row(p)
    /\ attestations \subseteq Uids

\* The places of the feed where x is created, r is granted or revoked, and
\* where another event of x is.
CreatedAt(i, x) == feed[i].type = "created" /\ feed[i].role.of = x
GrantedAt(i, r) == feed[i].type = "granted" /\ feed[i].role = r
RevokedAt(i, r) == feed[i].type = "revoked" /\ feed[i].role = r
OwnedAt(i, p)   == feed[i].type = "ownerUpdated" /\ feed[i].role.of = p
RoleAt(i, x)    == feed[i].type \in RoleTypes /\ feed[i].role.of = x
DataAt(i, p)    == feed[i].type \in ProfileTypes /\ feed[i].about = p
LaterAt(i, x) ==
    \/ RoleAt(i, x) /\ feed[i].type \in {"revoked", "ownerUpdated"}
    \/ DataAt(i, x)
AttestedAt(i, u) == feed[i].type = "OnAttested" /\ feed[i].about = u

\* Nothing is known of what the contracts did not create.
NothingBefore ==
    /\ \A x \in Entities : ~Exists(x) =>
          /\ x \notin created /\ Held(x) = {} /\ PendingRows(x) = {}
          /\ \A i \in DOMAIN feed : ~RoleAt(i, x) /\ ~DataAt(i, x)
          /\ x \in Profiles => profile[x].version = 0
    /\ \A q \in pools : Exists(ProfileOf[q])

\* A creation comes once, before the other events, and before the pools.
CreatedOnce ==
    \A x \in Entities :
        /\ x \in created => \A i \in DOMAIN feed : ~CreatedAt(i, x)
        /\ \A i, j \in DOMAIN feed : CreatedAt(i, x) =>
              /\ CreatedAt(j, x) => i = j
              /\ LaterAt(j, x) => i < j
              /\ \A q \in Pools : ProfileOf[q] = x /\ CreatedAt(j, q) => i < j

\* Rows are of what is created, pending rows of what is not.
RowsOfCreated ==
    \A x \in Entities : IF x \in created THEN PendingRows(x) = {} ELSE Stored(x) = {}

\* No role is parked twice before the creation that converts it.
ParkedOnce ==
    \A x \in Entities : \A i \in DOMAIN feed : CreatedAt(i, x) =>
        \A r \in RolesOf(x) :
            /\ pending[r] <= 1
            /\ \A j \in DOMAIN feed : j < i /\ GrantedAt(j, r) =>
                  /\ pending[r] = 0
                  /\ \A k \in DOMAIN feed : k < i /\ GrantedAt(k, r) => k = j

\* The creation of x was not lost.
Sound(x) == x \notin damaged \/ \E q \in Pools : ProfileOf[q] = x /\ q \notin damaged

Arrives ==
    \A x \in Entities : Exists(x) /\ Sound(x) =>
        x \in created \/ \E i \in DOMAIN feed : CreatedAt(i, x)

\* The roles of x in the tables
Has(x) == {r \in RolesOf(x) : r \in rows \/ pending[r] > 0}

\* What the contract said of something before the feed and after each of its
\* events: values of V, each of which follows from the one before it by a move,
\* <<value, event, value>>.
History(h, V, moves) ==
    /\ h \in [0..Len(feed) -> V]
    /\ \A i \in 1..Len(feed) : <<h[i - 1], feed[i], h[i]>> \in moves

OfRole(e, x) == e.type \in RoleTypes /\ e.role.of = x
About(e, t, p) == e.type = t /\ e.about = p

RoleMove(x, a, e, b) ==
    /\ OfRole(e, x) /\ e.type = "granted" => e.role \notin a /\ b = a \cup {e.role}
    /\ OfRole(e, x) /\ e.type = "revoked" => b = a \ {e.role}
    /\ ~(OfRole(e, x) /\ e.type \in {"granted", "revoked"}) => b = a

OwnerMove(p, a, e, b) ==
    b = IF OfRole(e, p) /\ e.type \in {"created", "ownerUpdated"} THEN e.role.account ELSE a

DocumentMove(p, a, e, b) == b = IF About(e, "ProfileMetadataUpdated", p) THEN e.data ELSE a

VersionMove(p, a, e, b) ==
    /\ b = IF About(e, "ProfileNameUpdated", p) THEN e.data ELSE a
    /\ About(e, "Registered", p) => e.data = Anchor(p, b)

RoleMoves(x) ==
    {t \in (SUBSET RolesOf(x)) \X Feedable \X (SUBSET RolesOf(x)) : RoleMove(x, t[1], t[2], t[3])}
OwnerMoves(p)    == {t \in Accounts \X Feedable \X Accounts : OwnerMove(p, t[1], t[2], t[3])}
DocumentMoves(p) == {t \in Documents \X Feedable \X Documents : DocumentMove(p, t[1], t[2], t[3])}
VersionMoves(p)  == {t \in Nat \X Feedable \X Nat : VersionMove(p, t[1], t[2], t[3])}

\* The tables are where the contract was before the feed: the roles, up to
\* those a profile lost with another member,
RolesBehindOf(x) ==
    \E h : /\ History(h, SUBSET RolesOf(x), RoleMoves(x))
           /\ h[Len(feed)] = Held(x)
           /\ Has(x) \subseteq h[0]
           /\ x \in Pools => h[0] \subseteq Has(x)

RolesBehind == \A x \in Entities : Exists(x) /\ x \notin damaged => RolesBehindOf(x)

\* the owner,
OwnerBehindOf(p) ==
    \E h : /\ History(h, Accounts, OwnerMoves(p))
           /\ h[Len(feed)] = owner[p]
           /\ p \in created => {r \in Stored(p) : r.kind = "owner"} = {Role("owner", p, h[0])}

OwnerBehind == \A p \in Profiles : Exists(p) /\ p \notin damaged => OwnerBehindOf(p)

\* the document,
DocumentBehindOf(p) ==
    \E h : /\ History(h, Documents, DocumentMoves(p))
           /\ h[Len(feed)] = profile[p].doc
           /\ <<p, "doc">> \notin stale =>
                 IF p \in created
                 THEN /\ projects[p].metadata = IF Usable(h[0]) THEN h[0] ELSE Null
                      /\ projects[p].type = TypeOf(h[0])
                 ELSE profile[p].first = h[0]

DocumentBehind == \A p \in Profiles : Exists(p) /\ p \notin damaged => DocumentBehindOf(p)

\* and the version of the anchor.
VersionBehindOf(p) ==
    \E h : /\ History(h, Nat, VersionMoves(p))
           /\ h[Len(feed)] = profile[p].version
           /\ <<p, "anchor">> \notin stale =>
                 IF p \in created THEN projects[p].anchor = Anchor(p, h[0]) ELSE h[0] = 0

VersionBehind == \A p \in Profiles : Exists(p) /\ p \notin damaged => VersionBehindOf(p)

RowsOfProjects == \A p \in Profiles : p \in created <=> projects[p] # Null

\* An attestation is in the feed, or it was handled.
AttestationsBehind ==
    \A u \in Uids :
        /\ {t \in txns : t[1] = u} =
              IF u \in attestations THEN {<<u, t>> : t \in ToSet(attested[u])} ELSE {}
        /\ u \in attestations => attested[u] # Null /\ NoDuplicates(attested[u])
        /\ u \in missing => attested[u] # Null
        /\ \A i \in DOMAIN feed : AttestedAt(i, u) =>
              /\ feed[i].data = attested[u] /\ attested[u] # Null
              /\ u \notin attestations /\ u \notin missing
              /\ \A j \in DOMAIN feed : AttestedAt(j, u) => j = i
        /\ attested[u] # Null /\ NoDuplicates(attested[u]) =>
              u \in attestations \/ u \in missing \/ \E i \in DOMAIN feed : AttestedAt(i, u)

IInv ==
    /\ TypeOK /\ NothingBefore /\ CreatedOnce /\ RowsOfCreated /\ ParkedOnce /\ Arrives
    /\ RolesBehind /\ OwnerBehind
    /\ RowsOfProjects /\ DocumentBehind /\ VersionBehind /\ AttestationsBehind
-----------------------------------------------------------------------------
(* Roles and the shape of the feed. *)

\* The roles of a profile are its members, those of a pool its admins and managers.
LEMMA RoleFacts ==
    /\ \A x \in Entities : \A r \in RolesOf(x) :
          r.of = x /\ r \in AllRoles /\ r \in Grantable /\ r.kind # "owner"
    /\ \A r \in Grantable : r \in RolesOf(r.of) /\ r.of \in Entities
    /\ \A p \in Profiles : p \in Entities /\ p \notin Pools /\ KindsOf(p) = {"member"}
    /\ \A q \in Pools : q \in Entities /\ q \notin Profiles /\ ProfileOf[q] \in Profiles
                        /\ KindsOf(q) = {"admin", "manager"}
    /\ \A p \in Profiles, a \in Accounts :
          Role("owner", p, a) \in AllRoles /\ Role("owner", p, a) \notin RolesOf(p)
<1>1. \A x \in Entities : KindsOf(x) \subseteq {"member", "admin", "manager"}
  BY DEF KindsOf
<1>2. \A p \in Profiles : p \in Entities /\ p \notin Pools /\ KindsOf(p) = {"member"}
  BY RolesAssumption DEF Entities, KindsOf
<1>3. \A q \in Pools : q \in Entities /\ q \notin Profiles /\ ProfileOf[q] \in Profiles
                        /\ KindsOf(q) = {"admin", "manager"}
  BY RolesAssumption DEF Entities, KindsOf
<1>4. ASSUME NEW x \in Entities, NEW r \in RolesOf(x)
      PROVE  r.of = x /\ r \in AllRoles /\ r \in Grantable /\ r.kind # "owner"
  <2>1. PICK k \in KindsOf(x), a \in Accounts : r = Role(k, x, a)
    BY DEF RolesOf
  <2>. QED BY <1>1, <2>1 DEF Role, AllRoles, Grantable
<1>5. \A r \in Grantable : r \in RolesOf(r.of) /\ r.of \in Entities
  BY <1>4 DEF Grantable
<1>6. \A p \in Profiles, a \in Accounts :
          Role("owner", p, a) \in AllRoles /\ Role("owner", p, a) \notin RolesOf(p)
  BY <1>2, <1>4 DEF Role, AllRoles
<1>. QED BY <1>2, <1>3, <1>4, <1>5, <1>6

\* The feed grows at its end,
Grown(es) ==
    /\ feed' \in Seq(Feedable) /\ Len(feed) \in Nat /\ Len(es) \in Nat
    /\ Len(feed') = Len(feed) + Len(es)
    /\ \A i \in 1..Len(feed) : feed'[i] = feed[i]
    /\ \A i \in 1..Len(es) : feed'[Len(feed) + i] = es[i]
    /\ \A i \in 1..Len(feed') : i \notin 1..Len(feed) =>
          i - Len(feed) \in 1..Len(es) /\ feed'[i] = es[i - Len(feed)]

\* Appending events to the feed keeps what is there.
LEMMA GrowsBy ==
    ASSUME feed \in Seq(Feedable), NEW es \in Seq(Feedable), feed' = feed \o es
    PROVE  Grown(es)
<1>. DEFINE s == feed \o es
<1>1. Len(feed) \in Nat /\ Len(es) \in Nat
  BY LenProperties
<1>2. /\ s \in Seq(Feedable) /\ Len(s) = Len(feed) + Len(es)
      /\ \A i \in 1..(Len(feed) + Len(es)) :
            s[i] = IF i <= Len(feed) THEN feed[i] ELSE es[i - Len(feed)]
  BY ConcatProperties
<1>. HIDE DEF s
<1>3. \A i \in 1..Len(es) : Len(feed) + i \in 1..(Len(feed) + Len(es)) /\ s[Len(feed) + i] = es[i]
  BY <1>1, <1>2, SMTT(60)
<1>4. feed' = s
  BY DEF s
<1>. QED BY <1>1, <1>2, <1>3, <1>4 DEF Grown

\* and gives up its head.
Taken ==
    /\ feed' \in Seq(Feedable) /\ Len(feed) \in Nat \ {0} /\ Len(feed') = Len(feed) - 1
    /\ Head(feed) = feed[1] /\ feed[1] \in Feedable
    /\ \A i \in 1..Len(feed') : i + 1 \in 1..Len(feed) /\ feed'[i] = feed[i + 1]
    /\ \A i \in 1..Len(feed) : i # 1 => i - 1 \in 1..Len(feed') /\ feed'[i - 1] = feed[i]

\* Taking the head moves every other event one place down.
LEMMA TakesHead ==
    ASSUME feed \in Seq(Feedable), feed # <<>>, feed' = Tail(feed)
    PROVE  Taken
<1>1. /\ Head(feed) \in Feedable /\ feed' \in Seq(Feedable) /\ Len(feed') = Len(feed) - 1
      /\ \A i \in 1..Len(feed') : feed'[i] = feed[i + 1]
  BY HeadTailProperties
<1>2. Len(feed) \in Nat \ {0} /\ DOMAIN feed = 1..Len(feed)
  BY EmptySeq, LenProperties
<1>3. Head(feed) = feed[1]
  OBVIOUS
<1>. QED BY <1>1, <1>2, <1>3 DEF Taken

\* The domain of the feed
LEMMA FeedDomain ==
    ASSUME NEW s \in Seq(Feedable)
    PROVE  DOMAIN s = 1..Len(s) /\ Len(s) \in Nat /\ \A i \in DOMAIN s : s[i] \in Feedable
BY LenProperties, ElementOfSeq
-----------------------------------------------------------------------------
(* What the contracts emit. *)

\* The events of a creation: each role once, then the creation.
Creation(es, R, c) ==
    /\ es \in Seq(Feedable) /\ Len(es) \in Nat \ {0}
    /\ es[Len(es)] = Event("created", c)
    /\ \A k \in 1..Len(es) : k # Len(es) => \E r \in R : es[k] = Event("granted", r)
    /\ \A r \in R : \E k \in 1..Len(es) : k # Len(es) /\ es[k] = Event("granted", r)
    /\ \A j, k \in 1..Len(es) : j # Len(es) /\ k # Len(es) /\ es[j] = es[k] => j = k

\* An event has the type and the role it was made with.
LEMMA EventFacts ==
    ASSUME NEW t \in RoleTypes, NEW r \in AllRoles
    PROVE  /\ Event(t, r) \in Feedable /\ Event(t, r) \in RoleEvents
           /\ Event(t, r).type = t /\ Event(t, r).role = r
           /\ \A s : Event(t, s) = Event(t, r) => s = r
BY DEF Event, RoleEvents, Feedable

\* The grants of a set of roles name each role once.
LEMMA GrantsFacts ==
    ASSUME NEW R, R \subseteq AllRoles, IsFiniteSet(R), NEW g \in Grants(R)
    PROVE  /\ g \in Seq(Feedable) /\ Len(g) \in Nat
           /\ \A k \in 1..Len(g) : \E r \in R : g[k] = Event("granted", r)
           /\ \A r \in R : \E k \in 1..Len(g) : g[k] = Event("granted", r)
           /\ \A j, k \in 1..Len(g) : g[j] = g[k] => j = k
<1>. DEFINE n == Cardinality(R)
<1>1. n \in Nat
  BY FS_CardinalityType
<1>2. PICK s \in Bijection(1..n, R) : g = [i \in 1..n |-> Event("granted", s[i])]
  BY DEF Grants
<1>3. /\ s \in [1..n -> R]
      /\ \A a, b \in 1..n : s[a] = s[b] => a = b
      /\ \A r \in R : \E i \in 1..n : s[i] = r
  BY DEF Bijection, Injection, Surjection, IsInjective
<1>. HIDE DEF n
<1>4. \A i \in 1..n : Event("granted", s[i]) \in Feedable
  BY <1>3, EventFacts DEF RoleTypes
<1>5. g \in [1..n -> Feedable]
  BY <1>2, <1>4
<1>6. g \in Seq(Feedable) /\ Len(g) = n
  BY <1>1, <1>5, SeqDef, LenProperties
<1>7. \A j, k \in 1..n : g[j] = g[k] => s[j] = s[k]
  BY <1>2, <1>3, EventFacts DEF RoleTypes
<1>. QED BY <1>1, <1>2, <1>3, <1>6, <1>7

\* The roles granted with a creation are finitely many, and of what is created.
LEMMA CompanionsFinite ==
    ASSUME NEW M \in Companions, NEW x \in Entities, NEW k \in KindsOf(x)
    PROVE  /\ IsFiniteSet({Role(k, x, m) : m \in M})
           /\ {Role(k, x, m) : m \in M} \subseteq RolesOf(x)
<1>1. M \subseteq Accounts /\ IsFiniteSet(M)
  BY FS_Subset, RolesAssumption DEF Companions
<1>. DEFINE R == {Role(k, x, m) : m \in M}
            f == [m \in M |-> Role(k, x, m)]
<1>2. f \in Surjection(M, R)
  BY DEF Surjection
<1>3. IsFiniteSet(R)
  BY <1>1, <1>2, FS_Surjection
<1>. QED BY <1>1, <1>3 DEF RolesOf

\* A profile emits its members, then itself.
LEMMA ProfileCreation ==
    ASSUME NEW p \in Profiles, NEW a \in Accounts, NEW M \in Companions,
           NEW g \in Grants({Role("member", p, m) : m \in M})
    PROVE  Creation(Append(g, Event("created", Role("owner", p, a))),
                    {Role("member", p, m) : m \in M}, Role("owner", p, a))
<1>. DEFINE R == {Role("member", p, m) : m \in M}
            c == Role("owner", p, a)
            e == Event("created", c)
            es == Append(g, e)
<1>1. R \subseteq AllRoles /\ IsFiniteSet(R) /\ c \in AllRoles
  BY CompanionsFinite, RoleFacts
<1>2. /\ g \in Seq(Feedable) /\ Len(g) \in Nat
      /\ \A k \in 1..Len(g) : \E r \in R : g[k] = Event("granted", r)
      /\ \A r \in R : \E k \in 1..Len(g) : g[k] = Event("granted", r)
      /\ \A j, k \in 1..Len(g) : g[j] = g[k] => j = k
  BY <1>1, GrantsFacts
<1>3. e \in Feedable
  BY <1>1, EventFacts DEF RoleTypes
<1>4. /\ es \in Seq(Feedable) /\ Len(es) = Len(g) + 1 /\ es[Len(es)] = e
      /\ \A i \in 1..Len(g) : es[i] = g[i]
  <2>. HIDE DEF e
  <2>. QED BY <1>2, <1>3, AppendProperties
<1>. HIDE DEF es, e, R, c
<1>. SUFFICES Creation(es, R, c)
  BY DEF es, e, R, c
<1>5. es[Len(es)] = Event("created", c)
  BY <1>4 DEF e
<1>6. \A k \in 1..Len(es) : k # Len(es) => k \in 1..Len(g)
  BY <1>2, <1>4
<1>7. \A k \in 1..Len(g) : k \in 1..Len(es) /\ k # Len(es)
  BY <1>2, <1>4
<1>8. Len(es) \in Nat \ {0}
  BY <1>2, <1>4
<1>9. \A r \in R : \E k \in 1..Len(es) : k # Len(es) /\ es[k] = Event("granted", r)
  <2>. TAKE r \in R
  <2>1. PICK k \in 1..Len(g) : g[k] = Event("granted", r)
    BY <1>2
  <2>. QED BY <1>4, <1>7, <2>1
<1>10. \A k \in 1..Len(es) : k # Len(es) => \E r \in R : es[k] = Event("granted", r)
  BY <1>2, <1>4, <1>6
<1>11. \A j, k \in 1..Len(es) : j # Len(es) /\ k # Len(es) /\ es[j] = es[k] => j = k
  BY <1>2, <1>4, <1>6
<1>. QED BY <1>4, <1>5, <1>8, <1>9, <1>10, <1>11, Zenon DEF Creation

\* One event before, and one after others
LEMMA Prepended ==
    ASSUME NEW f \in Feedable, NEW g \in Seq(Feedable), NEW h, h = <<f>> \o g
    PROVE  /\ h \in Seq(Feedable) /\ Len(h) = Len(g) + 1 /\ h[1] = f
           /\ \A k \in 1..Len(h) : k # 1 => k - 1 \in 1..Len(g) /\ h[k] = g[k - 1]
           /\ \A k \in 1..Len(g) : k + 1 \in 1..Len(h) /\ h[k + 1] = g[k]
<1>. DEFINE l == <<f>>
<1>1. l \in Seq(Feedable) /\ Len(l) = 1 /\ l[1] = f
  OBVIOUS
<1>2. Len(g) \in Nat
  BY LenProperties
<1>8. h = l \o g
  OBVIOUS
<1>. HIDE DEF l
<1>3. /\ h \in Seq(Feedable) /\ Len(h) = 1 + Len(g)
      /\ \A i \in 1..(1 + Len(g)) : h[i] = IF i <= 1 THEN l[i] ELSE g[i - 1]
  BY <1>1, <1>2, <1>8, ConcatProperties
<1>4. h[1] = f
  BY <1>1, <1>2, <1>3
<1>5. \A i \in 1..(1 + Len(g)) : i # 1 => i - 1 \in 1..Len(g) /\ h[i] = g[i - 1]
  BY <1>2, <1>3
<1>6. \A k \in 1..Len(g) : k + 1 \in 1..(1 + Len(g)) /\ h[k + 1] = g[k]
  <2>. TAKE k \in 1..Len(g)
  <2>1. k + 1 \in 1..(1 + Len(g)) /\ k + 1 # 1 /\ k + 1 - 1 = k
    BY <1>2
  <2>. QED BY <1>5, <2>1
<1>7. Len(h) = Len(g) + 1
  BY <1>2, <1>3
<1>. QED BY <1>2, <1>3, <1>4, <1>5, <1>6, <1>7

\* A sequence with one event after it.
LEMMA Suffixed ==
    ASSUME NEW e \in Feedable, NEW h \in Seq(Feedable), NEW es, es = h \o <<e>>
    PROVE  /\ es \in Seq(Feedable) /\ Len(es) = Len(h) + 1 /\ es[Len(es)] = e
           /\ \A k \in 1..Len(h) : es[k] = h[k]
<1>. DEFINE l == <<e>>
<1>1. l \in Seq(Feedable) /\ Len(l) = 1 /\ l[1] = e
  OBVIOUS
<1>2. Len(h) \in Nat
  BY LenProperties
<1>7. es = h \o l
  OBVIOUS
<1>. HIDE DEF l
<1>3. /\ es \in Seq(Feedable) /\ Len(es) = Len(h) + 1
      /\ \A i \in 1..(Len(h) + 1) : es[i] = IF i <= Len(h) THEN h[i] ELSE l[i - Len(h)]
  BY <1>1, <1>2, <1>7, ConcatProperties
<1>4. es[Len(h) + 1] = e
  <2>1. Len(h) + 1 \in 1..(Len(h) + 1) /\ ~(Len(h) + 1 <= Len(h)) /\ Len(h) + 1 - Len(h) = 1
    BY <1>2
  <2>. QED BY <1>1, <1>3, <2>1
<1>5. \A k \in 1..Len(h) : es[k] = h[k]
  BY <1>2, <1>3
<1>. QED BY <1>3, <1>4, <1>5

\* A pool emits its admin and managers, then itself.
LEMMA PoolCreation ==
    ASSUME NEW q \in Pools, NEW a \in Accounts, NEW M \in Companions,
           NEW g \in Grants({Role("manager", q, m) : m \in M})
    PROVE  Creation(<<Event("granted", Role("admin", q, a))>> \o g
                       \o <<Event("created", Role("admin", q, a))>>,
                    {Role("manager", q, m) : m \in M} \cup {Role("admin", q, a)},
                    Role("admin", q, a))
<1>. DEFINE S == {Role("manager", q, m) : m \in M}
            c == Role("admin", q, a)
            R == S \cup {c}
            f == Event("granted", c)
            e == Event("created", c)
            h == <<f>> \o g
            es == h \o <<e>>
<1>1. S \subseteq AllRoles /\ IsFiniteSet(S) /\ c \in AllRoles
  <2>1. "manager" \in KindsOf(q) /\ "admin" \in KindsOf(q) /\ q \in Entities
    BY RoleFacts
  <2>2. IsFiniteSet(S) /\ S \subseteq RolesOf(q)
    BY <2>1, CompanionsFinite
  <2>3. c \in RolesOf(q)
    BY <2>1 DEF RolesOf
  <2>. QED BY <2>1, <2>2, <2>3, RoleFacts
<1>2. /\ g \in Seq(Feedable) /\ Len(g) \in Nat
      /\ \A k \in 1..Len(g) : \E r \in S : g[k] = Event("granted", r)
      /\ \A r \in S : \E k \in 1..Len(g) : g[k] = Event("granted", r)
      /\ \A j, k \in 1..Len(g) : g[j] = g[k] => j = k
  BY <1>1, GrantsFacts
<1>3. e \in Feedable /\ f \in Feedable
  BY <1>1, EventFacts DEF RoleTypes
<1>4. \A r \in S : Event("granted", r) # f
  <2>1. \A r \in S : r.kind = "manager"
    BY DEF Role
  <2>2. c.kind = "admin"
    BY DEF Role
  <2>. QED BY <1>1, <2>1, <2>2, EventFacts DEF RoleTypes
<1>. HIDE DEF S, c
<1>5. /\ h \in Seq(Feedable) /\ Len(h) = Len(g) + 1 /\ h[1] = f
      /\ \A k \in 1..Len(h) : k # 1 => k - 1 \in 1..Len(g) /\ h[k] = g[k - 1]
      /\ \A k \in 1..Len(g) : k + 1 \in 1..Len(h) /\ h[k + 1] = g[k]
  <2>. HIDE DEF f
  <2>1. h = <<f>> \o g
    OBVIOUS
  <2>. HIDE DEF h
  <2>. QED BY <1>2, <1>3, <2>1, Prepended
<1>6. /\ es \in Seq(Feedable) /\ Len(es) = Len(h) + 1 /\ es[Len(es)] = e
      /\ \A k \in 1..Len(h) : es[k] = h[k]
  <2>. HIDE DEF e, h
  <2>1. es = h \o <<e>>
    OBVIOUS
  <2>. HIDE DEF es
  <2>. QED BY <1>3, <1>5, <2>1, Suffixed
<1>. HIDE DEF es, e, f, h, R
<1>. SUFFICES Creation(es, R, c)
  BY DEF es, e, f, h, R, S, c
<1>7. \A k \in 1..Len(es) : k # Len(es) => k \in 1..Len(h) /\ es[k] = h[k]
  BY <1>2, <1>5, <1>6
<1>8. \A k \in 1..Len(h) : k \in 1..Len(es) /\ k # Len(es) /\ es[k] = h[k]
  BY <1>2, <1>5, <1>6
<1>9. ASSUME NEW k \in 1..Len(h) PROVE \E r \in R : h[k] = Event("granted", r)
  <2>1. CASE k = 1
    BY <1>5, <2>1 DEF R, f
  <2>2. CASE k # 1
    <3>1. k - 1 \in 1..Len(g) /\ h[k] = g[k - 1]
      BY <1>5, <2>2
    <3>2. PICK r \in S : g[k - 1] = Event("granted", r)
      BY <1>2, <3>1
    <3>. QED BY <3>1, <3>2 DEF R
  <2>. QED BY <2>1, <2>2
<1>10. \A r \in R : \E k \in 1..Len(h) : h[k] = Event("granted", r)
  <2>1. ASSUME NEW r \in S PROVE \E k \in 1..Len(h) : h[k] = Event("granted", r)
    <3>1. PICK k \in 1..Len(g) : g[k] = Event("granted", r)
      BY <1>2
    <3>2. k + 1 \in 1..Len(h) /\ h[k + 1] = g[k]
      BY <1>5
    <3>. QED BY <3>1, <3>2
  <2>2. 1 \in 1..Len(h)
    BY <1>2, <1>5
  <2>. QED BY <1>5, <2>1, <2>2 DEF R, f
<1>11. ASSUME NEW j \in 1..Len(h), NEW k \in 1..Len(h), h[j] = h[k], j # k, j # 1
       PROVE  FALSE
  <2>1. j - 1 \in 1..Len(g) /\ h[j] = g[j - 1]
    BY <1>5, <1>11
  <2>2. CASE k = 1
    <3>1. PICK r \in S : g[j - 1] = Event("granted", r)
      BY <1>2, <2>1
    <3>2. h[k] = f
      BY <1>5, <2>2
    <3>. QED BY <1>4, <1>11, <2>1, <3>1, <3>2
  <2>3. CASE k # 1
    <3>1. k - 1 \in 1..Len(g) /\ h[k] = g[k - 1]
      BY <1>5, <2>3
    <3>2. j - 1 = k - 1
      BY <1>2, <1>11, <2>1, <3>1
    <3>. QED BY <1>2, <1>5, <1>11, <3>2
  <2>. QED BY <2>2, <2>3
<1>12. Len(es) \in Nat \ {0} /\ es[Len(es)] = Event("created", c)
  BY <1>2, <1>5, <1>6 DEF e
<1>13. \A j, k \in 1..Len(es) : j # Len(es) /\ k # Len(es) /\ es[j] = es[k] => j = k
  BY <1>7, <1>11
<1>14. \A k \in 1..Len(es) : k # Len(es) => \E r \in R : es[k] = Event("granted", r)
  BY <1>7, <1>9
<1>15. \A r \in R : \E k \in 1..Len(es) : k # Len(es) /\ es[k] = Event("granted", r)
  <2>. TAKE r \in R
  <2>1. PICK k \in 1..Len(h) : h[k] = Event("granted", r)
    BY <1>10
  <2>. QED BY <1>8, <2>1
<1>. QED BY <1>6, <1>12, <1>13, <1>14, <1>15, Zenon DEF Creation
-----------------------------------------------------------------------------
(* The steps of the contracts, of two kinds: a creation, with its events, and *)
(* a call with one.                                                           *)

TablesKept ==
    UNCHANGED <<created, rows, pending, damaged, lost,
                projects, attestations, txns, stale, missing>>

CreationStep(x, es, R, c) ==
    /\ TablesKept /\ Grown(es) /\ Creation(es, R, c)
    /\ R \subseteq RolesOf(x) /\ c \in AllRoles /\ c.of = x
    /\ x \in Profiles => c = Role("owner", x, owner'[x]) /\ owner'[x] \in Accounts
    /\ ~Exists(x) /\ Exists(x)' /\ \A y \in Entities : y # x => (Exists(y)' <=> Exists(y))
    /\ x \in Pools => Exists(ProfileOf[x])
    /\ holders' = holders \cup R /\ pools' \subseteq pools \cup {x}
    /\ \A p \in Profiles : p # x => owner'[p] = owner[p] /\ profile'[p] = profile[p]
    /\ x \in Profiles => /\ profile'[x].version = profile[x].version
                         /\ profile'[x].doc \in Documents /\ profile'[x].first = profile'[x].doc
    /\ attested' = attested

GrantStep(e) ==
    /\ \E r \in Grantable :
          /\ e = Event("granted", r) /\ Exists(r.of)
          /\ r \notin holders /\ holders' = holders \cup {r}
    /\ UNCHANGED <<owner, profile, attested>>

RevokeStep(e) ==
    /\ \E r \in holders : e = Event("revoked", r) /\ holders' = holders \ {r}
    /\ UNCHANGED <<owner, profile, attested>>

OwnerStep(e) ==
    /\ \E p \in Profiles, a \in Accounts :
          /\ e = Event("ownerUpdated", Role("owner", p, a)) /\ Exists(p)
          /\ owner' = [owner EXCEPT ![p] = a]
    /\ UNCHANGED <<holders, profile, attested>>

NameStep(e) ==
    /\ \E p \in Profiles :
          /\ e = DataEvent("ProfileNameUpdated", p, profile[p].version + 1) /\ Exists(p)
          /\ profile' = [profile EXCEPT ![p].version = profile[p].version + 1]
    /\ UNCHANGED <<holders, owner, attested>>

DocumentStep(e) ==
    /\ \E p \in Profiles, d \in Documents :
          /\ e = DataEvent("ProfileMetadataUpdated", p, d) /\ Exists(p)
          /\ profile' = [profile EXCEPT ![p].doc = d]
    /\ UNCHANGED <<holders, owner, attested>>

ApplyStep(e) ==
    /\ \E p \in Profiles :
          e = DataEvent("Registered", p, Anchor(p, profile[p].version)) /\ Exists(p)
    /\ UNCHANGED <<holders, owner, profile, attested>>

AttestStep(e) ==
    /\ \E u \in Uids, l \in Listings :
          /\ e = DataEvent("OnAttested", u, l)
          /\ attested[u] = Null /\ attested' = [attested EXCEPT ![u] = l]
    /\ UNCHANGED <<holders, owner, profile>>

OneStep(e) ==
    /\ TablesKept /\ Grown(<<e>>) /\ e \in Feedable /\ pools' = pools
    /\ \A y \in Entities : Exists(y)' <=> Exists(y)
    /\ \/ GrantStep(e) \/ RevokeStep(e) \/ OwnerStep(e) \/ NameStep(e)
       \/ DocumentStep(e) \/ ApplyStep(e) \/ AttestStep(e)

\* createProfile is a creation.
LEMMA CreateWithKind ==
    ASSUME TypeOK, NEW p \in Profiles, CreateWith(p)
    PROVE  \E es, R, c : CreationStep(p, es, R, c)
<1>1. PICK a \in Accounts, M \in Companions :
        LET R == {Role("member", p, m) : m \in M}
        IN /\ owner' = [owner EXCEPT ![p] = a]
           /\ holders' = holders \cup R
           /\ \E g \in Grants(R) : Call(Append(g, Event("created", Role("owner", p, a))))
  BY DEF CreateWith, CreateProfile
<1>. DEFINE R == {Role("member", p, m) : m \in M}
            c == Role("owner", p, a)
<1>2. PICK g \in Grants(R) : Call(Append(g, Event("created", c)))
  BY <1>1
<1>. DEFINE es == Append(g, Event("created", c))
<1>3. Creation(es, R, c)
  BY ProfileCreation
<1>4. feed' = feed \o es /\ feed \in Seq(Feedable) /\ es \in Seq(Feedable)
  BY <1>2, <1>3 DEF Call, Creation, TypeOK, Feedable
<1>. HIDE DEF es
<1>5. Grown(es)
  BY <1>4, GrowsBy
<1>6. R \subseteq RolesOf(p)
  <2>1. "member" \in KindsOf(p) /\ p \in Entities
    BY RoleFacts
  <2>. QED BY <2>1, CompanionsFinite
<1>7. /\ owner' = [owner EXCEPT ![p] = a] /\ holders' = holders \cup R /\ pools' = pools
      /\ owner[p] = NoAccount
  BY <1>1, RoleFacts DEF CreateWith, CreateProfile, Exists
<1>. HIDE DEF R
<1>8. owner'[p] = a /\ \A y \in Profiles : y # p => owner'[y] = owner[y]
  BY <1>7 DEF TypeOK
<1>9. /\ ~Exists(p) /\ Exists(p)' /\ \A y \in Entities : y # p => (Exists(y)' <=> Exists(y))
  BY <1>1, <1>7, <1>8, RoleFacts, RolesAssumption DEF CreateWith, CreateProfile, Exists, Entities
<1>10. TablesKept
  BY <1>2 DEF Call, CreateWith, TablesKept, dbVars
<1>11. /\ \A y \in Profiles : y # p => profile'[y] = profile[y]
       /\ profile'[p].version = profile[p].version
       /\ profile'[p].doc \in Documents /\ profile'[p].first = profile'[p].doc
       /\ attested' = attested
  BY DEF CreateWith, TypeOK
<1>12. c \in AllRoles /\ c.of = p /\ p \notin Pools
  BY RoleFacts DEF Role
<1>13. c = Role("owner", p, owner'[p])
  BY <1>8
<1>. HIDE DEF c
<1>14. CreationStep(p, es, R, c)
  BY <1>3, <1>5, <1>6, <1>7, <1>8, <1>9, <1>10, <1>11, <1>12, <1>13 DEF CreationStep
<1>. QED BY <1>14

\* createPool is a creation.
LEMMA CreatePoolKind ==
    ASSUME TypeOK, NEW q \in Pools, CreatePool(q), UNCHANGED dataVars
    PROVE  \E es, R, c : CreationStep(q, es, R, c)
<1>1. PICK a \in Accounts, M \in Companions :
        LET R == {Role("manager", q, m) : m \in M}
            admin == Role("admin", q, a)
        IN /\ holders' = holders \cup R \cup {admin}
           /\ \E g \in Grants(R) :
                 Call(<<Event("granted", admin)>> \o g \o <<Event("created", admin)>>)
  BY DEF CreatePool
<1>. DEFINE S == {Role("manager", q, m) : m \in M}
            c == Role("admin", q, a)
            R == S \cup {c}
<1>2. PICK g \in Grants(S) : Call(<<Event("granted", c)>> \o g \o <<Event("created", c)>>)
  BY <1>1
<1>. DEFINE es == <<Event("granted", c)>> \o g \o <<Event("created", c)>>
<1>3. Creation(es, R, c)
  BY PoolCreation
<1>4. feed' = feed \o es /\ feed \in Seq(Feedable) /\ es \in Seq(Feedable)
  BY <1>2, <1>3 DEF Call, Creation, TypeOK, Feedable
<1>. HIDE DEF es
<1>5. Grown(es)
  BY <1>4, GrowsBy
<1>6. R \subseteq RolesOf(q) /\ c \in RolesOf(q)
  <2>1. "manager" \in KindsOf(q) /\ "admin" \in KindsOf(q) /\ q \in Entities
    BY RoleFacts
  <2>2. S \subseteq RolesOf(q)
    BY <2>1, CompanionsFinite
  <2>. QED BY <2>1, <2>2 DEF RolesOf
<1>7. /\ owner' = owner /\ holders' = holders \cup R /\ pools' = pools \cup {q}
      /\ ~Exists(q) /\ Exists(ProfileOf[q])
  BY <1>1 DEF CreatePool
<1>. HIDE DEF R, c
<1>8. /\ Exists(q)' /\ \A y \in Entities : y # q => (Exists(y)' <=> Exists(y))
  BY <1>7 DEF Exists
<1>9. TablesKept
  BY <1>2 DEF Call, dataVars, TablesKept, dbVars
<1>10. c \in AllRoles /\ c.of = q /\ q \notin Profiles
  BY <1>6, RoleFacts
<1>11. CreationStep(q, es, R, c)
  BY <1>3, <1>5, <1>6, <1>7, <1>8, <1>9, <1>10 DEF CreationStep, dataVars
<1>. QED BY <1>11

\* A call with the event e
LEMMA CallsOne ==
    ASSUME TypeOK, NEW e \in Feedable, Call(<<e>>)
    PROVE  /\ Grown(<<e>>) /\ UNCHANGED <<created, rows, pending, damaged, lost>>
<1>1. feed' = feed \o <<e>> /\ feed \in Seq(Feedable) /\ <<e>> \in Seq(Feedable)
  BY DEF Call, TypeOK, Feedable
<1>. QED BY <1>1, GrowsBy DEF Call, dbVars

\* Grants, revocations and changes of owner emit one event.
LEMMA RoleCallKinds ==
    ASSUME TypeOK, UNCHANGED dataVars,
           \/ \E x \in Entities : GrantRole(x)
           \/ RevokeRole
           \/ \E p \in Profiles : ChangeOwner(p)
    PROVE  \E e : OneStep(e)
<1>1. ASSUME NEW x \in Entities, GrantRole(x) PROVE \E e : OneStep(e)
  <2>1. PICK k \in KindsOf(x), a \in Accounts :
           /\ Role(k, x, a) \notin holders
           /\ holders' = holders \cup {Role(k, x, a)}
           /\ Call(<<Event("granted", Role(k, x, a))>>)
    BY <1>1 DEF GrantRole
  <2>. DEFINE r == Role(k, x, a)
              e == Event("granted", r)
  <2>2. r \in RolesOf(x) /\ r.of = x /\ r \in Grantable /\ r \in AllRoles
    <3>1. r \in RolesOf(x)
      BY DEF RolesOf
    <3>. QED BY <3>1, RoleFacts
  <2>3. e \in Feedable
    BY <2>2, EventFacts DEF RoleTypes
  <2>. HIDE DEF r
  <2>4. /\ Exists(x) /\ owner' = owner /\ pools' = pools
        /\ r \notin holders /\ holders' = holders \cup {r} /\ Call(<<e>>)
    BY <1>1, <2>1 DEF GrantRole, r
  <2>5. GrantStep(e)
    BY <2>2, <2>4 DEF GrantStep, dataVars
  <2>. HIDE DEF e
  <2>6. OneStep(e)
    BY <2>3, <2>4, <2>5, CallsOne DEF OneStep, TablesKept, dataVars, Exists
  <2>. QED BY <2>6
<1>2. ASSUME RevokeRole PROVE \E e : OneStep(e)
  <2>1. PICK r \in holders : holders' = holders \ {r} /\ Call(<<Event("revoked", r)>>)
    BY <1>2 DEF RevokeRole
  <2>. DEFINE e == Event("revoked", r)
  <2>2. r \in AllRoles
    BY RoleFacts DEF TypeOK
  <2>3. e \in Feedable
    BY <2>2, EventFacts DEF RoleTypes
  <2>4. owner' = owner /\ pools' = pools
    BY <1>2 DEF RevokeRole
  <2>5. RevokeStep(e)
    BY <2>1, <2>4 DEF RevokeStep, dataVars
  <2>. HIDE DEF e
  <2>6. Call(<<e>>)
    BY <2>1 DEF e
  <2>7. OneStep(e)
    BY <2>3, <2>4, <2>5, <2>6, CallsOne DEF OneStep, TablesKept, dataVars, Exists
  <2>. QED BY <2>7
<1>3. ASSUME NEW p \in Profiles, ChangeOwner(p) PROVE \E e : OneStep(e)
  <2>1. PICK a \in Accounts :
           /\ owner' = [owner EXCEPT ![p] = a]
           /\ Call(<<Event("ownerUpdated", Role("owner", p, a))>>)
    BY <1>3 DEF ChangeOwner
  <2>. DEFINE e == Event("ownerUpdated", Role("owner", p, a))
  <2>2. e \in Feedable
    BY RoleFacts, EventFacts DEF RoleTypes
  <2>3. Exists(p) /\ holders' = holders /\ pools' = pools
    BY <1>3 DEF ChangeOwner
  <2>4. OwnerStep(e)
    BY <2>1, <2>3 DEF OwnerStep, dataVars
  <2>. HIDE DEF e
  <2>5. Call(<<e>>)
    BY <2>1 DEF e
  <2>6. \A y \in Entities : Exists(y)' <=> Exists(y)
    BY <2>1, <2>3, RoleFacts, RolesAssumption DEF Exists, TypeOK
  <2>7. OneStep(e)
    BY <2>2, <2>3, <2>4, <2>5, <2>6, CallsOne DEF OneStep, TablesKept, dataVars
  <2>. QED BY <2>7
<1>. QED BY <1>1, <1>2, <1>3

\* So do names, documents, applications and attestations.
LEMMA DataCallKinds ==
    ASSUME TypeOK,
           \/ \E p \in Profiles : Rename(p) \/ SetDocument(p) \/ Apply(p)
           \/ \E u \in Uids : Attest(u)
    PROVE  \E e : OneStep(e)
<1>1. ASSUME NEW e \in Feedable, Call(<<e>>), UNCHANGED <<owner, pools, holders>>,
             UNCHANGED <<projects, attestations, txns, stale, missing>>,
             NameStep(e) \/ DocumentStep(e) \/ ApplyStep(e) \/ AttestStep(e)
      PROVE  OneStep(e)
  BY <1>1, CallsOne DEF OneStep, TablesKept, Exists
<1>2. ASSUME NEW p \in Profiles, Rename(p) PROVE \E e : OneStep(e)
  <2>. DEFINE v == profile[p].version + 1
              e == DataEvent("ProfileNameUpdated", p, v)
  <2>1. e \in Feedable
    BY DEF DataEvent, Feedable, DataEvents, ProfileTypes, TypeOK
  <2>2. Call(<<e>>) /\ UNCHANGED <<owner, pools, holders>> /\ NameStep(e)
        /\ UNCHANGED <<projects, attestations, txns, stale, missing>>
    BY <1>2 DEF Rename, NameStep, chainVars
  <2>. HIDE DEF e
  <2>. QED BY <1>1, <2>1, <2>2
<1>3. ASSUME NEW p \in Profiles, SetDocument(p) PROVE \E e : OneStep(e)
  <2>1. PICK d \in Documents :
           /\ profile' = [profile EXCEPT ![p].doc = d]
           /\ Call(<<DataEvent("ProfileMetadataUpdated", p, d)>>)
    BY <1>3 DEF SetDocument
  <2>. DEFINE e == DataEvent("ProfileMetadataUpdated", p, d)
  <2>2. e \in Feedable
    BY DEF DataEvent, Feedable, DataEvents, ProfileTypes, TypeOK
  <2>3. Call(<<e>>) /\ UNCHANGED <<owner, pools, holders>> /\ DocumentStep(e)
        /\ UNCHANGED <<projects, attestations, txns, stale, missing>>
    BY <1>3, <2>1 DEF SetDocument, DocumentStep, chainVars
  <2>. HIDE DEF e
  <2>. QED BY <1>1, <2>2, <2>3
<1>4. ASSUME NEW p \in Profiles, Apply(p) PROVE \E e : OneStep(e)
  <2>. DEFINE e == DataEvent("Registered", p, Anchor(p, profile[p].version))
  <2>1. e \in Feedable
    BY DEF DataEvent, Feedable, DataEvents, ProfileTypes, TypeOK, Anchor
  <2>2. Call(<<e>>) /\ UNCHANGED <<owner, pools, holders>> /\ ApplyStep(e)
        /\ UNCHANGED <<projects, attestations, txns, stale, missing>>
    BY <1>4 DEF Apply, ApplyStep, chainVars, dataVars
  <2>. HIDE DEF e
  <2>. QED BY <1>1, <2>1, <2>2
<1>5. ASSUME NEW u \in Uids, Attest(u) PROVE \E e : OneStep(e)
  <2>1. PICK l \in Listings :
           /\ attested' = [attested EXCEPT ![u] = l]
           /\ Call(<<DataEvent("OnAttested", u, l)>>)
    BY <1>5 DEF Attest
  <2>. DEFINE e == DataEvent("OnAttested", u, l)
  <2>2. e \in Feedable
    BY DEF DataEvent, Feedable, DataEvents
  <2>3. Call(<<e>>) /\ UNCHANGED <<owner, pools, holders>> /\ AttestStep(e)
        /\ UNCHANGED <<projects, attestations, txns, stale, missing>>
    BY <1>5, <2>1 DEF Attest, AttestStep, chainVars
  <2>. HIDE DEF e
  <2>. QED BY <1>1, <2>2, <2>3
<1>. QED BY <1>2, <1>3, <1>4, <1>5
-----------------------------------------------------------------------------
(* The steps of the indexer: each takes the head of the feed. *)

ContractsKept == UNCHANGED <<owner, pools, holders, profile, attested>>

\* The head is an event of a role,
LEMMA RoleHead ==
    ASSUME TypeOK, RoleEvent, feed' = Tail(feed)
    PROVE  /\ Taken /\ Head(feed) = feed[1] /\ feed[1] \in RoleEvents /\ Fits(feed[1])
           /\ feed[1].role \in AllRoles /\ feed[1].role.of \in Entities
           /\ feed[1].type \in RoleTypes
           /\ feed[1].type \in {"granted", "revoked"} => feed[1].role \in RolesOf(feed[1].role.of)
<1>1. feed # <<>> /\ feed \in Seq(Feedable)
  BY DEF RoleEvent, TypeOK, Feedable
<1>2. Taken
  BY <1>1, TakesHead
<1>3. feed[1] \in Feedable /\ 1 \in DOMAIN feed /\ Head(feed) = feed[1]
  BY <1>1, <1>2, FeedDomain DEF Taken
<1>4. \A e \in DataEvents : "role" \notin DOMAIN e
  BY DEF DataEvents
<1>5. feed[1] \in RoleEvents
  BY <1>3, <1>4 DEF RoleEvent, Feedable
<1>6. Fits(feed[1])
  BY <1>3 DEF TypeOK
<1>. QED BY <1>2, <1>3, <1>5, <1>6 DEF RoleEvents, AllRoles, Fits

\* or of something else.
LEMMA DataHead ==
    ASSUME TypeOK, NEW T, NextData(T)
    PROVE  /\ Taken /\ Head(feed) = feed[1] /\ feed[1] \in DataEvents /\ feed[1].type \in T
           /\ feed[1].type \notin RoleTypes
<1>1. feed # <<>> /\ feed \in Seq(Feedable) /\ feed' = Tail(feed) /\ ~RoleEvent /\ Head(feed).type \in T
  BY DEF NextData, TypeOK, Feedable
<1>2. Taken
  BY <1>1, TakesHead
<1>3. feed[1] \in Feedable /\ Head(feed) = feed[1]
  BY <1>2 DEF Taken
<1>4. \A e \in RoleEvents : "role" \in DOMAIN e
  BY DEF RoleEvents
<1>5. feed[1] \in DataEvents
  BY <1>1, <1>3, <1>4 DEF RoleEvent, Feedable
<1>6. feed[1].type \notin RoleTypes
  BY <1>5 DEF DataEvents, RoleTypes, ProfileTypes
<1>. QED BY <1>1, <1>2, <1>3, <1>5, <1>6

\* What the handler of a role event leaves in the tables
HandlerEffect(e) ==
    LET r == e.role
        x == r.of
    IN
    /\ e.type = "granted" =>
          /\ created' = created
          /\ x \in created => rows' = rows \cup {r} /\ pending' = pending
          /\ x \notin created => rows' = rows /\ pending' = [pending EXCEPT ![r] = @ + 1]
    /\ e.type = "revoked" =>
          /\ created' = created /\ pending' = pending /\ rows' \subseteq rows /\ r \notin rows'
          /\ \A m \in rows \ rows' : m.of = x /\ m.kind # "owner" /\ (x \in Pools => m = r)
    /\ e.type = "created" =>
          /\ created' = created \cup {x}
          /\ rows' = rows \cup PendingRows(x) \cup (IF x \in Profiles THEN {r} ELSE {})
          /\ pending' = [m \in Grantable |-> IF m.of = x THEN 0 ELSE pending[m]]
    /\ e.type = "ownerUpdated" =>
          /\ created' = created /\ pending' = pending
          /\ rows' = {m \in rows : ~(m.kind = "owner" /\ m.of = x)} \cup {r}

\* What each of the handlers of role events does to the tables.
LEMMA HandlerFacts ==
    ASSUME TypeOK, NEW e \in RoleEvents, Fits(e), Handler(e)
    PROVE  HandlerEffect(e)
<1>. DEFINE r == e.role
            x == r.of
<1>1. r \in AllRoles /\ x \in Entities
  BY DEF RoleEvents, AllRoles
<1>2. CASE e.type = "granted"
  BY <1>2 DEF Handler, RegistryRoleGranted, AlloRoleGranted, Known, InsertRole, Park, HandlerEffect
<1>3. CASE e.type = "revoked"
  <2>1. r \in RolesOf(x)
    BY <1>3 DEF Fits
  <2>2. CASE x \in Profiles
    <3>1. x \notin Pools /\ r.kind = "member"
      BY <2>1, <2>2, RoleFacts DEF RolesOf, Role
    <3>2. DeleteRoles(RevokedMembers(r))
      BY <1>3, <3>1 DEF Handler, RegistryRoleRevoked
    <3>. QED BY <1>3, <3>1, <3>2 DEF DeleteRoles, RevokedMembers, HandlerEffect
  <2>3. CASE x \in Pools
    <3>1. x \notin Profiles /\ r.kind # "owner"
      BY <2>1, <2>3, RoleFacts
    <3>2. DeleteRoles(RevokedManagers(r))
      BY <1>3, <3>1 DEF Handler, AlloRoleRevoked
    <3>. QED BY <1>3, <3>1, <3>2 DEF DeleteRoles, RevokedManagers, HandlerEffect
  <2>. QED BY <1>1, <2>2, <2>3 DEF Entities
<1>4. CASE e.type = "created"
  <2>1. DOMAIN pending = Grantable
    BY DEF TypeOK
  <2>2. \/ x \in Profiles /\ CreateRows(x, {r})
        \/ x \notin Profiles /\ CreateRows(x, {})
    BY <1>4, RoleFacts DEF Handler, ProfileCreated, PoolCreated
  <2>. QED BY <1>4, <2>1, <2>2 DEF CreateRows, NotPendingOf, HandlerEffect
<1>5. CASE e.type = "ownerUpdated"
  BY <1>5 DEF Handler, ProfileOwnerUpdated, FormerOwners, HandlerEffect
<1>. QED BY <1>2, <1>3, <1>4, <1>5 DEF RoleEvents, RoleTypes

\* An event of x leaves the rows of the others alone.
LEMMA OthersUntouched ==
    ASSUME TypeOK, NEW e \in RoleEvents, Fits(e), HandlerEffect(e),
           NEW y \in Entities, y # e.role.of
    PROVE  /\ y \in created' <=> y \in created
           /\ Stored(y)' = Stored(y)
           /\ \A r \in RolesOf(y) : pending'[r] = pending[r] /\ (r \in rows' <=> r \in rows)
           /\ PendingRows(y)' = PendingRows(y)
<1>. DEFINE x == e.role.of
<1>1. /\ \A r \in RolesOf(y) : r.of = y /\ r \in Grantable
      /\ \A r \in RolesOf(x) : r.of = x
      /\ x \in Entities
  BY RoleFacts DEF RoleEvents, AllRoles
<1>2. /\ y \in created' <=> y \in created
      /\ \A m : m.of = y => (m \in rows' <=> m \in rows)
      /\ \A r \in Grantable : r.of = y => pending'[r] = pending[r]
  <2>1. pending \in [Grantable -> Nat]
    BY DEF TypeOK
  <2>2. CASE e.type = "granted"
    BY <2>1, <2>2 DEF HandlerEffect
  <2>3. CASE e.type = "revoked"
    BY <2>3 DEF HandlerEffect
  <2>4. CASE e.type = "created"
    BY <1>1, <2>1, <2>4 DEF HandlerEffect, PendingRows
  <2>5. CASE e.type = "ownerUpdated"
    BY <2>5 DEF HandlerEffect
  <2>. QED BY <2>2, <2>3, <2>4, <2>5 DEF RoleEvents, RoleTypes
<1>3. \A r \in RolesOf(y) : pending'[r] = pending[r] /\ (r \in rows' <=> r \in rows)
  BY <1>1, <1>2
<1>. QED BY <1>1, <1>2, <1>3 DEF Stored, PendingRows
-----------------------------------------------------------------------------
(* The types. *)

\* A creation keeps the types,
LEMMA CreationTypes ==
    ASSUME TypeOK, NEW x \in Entities, NEW es, NEW R, NEW c, CreationStep(x, es, R, c),
           owner' \in [Profiles -> Accounts \cup {NoAccount}], pools' \subseteq Pools,
           profile' \in [Profiles -> [version : Nat, doc : Documents \cup {Null}, first : Documents \cup {Null}]]
    PROVE  TypeOK'
<1>1. Grown(es) /\ Creation(es, R, c) /\ TablesKept /\ holders' = holders \cup R /\ attested' = attested
      /\ R \subseteq RolesOf(x) /\ c \in AllRoles /\ c.of = x
      /\ (x \in Profiles => c = Role("owner", x, owner'[x]))
  BY DEF CreationStep
<1>2. holders' \subseteq Grantable
  BY <1>1, RoleFacts DEF TypeOK
<1>3. feed' \in Seq(Feedable) /\ DOMAIN feed' = 1..Len(feed') /\ DOMAIN feed = 1..Len(feed)
  BY <1>1, FeedDomain DEF Grown, TypeOK, Feedable
<1>4. ASSUME NEW k \in 1..Len(es)
      PROVE  Fits(es[k])
  <2>1. CASE k = Len(es)
    <3>1. es[k] = Event("created", c)
      BY <1>1, <2>1 DEF Creation
    <3>2. x \in Profiles => c.kind = "owner"
      BY <1>1 DEF Role
    <3>. QED BY <1>1, <3>1, <3>2 DEF Fits, Event
  <2>2. CASE k # Len(es)
    <3>1. PICK r \in R : es[k] = Event("granted", r)
      BY <1>1, <2>2 DEF Creation
    <3>. QED BY <1>1, <3>1, RoleFacts DEF Fits, Event
  <2>. QED BY <2>1, <2>2
<1>5. \A i \in DOMAIN feed' : Fits(feed'[i])
  <2>. TAKE i \in DOMAIN feed'
  <2>1. CASE i \in 1..Len(feed)
    BY <1>1, <1>3, <2>1 DEF Grown, TypeOK
  <2>2. CASE i \notin 1..Len(feed)
    BY <1>1, <1>3, <1>4, <2>2 DEF Grown
  <2>. QED BY <2>1, <2>2
<1>. QED BY <1>1, <1>2, <1>3, <1>5 DEF TypeOK, TablesKept, Feedable, Fits

\* a call with one event does,
LEMMA OneTypes ==
    ASSUME TypeOK, NEW e, OneStep(e)
    PROVE  TypeOK'
<1>1. Grown(<<e>>) /\ TablesKept /\ e \in Feedable /\ pools' = pools
  BY DEF OneStep
<1>2. feed' \in Seq(Feedable) /\ DOMAIN feed' = 1..Len(feed') /\ DOMAIN feed = 1..Len(feed)
  BY <1>1, FeedDomain DEF Grown, TypeOK, Feedable
<1>3. /\ Fits(e)
      /\ holders' \subseteq Grantable
      /\ owner' \in [Profiles -> Accounts \cup {NoAccount}]
      /\ profile' \in [Profiles -> [version : Nat, doc : Documents \cup {Null}, first : Documents \cup {Null}]]
      /\ attested' \in [Uids -> Listings \cup {Null}]
  <2>1. CASE GrantStep(e)
    BY <2>1, RoleFacts DEF GrantStep, TypeOK, Fits, Event
  <2>2. CASE RevokeStep(e)
    BY <2>2, RoleFacts DEF RevokeStep, TypeOK, Fits, Event
  <2>3. CASE OwnerStep(e)
    BY <2>3, RoleFacts DEF OwnerStep, TypeOK, Fits, Event, Role
  <2>. DEFINE D == Documents \cup {Null}
              P == [version : Nat, doc : D, first : D]
  <2>a. /\ \A p \in Profiles : profile[p] \in P /\ profile[p].version \in Nat
        /\ profile \in [Profiles -> P]
    BY DEF TypeOK
  <2>4. CASE NameStep(e)
    <3>1. PICK p \in Profiles :
             /\ e = DataEvent("ProfileNameUpdated", p, profile[p].version + 1)
             /\ profile' = [profile EXCEPT ![p].version = profile[p].version + 1]
      BY <2>4 DEF NameStep
    <3>2. [profile[p] EXCEPT !.version = profile[p].version + 1] \in P
      BY <2>a
    <3>. HIDE DEF P
    <3>3. profile' \in [Profiles -> P]
      BY <2>a, <3>1, <3>2
    <3>. QED BY <2>4, <3>1, <3>3 DEF NameStep, TypeOK, Fits, DataEvent, P
  <2>5. CASE DocumentStep(e)
    <3>1. PICK p \in Profiles, d \in Documents :
             /\ e = DataEvent("ProfileMetadataUpdated", p, d)
             /\ profile' = [profile EXCEPT ![p].doc = d]
      BY <2>5 DEF DocumentStep
    <3>2. [profile[p] EXCEPT !.doc = d] \in P
      BY <2>a
    <3>. HIDE DEF P
    <3>3. profile' \in [Profiles -> P]
      BY <2>a, <3>1, <3>2
    <3>. QED BY <2>5, <3>1, <3>3 DEF DocumentStep, TypeOK, Fits, DataEvent, P
  <2>6. CASE ApplyStep(e)
    BY <2>6 DEF ApplyStep, TypeOK, Fits, DataEvent
  <2>7. CASE AttestStep(e)
    BY <2>7 DEF AttestStep, TypeOK, Fits, DataEvent
  <2>. QED BY <2>1, <2>2, <2>3, <2>4, <2>5, <2>6, <2>7 DEF OneStep
<1>4. Len(<<e>>) = 1 /\ <<e>>[1] = e
  OBVIOUS
<1>5. \A i \in DOMAIN feed' : Fits(feed'[i])
  <2>. TAKE i \in DOMAIN feed'
  <2>1. CASE i \in 1..Len(feed)
    BY <1>1, <1>2, <2>1 DEF Grown, TypeOK
  <2>2. CASE i \notin 1..Len(feed)
    <3>1. i - Len(feed) \in 1..Len(<<e>>) /\ feed'[i] = <<e>>[i - Len(feed)] /\ Len(feed) \in Nat
      BY <1>1, <1>2, <2>2 DEF Grown
    <3>2. i - Len(feed) = 1
      BY <1>4, <3>1
    <3>. QED BY <1>3, <1>4, <3>1, <3>2
  <2>. QED BY <2>1, <2>2
<1>. QED BY <1>1, <1>2, <1>3, <1>5 DEF TypeOK, TablesKept, Feedable, Fits

\* What remains of the feed keeps its type.
LEMMA TakenTypes ==
    ASSUME TypeOK, Taken
    PROVE  /\ feed' \in Seq(RoleEvents \cup DataEvents)
           /\ \A i \in DOMAIN feed' : Fits(feed'[i])
           /\ DOMAIN feed = 1..Len(feed) /\ DOMAIN feed' = 1..Len(feed') /\ 1 \in DOMAIN feed
<1>1. feed' \in Seq(Feedable) /\ DOMAIN feed' = 1..Len(feed') /\ DOMAIN feed = 1..Len(feed)
  BY FeedDomain DEF Taken, TypeOK, Feedable
<1>2. \A i \in DOMAIN feed' : Fits(feed'[i])
  BY <1>1 DEF Taken, TypeOK
<1>3. 1 \in 1..Len(feed)
  BY DEF Taken
<1>. QED BY <1>1, <1>2, <1>3 DEF Feedable

\* a handler of a role event does,
LEMMA HandlerTypes ==
    ASSUME TypeOK, NEW e \in RoleEvents, Fits(e), HandlerEffect(e)
    PROVE  /\ created' \subseteq Entities /\ rows' \subseteq AllRoles
           /\ \A r \in rows' : r \in RolesOf(r.of) \/ (r.kind = "owner" /\ r.of \in Profiles)
           /\ pending' \in [Grantable -> Nat]
<1>. DEFINE r == e.role
            x == r.of
<1>1. r \in AllRoles /\ x \in Entities
  BY DEF RoleEvents, AllRoles
<1>2. /\ created \subseteq Entities /\ rows \subseteq AllRoles /\ pending \in [Grantable -> Nat]
      /\ \A m \in rows : m \in RolesOf(m.of) \/ (m.kind = "owner" /\ m.of \in Profiles)
  BY DEF TypeOK
<1>3. CASE e.type = "granted"
  BY <1>1, <1>2, <1>3, RoleFacts DEF HandlerEffect, Fits
<1>4. CASE e.type = "revoked"
  BY <1>2, <1>4 DEF HandlerEffect
<1>5. CASE e.type = "created"
  <2>1. \A m \in PendingRows(x) : m \in RolesOf(m.of) /\ m \in AllRoles
    BY <1>1, RoleFacts DEF PendingRows
  <2>2. pending' \in [Grantable -> Nat]
    BY <1>2, <1>5 DEF HandlerEffect
  <2>. QED BY <1>1, <1>2, <1>5, <2>1, <2>2 DEF HandlerEffect, Fits
<1>6. CASE e.type = "ownerUpdated"
  BY <1>1, <1>2, <1>6 DEF HandlerEffect, Fits
<1>. QED BY <1>3, <1>4, <1>5, <1>6 DEF RoleEvents, RoleTypes

\* a row of the projects table stays one,
LEMMA RowTypes ==
    ASSUME TypeOK, NEW p \in Profiles
    PROVE  /\ NewRow(p) \in Row(p)
           /\ \A d \in Documents, row \in Row(p) : Described(row, d) \in Row(p)
           /\ \A v \in Nat, row \in Row(p) : Renamed(row, v) \in Row(p)
<1>1. profile[p].first \in Documents \cup {Null}
  BY DEF TypeOK
<1>2. NewRow(p) \in Row(p)
  BY <1>1 DEF NewRow, Described, Row, ProjectRow, Anchor, TypeOf
<1>3. ASSUME NEW d \in Documents, NEW row \in Row(p)
      PROVE  Described(row, d) \in Row(p)
  BY DEF Described, Row, ProjectRow, TypeOf
<1>4. ASSUME NEW v \in Nat, NEW row \in Row(p)
      PROVE  Renamed(row, v) \in Row(p)
  BY DEF Renamed, Row, ProjectRow
<1>. QED BY <1>2, <1>3, <1>4
-----------------------------------------------------------------------------
(* What a step of the indexer does with the head e of the feed. *)

Handled(e) ==
    /\ e \in RoleEvents /\ Fits(e) /\ Succeeds(e) /\ HandlerEffect(e) /\ damaged' = damaged
    /\ projects' = IF e.type = "created" /\ e.role.of \in Profiles
                   THEN [projects EXCEPT ![e.role.of] = NewRow(e.role.of)]
                   ELSE projects
    /\ UNCHANGED <<attestations, txns, stale, missing>>

Refused(e) ==
    /\ e \in RoleEvents /\ Fits(e) /\ ~Succeeds(e)
    /\ UNCHANGED <<created, rows, pending, damaged, projects, attestations, txns, stale, missing>>

LostRole(e) ==
    /\ e \in RoleEvents /\ Fits(e)
    /\ damaged' = damaged \cup {e.role.of}
                     \cup (IF e.type = "created" THEN {q \in Pools : ProfileOf[q] = e.role.of} ELSE {})
    /\ UNCHANGED <<created, rows, pending, projects, attestations, txns, stale, missing>>

NameEffect(e) ==
    /\ e.type = "ProfileNameUpdated"
    /\ Update(e.about, Renamed(projects[e.about], e.data))
    /\ stale' = stale \ {<<e.about, "anchor">>}
    /\ UNCHANGED <<attestations, txns, missing>>

DocumentEffect(e) ==
    /\ e.type = "ProfileMetadataUpdated"
    /\ Update(e.about, Described(projects[e.about], e.data))
    /\ stale' = stale \ {<<e.about, "doc">>}
    /\ UNCHANGED <<attestations, txns, missing>>

AttestEffect(e) ==
    /\ e.type = "OnAttested"
    /\ \/ Listed(e.data) /\ InsertAttestation(e.about, e.data)
       \/ ~Listed(e.data) /\ UNCHANGED <<attestations, txns>>
    /\ UNCHANGED <<projects, stale, missing>>

LostData(e) ==
    /\ stale' = stale \cup (CASE e.type = "ProfileNameUpdated" -> {<<e.about, "anchor">>}
                              [] e.type = "ProfileMetadataUpdated" -> {<<e.about, "doc">>}
                              [] OTHER -> {})
    /\ missing' = IF e.type = "OnAttested" THEN missing \cup {e.about} ELSE missing
    /\ UNCHANGED <<projects, attestations, txns>>

DataTaken(e) ==
    /\ e \in DataEvents /\ UNCHANGED <<created, rows, pending, damaged>>
    /\ \/ NameEffect(e) \/ DocumentEffect(e) \/ AttestEffect(e)
       \/ e.type = "Registered" /\ UNCHANGED <<projects, attestations, txns, stale, missing>>
       \/ LostData(e)

IndexerStep(e) ==
    /\ Taken /\ e = feed[1] /\ ContractsKept
    /\ Handled(e) \/ Refused(e) \/ LostRole(e) \/ DataTaken(e)

\* A role event is handled, refused or lost;
LEMMA RoleStepKinds ==
    ASSUME TypeOK, HandleRoleEvent \/ RoleEventNotHandled
    PROVE  \E e : IndexerStep(e)
<1>. DEFINE e == feed[1]
<1>1. RoleEvent /\ feed' = Tail(feed) /\ ContractsKept
  BY DEF HandleRoleEvent, RoleEventNotHandled, HandleEvent, EventRefused, EventLost, ContractsKept,
         chainVars, dataVars
<1>2. /\ Taken /\ Head(feed) = e /\ e \in RoleEvents /\ Fits(e)
  BY <1>1, RoleHead
<1>. HIDE DEF e
<1>3. CASE HandleRoleEvent
  <2>1. Succeeds(e) /\ Handler(e) /\ damaged' = damaged
    BY <1>2, <1>3 DEF HandleRoleEvent, HandleEvent
  <2>2. HandlerEffect(e)
    BY <1>2, <2>1, HandlerFacts
  <2>3. Handled(e)
    BY <1>2, <1>3, <2>1, <2>2 DEF HandleRoleEvent, Handled
  <2>. QED BY <1>1, <1>2, <2>3 DEF IndexerStep, e
<1>4. CASE RoleEventNotHandled /\ EventRefused
  <2>1. Refused(e)
    BY <1>2, <1>4 DEF RoleEventNotHandled, EventRefused, Refused, dbVars, dataVars
  <2>. QED BY <1>1, <1>2, <2>1 DEF IndexerStep, e
<1>5. CASE RoleEventNotHandled /\ EventLost
  <2>1. LostRole(e)
    BY <1>2, <1>5 DEF RoleEventNotHandled, EventLost, LostRole, dbVars, dataVars
  <2>. QED BY <1>1, <1>2, <2>1 DEF IndexerStep, e
<1>. QED BY <1>3, <1>4, <1>5 DEF RoleEventNotHandled

\* so is any other event.
LEMMA DataStepKinds ==
    ASSUME TypeOK,
           \/ ProfileNameUpdated \/ ProfileMetadataUpdated \/ Registered \/ OnAttested
           \/ DataEventLost
    PROVE  \E e : IndexerStep(e)
<1>. DEFINE e == feed[1]
<1>1. ASSUME NEW T, NextData(T), UNCHANGED <<chainVars, dbVars, damaged, profile, attested>>,
             \/ NameEffect(e) \/ DocumentEffect(e) \/ AttestEffect(e)
             \/ e.type = "Registered" /\ UNCHANGED <<projects, attestations, txns, stale, missing>>
             \/ LostData(e)
      PROVE  \E d : IndexerStep(d)
  <2>1. Taken /\ e \in DataEvents
    BY <1>1, DataHead
  <2>2. ContractsKept /\ UNCHANGED <<created, rows, pending, damaged>>
    BY <1>1 DEF chainVars, dbVars, ContractsKept
  <2>3. DataTaken(e)
    BY <1>1, <2>1, <2>2 DEF DataTaken
  <2>. QED BY <2>1, <2>2, <2>3 DEF IndexerStep
<1>2. CASE ProfileNameUpdated
  <2>1. NextData({"ProfileNameUpdated"}) /\ Head(feed) = e /\ e.type = "ProfileNameUpdated"
    BY <1>2, DataHead DEF ProfileNameUpdated
  <2>2. NameEffect(e) /\ UNCHANGED <<chainVars, dbVars, damaged, profile, attested>>
    BY <1>2, <2>1 DEF ProfileNameUpdated, NameEffect
  <2>. QED BY <1>1, <2>1, <2>2
<1>3. CASE ProfileMetadataUpdated
  <2>1. NextData({"ProfileMetadataUpdated"}) /\ Head(feed) = e /\ e.type = "ProfileMetadataUpdated"
    BY <1>3, DataHead DEF ProfileMetadataUpdated
  <2>2. DocumentEffect(e) /\ UNCHANGED <<chainVars, dbVars, damaged, profile, attested>>
    BY <1>3, <2>1 DEF ProfileMetadataUpdated, DocumentEffect
  <2>. QED BY <1>1, <2>1, <2>2
<1>4. CASE Registered
  <2>1. NextData({"Registered"}) /\ Head(feed) = e /\ e.type = "Registered"
    BY <1>4, DataHead DEF Registered
  <2>2. UNCHANGED <<chainVars, dbVars, damaged, profile, attested>>
        /\ UNCHANGED <<projects, attestations, txns, stale, missing>>
    BY <1>4 DEF Registered, dataVars
  <2>. QED BY <1>1, <2>1, <2>2
<1>5. CASE OnAttested
  <2>1. NextData({"OnAttested"}) /\ Head(feed) = e /\ e.type = "OnAttested"
    BY <1>5, DataHead DEF OnAttested
  <2>2. AttestEffect(e) /\ UNCHANGED <<chainVars, dbVars, damaged, profile, attested>>
    BY <1>5, <2>1 DEF OnAttested, AttestEffect
  <2>. QED BY <1>1, <2>1, <2>2
<1>6. CASE DataEventLost
  <2>. DEFINE T == {"ProfileNameUpdated", "ProfileMetadataUpdated", "Registered", "OnAttested"}
  <2>1. NextData(T) /\ Head(feed) = e
    BY <1>6, DataHead DEF DataEventLost
  <2>2. LostData(e) /\ UNCHANGED <<chainVars, dbVars, damaged, profile, attested>>
    BY <1>6, <2>1 DEF DataEventLost, LostData
  <2>. HIDE DEF T
  <2>. QED BY <1>1, <2>1, <2>2
<1>. QED BY <1>2, <1>3, <1>4, <1>5, <1>6

\* and any step of the indexer does.
LEMMA IndexerTypes ==
    ASSUME TypeOK, NEW e, IndexerStep(e)
    PROVE  TypeOK'
<1>1. /\ feed' \in Seq(RoleEvents \cup DataEvents)
      /\ \A i \in DOMAIN feed' : Fits(feed'[i])
      /\ Taken /\ ContractsKept /\ e = feed[1]
  BY TakenTypes DEF IndexerStep
<1>2. ASSUME created' \subseteq Entities, rows' \subseteq AllRoles,
             \A r \in rows' : r \in RolesOf(r.of) \/ (r.kind = "owner" /\ r.of \in Profiles),
             pending' \in [Grantable -> Nat],
             DOMAIN projects' = Profiles,
             \A p \in Profiles : projects'[p] # Null => projects'[p] \in Row(p),
             attestations' \subseteq Uids
      PROVE  TypeOK'
  BY <1>1, <1>2 DEF TypeOK, ContractsKept, Fits
<1>3. CASE Handled(e)
  <2>1. e \in RoleEvents /\ Fits(e) /\ HandlerEffect(e) /\ attestations' = attestations
    BY <1>3 DEF Handled
  <2>2. DOMAIN projects' = Profiles /\ \A p \in Profiles : projects'[p] # Null => projects'[p] \in Row(p)
    <3>1. \A p \in Profiles : NewRow(p) \in Row(p)
      BY RowTypes
    <3>. QED BY <1>3, <3>1 DEF Handled, TypeOK
  <2>. QED BY <1>2, <2>1, <2>2, HandlerTypes DEF TypeOK
<1>4. CASE Refused(e) \/ LostRole(e)
  BY <1>2, <1>4 DEF Refused, LostRole, TypeOK
<1>5. CASE DataTaken(e)
  <2>1. created' = created /\ rows' = rows /\ pending' = pending /\ e \in DataEvents
    BY <1>5 DEF DataTaken
  <2>2. /\ DOMAIN projects' = Profiles
        /\ \A p \in Profiles : projects'[p] # Null => projects'[p] \in Row(p)
        /\ attestations' \subseteq Uids
    <3>1. CASE NameEffect(e)
      <4>1. e.about \in Profiles /\ e.data \in Nat
        BY <2>1, <3>1 DEF NameEffect, DataEvents
      <4>2. \A row \in Row(e.about) : Renamed(row, e.data) \in Row(e.about)
        BY <4>1, RowTypes
      <4>. QED BY <3>1, <4>1, <4>2 DEF NameEffect, Update, TypeOK
    <3>2. CASE DocumentEffect(e)
      <4>1. e.about \in Profiles /\ e.data \in Documents
        BY <2>1, <3>2 DEF DocumentEffect, DataEvents
      <4>2. \A row \in Row(e.about) : Described(row, e.data) \in Row(e.about)
        BY <4>1, RowTypes
      <4>. QED BY <3>2, <4>1, <4>2 DEF DocumentEffect, Update, TypeOK
    <3>3. CASE AttestEffect(e)
      <4>1. e.about \in Uids
        BY <2>1, <3>3 DEF AttestEffect, DataEvents
      <4>. QED BY <3>3, <4>1 DEF AttestEffect, InsertAttestation, TypeOK
    <3>4. CASE projects' = projects /\ attestations' = attestations
      BY <3>4 DEF TypeOK
    <3>. QED BY <1>5, <3>1, <3>2, <3>3, <3>4 DEF DataTaken, LostData
  <2>. QED BY <1>2, <2>1, <2>2 DEF TypeOK
<1>. QED BY <1>3, <1>4, <1>5 DEF IndexerStep
-----------------------------------------------------------------------------
(* The places of the feed after a step. *)

Old(i) == i \in 1..Len(feed)

\* After a creation the new places hold the grants, each once, then the creation.
LEMMA CreationPlaces ==
    ASSUME TypeOK, NEW x \in Entities, NEW es, NEW R, NEW c, CreationStep(x, es, R, c)
    PROVE  /\ DOMAIN feed = 1..Len(feed) /\ DOMAIN feed' = 1..Len(feed')
           /\ Len(feed) \in Nat /\ Len(feed') \in Nat /\ Len(feed) < Len(feed')
           /\ \A i \in 1..Len(feed) : i \in 1..Len(feed') /\ i < Len(feed') /\ feed'[i] = feed[i]
           /\ feed'[Len(feed')].type = "created" /\ feed'[Len(feed')].role = c
           /\ \A i \in 1..Len(feed') : ~Old(i) /\ i # Len(feed') =>
                 feed'[i].type = "granted" /\ feed'[i].role \in R
           /\ \A r \in R : \E i \in 1..Len(feed') :
                 ~Old(i) /\ i # Len(feed') /\ feed'[i].type = "granted" /\ feed'[i].role = r
           /\ \A i, j \in 1..Len(feed') : ~Old(i) /\ ~Old(j) /\ i # Len(feed') /\ j # Len(feed')
                 /\ feed'[i].role = feed'[j].role => i = j
<1>. DEFINE n == Len(feed)
            m == Len(feed')
            l == Len(es)
<1>1. /\ feed' \in Seq(Feedable) /\ n \in Nat /\ l \in Nat \ {0} /\ m = n + l
      /\ \A i \in 1..n : feed'[i] = feed[i]
      /\ \A i \in 1..l : feed'[n + i] = es[i]
      /\ \A i \in 1..m : i \notin 1..n => i - n \in 1..l /\ feed'[i] = es[i - n]
      /\ Creation(es, R, c)
  BY DEF CreationStep, Grown, Creation
<1>2. /\ es[l] = Event("created", c)
      /\ \A k \in 1..l : k # l => \E r \in R : es[k] = Event("granted", r)
      /\ \A r \in R : \E k \in 1..l : k # l /\ es[k] = Event("granted", r)
      /\ \A j, k \in 1..l : j # l /\ k # l /\ es[j] = es[k] => j = k
  BY DEF CreationStep, Creation
<1>3. DOMAIN feed = 1..n /\ DOMAIN feed' = 1..m
  BY <1>1, FeedDomain DEF TypeOK, Feedable
<1>. HIDE DEF n, m, l
<1>4. m \in Nat /\ n < m /\ \A i \in 1..n : i \in 1..m /\ i < m
  BY <1>1
<1>5. feed'[m] = Event("created", c)
  <2>1. l \in 1..l /\ n + l = m
    BY <1>1
  <2>. QED BY <1>1, <1>2, <2>1
<1>6. \A i \in 1..m : i \notin 1..n /\ i # m =>
         /\ i - n \in 1..l /\ i - n # l /\ feed'[i] = es[i - n]
         /\ \E r \in R : feed'[i] = Event("granted", r)
  <2>. TAKE i \in 1..m
  <2>. HAVE i \notin 1..n /\ i # m
  <2>1. i - n \in 1..l /\ i - n # l /\ feed'[i] = es[i - n]
    BY <1>1
  <2>. QED BY <1>2, <2>1
<1>7. \A r \in R : \E i \in 1..m : i \notin 1..n /\ i # m /\ feed'[i] = Event("granted", r)
  <2>. TAKE r \in R
  <2>1. PICK k \in 1..l : k # l /\ es[k] = Event("granted", r)
    BY <1>2
  <2>2. n + k \in 1..m /\ n + k \notin 1..n /\ n + k # m /\ feed'[n + k] = es[k]
    BY <1>1, <2>1
  <2>. QED BY <2>1, <2>2
<1>a. \A t, r : Event(t, r).type = t /\ Event(t, r).role = r
  BY DEF Event
<1>8. \A i \in 1..m : i \notin 1..n /\ i # m =>
         feed'[i].type = "granted" /\ feed'[i].role \in R /\ feed'[i] = Event("granted", feed'[i].role)
  <2>. TAKE i \in 1..m
  <2>. HAVE i \notin 1..n /\ i # m
  <2>1. PICK r \in R : feed'[i] = Event("granted", r)
    BY <1>6
  <2>. QED BY <1>a, <2>1
<1>9. \A i, j \in 1..m : i \notin 1..n /\ j \notin 1..n /\ i # m /\ j # m
         /\ feed'[i].role = feed'[j].role => i = j
  <2>. TAKE i, j \in 1..m
  <2>. HAVE i \notin 1..n /\ j \notin 1..n /\ i # m /\ j # m /\ feed'[i].role = feed'[j].role
  <2>1. feed'[i] = feed'[j]
    BY <1>8
  <2>2. i - n = j - n
    BY <1>2, <1>6, <2>1
  <2>. QED BY <1>1, <2>2
<1>10. feed'[m].type = "created" /\ feed'[m].role = c
  BY <1>5 DEF Event
<1>11. \A r \in R : \E i \in 1..m : i \notin 1..n /\ i # m /\ feed'[i].type = "granted" /\ feed'[i].role = r
  <2>. TAKE r \in R
  <2>1. PICK i \in 1..m : i \notin 1..n /\ i # m /\ feed'[i] = Event("granted", r)
    BY <1>7
  <2>. QED BY <1>a, <2>1
<1>. QED BY <1>1, <1>3, <1>4, <1>8, <1>9, <1>10, <1>11 DEF Old, n, m

\* After a call with one event that event is at the end.
LEMMA OnePlaces ==
    ASSUME TypeOK, NEW e, OneStep(e)
    PROVE  /\ DOMAIN feed = 1..Len(feed) /\ DOMAIN feed' = 1..Len(feed')
           /\ Len(feed) \in Nat /\ Len(feed') = Len(feed) + 1
           /\ \A i \in 1..Len(feed) : i \in 1..Len(feed') /\ i < Len(feed') /\ feed'[i] = feed[i]
           /\ Len(feed') \in 1..Len(feed') /\ feed'[Len(feed')] = e
           /\ \A i \in 1..Len(feed') : i # Len(feed') => i \in 1..Len(feed)
<1>. DEFINE n == Len(feed)
            m == Len(feed')
            s == <<e>>
<1>1. Len(s) = 1 /\ s[1] = e
  OBVIOUS
<1>. HIDE DEF s
<1>2. /\ feed' \in Seq(Feedable) /\ n \in Nat /\ m = n + Len(s)
      /\ \A i \in 1..n : feed'[i] = feed[i]
      /\ \A i \in 1..Len(s) : feed'[n + i] = s[i]
  BY DEF OneStep, Grown, s
<1>3. DOMAIN feed = 1..n /\ DOMAIN feed' = 1..m
  BY <1>2, FeedDomain DEF TypeOK, Feedable
<1>. HIDE DEF n, m
<1>4. feed'[n + 1] = e
  <2>1. 1 \in 1..Len(s)
    BY <1>1
  <2>. QED BY <1>1, <1>2, <2>1
<1>5. m = n + 1
  BY <1>1, <1>2
<1>6. \A i \in 1..n : i \in 1..m /\ i < m /\ feed'[i] = feed[i]
  BY <1>2, <1>5
<1>7. m \in 1..m /\ \A i \in 1..m : i # m => i \in 1..n
  BY <1>2, <1>5
<1>. QED BY <1>2, <1>3, <1>4, <1>5, <1>6, <1>7 DEF n, m

\* After a step of the indexer every place is the one that was behind it.
LEMMA TakenPlaces ==
    ASSUME TypeOK, Taken
    PROVE  /\ DOMAIN feed = 1..Len(feed) /\ DOMAIN feed' = 1..Len(feed')
           /\ Len(feed) \in Nat \ {0} /\ Len(feed') \in Nat /\ Len(feed') = Len(feed) - 1
           /\ 1 \in 1..Len(feed)
           /\ \A i \in 1..Len(feed') : i + 1 \in 1..Len(feed) /\ feed'[i] = feed[i + 1] /\ i + 1 > 1
           /\ \A i \in 1..Len(feed) : i # 1 => i - 1 \in 1..Len(feed') /\ feed'[i - 1] = feed[i]
<1>1. DOMAIN feed = 1..Len(feed) /\ DOMAIN feed' = 1..Len(feed')
  BY TakenTypes
<1>2. /\ Len(feed) \in Nat \ {0} /\ Len(feed') = Len(feed) - 1
      /\ \A i \in 1..Len(feed') : i + 1 \in 1..Len(feed) /\ feed'[i] = feed[i + 1]
      /\ \A i \in 1..Len(feed) : i # 1 => i - 1 \in 1..Len(feed') /\ feed'[i - 1] = feed[i]
  BY DEF Taken
<1>. QED BY <1>1, <1>2

\* Which events are where, after an event e
LEMMA OneAt ==
    ASSUME TypeOK, NEW e, OneStep(e)
    PROVE  LET m == Len(feed') IN
           /\ \A i \in 1..Len(feed) : \A y :
                 /\ CreatedAt(i, y)' <=> CreatedAt(i, y)
                 /\ LaterAt(i, y)' <=> LaterAt(i, y)
                 /\ RoleAt(i, y)' <=> RoleAt(i, y)
                 /\ DataAt(i, y)' <=> DataAt(i, y)
                 /\ GrantedAt(i, y)' <=> GrantedAt(i, y)
                 /\ AttestedAt(i, y)' <=> AttestedAt(i, y)
BY OnePlaces DEF CreatedAt, LaterAt, RoleAt, DataAt, GrantedAt, AttestedAt

\* What is at each place after a creation,
LEMMA CreationAt ==
    ASSUME TypeOK, NEW x \in Entities, NEW es, NEW R, NEW c, CreationStep(x, es, R, c)
    PROVE  LET m == Len(feed') IN
           /\ \A i \in 1..Len(feed) : \A y :
                 /\ CreatedAt(i, y)' <=> CreatedAt(i, y)
                 /\ LaterAt(i, y)' <=> LaterAt(i, y)
                 /\ RoleAt(i, y)' <=> RoleAt(i, y)
                 /\ DataAt(i, y)' <=> DataAt(i, y)
                 /\ GrantedAt(i, y)' <=> GrantedAt(i, y)
                 /\ AttestedAt(i, y)' <=> AttestedAt(i, y)
           /\ \A i \in 1..m : ~Old(i) => \A y :
                 /\ CreatedAt(i, y)' <=> i = m /\ y = x
                 /\ ~LaterAt(i, y)' /\ ~DataAt(i, y)' /\ ~AttestedAt(i, y)'
                 /\ RoleAt(i, y)' <=> y = x
                 /\ GrantedAt(i, y)' => y \in R /\ i # m
<1>. DEFINE n == Len(feed)
            m == Len(feed')
<1>1. \A i \in 1..n : feed'[i] = feed[i]
  BY CreationPlaces
<1>2. \A i \in 1..n : \A y :
                 /\ CreatedAt(i, y)' <=> CreatedAt(i, y)
                 /\ LaterAt(i, y)' <=> LaterAt(i, y)
                 /\ RoleAt(i, y)' <=> RoleAt(i, y)
                 /\ DataAt(i, y)' <=> DataAt(i, y)
                 /\ GrantedAt(i, y)' <=> GrantedAt(i, y)
                 /\ AttestedAt(i, y)' <=> AttestedAt(i, y)
  BY <1>1 DEF CreatedAt, LaterAt, RoleAt, DataAt, GrantedAt, AttestedAt
<1>3. R \subseteq RolesOf(x) /\ c.of = x /\ \A r \in R : r.of = x
  BY RoleFacts DEF CreationStep
<1>4. \A i \in 1..m : ~Old(i) =>
         /\ feed'[i].type \in {"granted", "created"} /\ feed'[i].role.of = x
         /\ feed'[i].type = "created" <=> i = m
         /\ i # m => feed'[i].role \in R
  BY <1>3, CreationPlaces
<1>5. \A i \in 1..m : ~Old(i) => \A y :
                 /\ CreatedAt(i, y)' <=> i = m /\ y = x
                 /\ ~LaterAt(i, y)' /\ ~DataAt(i, y)' /\ ~AttestedAt(i, y)'
                 /\ RoleAt(i, y)' <=> y = x
                 /\ GrantedAt(i, y)' => y \in R /\ i # m
  BY <1>4 DEF CreatedAt, LaterAt, RoleAt, DataAt, GrantedAt, AttestedAt, RoleTypes, ProfileTypes
<1>. QED BY <1>2, <1>5

\* and after a step of the indexer.
LEMMA TakenAt ==
    ASSUME TypeOK, Taken
    PROVE  \A i \in 1..Len(feed') : \A y :
                 /\ CreatedAt(i, y)' <=> CreatedAt(i + 1, y)
                 /\ LaterAt(i, y)' <=> LaterAt(i + 1, y)
                 /\ RoleAt(i, y)' <=> RoleAt(i + 1, y)
                 /\ DataAt(i, y)' <=> DataAt(i + 1, y)
                 /\ GrantedAt(i, y)' <=> GrantedAt(i + 1, y)
                 /\ AttestedAt(i, y)' <=> AttestedAt(i + 1, y)
BY TakenPlaces DEF CreatedAt, LaterAt, RoleAt, DataAt, GrantedAt, AttestedAt
-----------------------------------------------------------------------------
(* A creation. *)

\* Where there is an event of x, x exists.
LEMMA EventOfExisting ==
    ASSUME TypeOK, NothingBefore, NEW i \in DOMAIN feed, NEW y \in Entities
    PROVE  /\ CreatedAt(i, y) => Exists(y)
           /\ LaterAt(i, y) => Exists(y)
           /\ RoleAt(i, y) => Exists(y)
           /\ \A r \in RolesOf(y) : GrantedAt(i, r) => Exists(y)
<1>1. CreatedAt(i, y) => RoleAt(i, y)
  BY DEF CreatedAt, RoleAt, RoleTypes
<1>2. \A r \in RolesOf(y) : GrantedAt(i, r) => RoleAt(i, y)
  BY RoleFacts DEF GrantedAt, RoleAt, RoleTypes
<1>. QED BY <1>1, <1>2 DEF NothingBefore, LaterAt

\* A creation keeps the shape of the feed and of the pending rows.
LEMMA CreationOrder ==
    ASSUME IInv, NEW x \in Entities, NEW es, NEW R, NEW c, CreationStep(x, es, R, c),
           pools' \subseteq Pools
    PROVE  NothingBefore' /\ CreatedOnce' /\ RowsOfCreated' /\ ParkedOnce' /\ Arrives'
<1>. DEFINE n == Len(feed)
            m == Len(feed')
<1>1. /\ DOMAIN feed = 1..n /\ DOMAIN feed' = 1..m /\ n \in Nat /\ m \in Nat /\ n < m
      /\ \A i \in 1..n : i \in 1..m /\ i < m
  BY CreationPlaces DEF IInv
<1>2. /\ \A i \in 1..n : \A y :
            /\ CreatedAt(i, y)' <=> CreatedAt(i, y)
            /\ LaterAt(i, y)' <=> LaterAt(i, y)
            /\ RoleAt(i, y)' <=> RoleAt(i, y)
            /\ DataAt(i, y)' <=> DataAt(i, y)
            /\ GrantedAt(i, y)' <=> GrantedAt(i, y)
      /\ \A i \in 1..m : i \notin 1..n => \A y :
            /\ CreatedAt(i, y)' <=> i = m /\ y = x
            /\ ~LaterAt(i, y)' /\ ~DataAt(i, y)'
            /\ RoleAt(i, y)' <=> y = x
            /\ GrantedAt(i, y)' => y \in R /\ i # m
  BY CreationAt DEF IInv, Old
<1>3. \A i, j \in 1..m : i \notin 1..n /\ j \notin 1..n => \A r : GrantedAt(i, r)' /\ GrantedAt(j, r)' => i = j
  <2>. TAKE i, j \in 1..m
  <2>. HAVE i \notin 1..n /\ j \notin 1..n
  <2>. TAKE r
  <2>. HAVE GrantedAt(i, r)' /\ GrantedAt(j, r)'
  <2>1. i # m /\ j # m
    BY <1>2
  <2>2. feed'[i].role = feed'[j].role
    BY DEF GrantedAt
  <2>. QED BY <2>1, <2>2, CreationPlaces DEF IInv, Old
<1>4. /\ created' = created /\ rows' = rows /\ pending' = pending /\ damaged' = damaged
      /\ ~Exists(x) /\ Exists(x)' /\ \A y \in Entities : y # x => (Exists(y)' <=> Exists(y))
      /\ holders' = holders \cup R /\ \A r \in R : r.of = x
  BY RoleFacts DEF CreationStep, TablesKept
<1>5. /\ x \notin created /\ Held(x) = {} /\ PendingRows(x) = {}
      /\ \A i \in 1..n : ~RoleAt(i, x) /\ ~DataAt(i, x) /\ ~CreatedAt(i, x) /\ ~LaterAt(i, x)
      /\ \A i \in 1..n : \A r \in RolesOf(x) : ~GrantedAt(i, r)
      /\ \A i \in 1..n : \A q \in Pools : ProfileOf[q] = x => ~CreatedAt(i, q)
  <2>1. /\ x \notin created /\ Held(x) = {} /\ PendingRows(x) = {}
        /\ \A i \in 1..n : ~RoleAt(i, x) /\ ~DataAt(i, x)
    BY <1>1, <1>4 DEF IInv, NothingBefore
  <2>2. \A i \in 1..n : ~CreatedAt(i, x) /\ ~LaterAt(i, x) /\ \A r \in RolesOf(x) : ~GrantedAt(i, r)
    BY <1>1, <1>4, EventOfExisting DEF IInv
  <2>3. \A i \in 1..n : \A q \in Pools : ProfileOf[q] = x => ~CreatedAt(i, q)
    <3>1. \A q \in Pools : Exists(q) => Exists(ProfileOf[q])
      BY RoleFacts DEF IInv, NothingBefore, Exists
    <3>. QED BY <1>1, <1>4, <3>1, EventOfExisting, RoleFacts DEF IInv
  <2>. QED BY <2>1, <2>2, <2>3
<1>. HIDE DEF n, m
<1>6. NothingBefore'
  <2>1. ASSUME NEW y \in Entities, ~Exists(y)'
        PROVE  /\ y \notin created' /\ Held(y)' = {} /\ PendingRows(y)' = {}
               /\ \A i \in DOMAIN feed' : ~RoleAt(i, y)' /\ ~DataAt(i, y)'
               /\ y \in Profiles => profile'[y].version = 0
    <3>1. y # x /\ ~Exists(y)
      BY <1>4, <2>1
    <3>2. /\ y \notin created /\ Held(y) = {} /\ PendingRows(y) = {}
          /\ \A i \in 1..n : ~RoleAt(i, y) /\ ~DataAt(i, y)
          /\ y \in Profiles => profile[y].version = 0
      BY <1>1, <3>1 DEF IInv, NothingBefore
    <3>3. Held(y)' = {}
      BY <1>4, <3>1, <3>2 DEF Held
    <3>4. PendingRows(y)' = {}
      BY <1>4, <3>2 DEF PendingRows
    <3>5. y \in Profiles => profile'[y] = profile[y]
      BY <3>1 DEF CreationStep
    <3>. QED BY <1>1, <1>2, <1>4, <3>1, <3>2, <3>3, <3>4, <3>5
  <2>2. ASSUME NEW q \in pools' PROVE Exists(ProfileOf[q])'
    <3>1. CASE q \in pools
      <4>1. Exists(ProfileOf[q]) /\ ProfileOf[q] \in Entities
        BY <3>1, RoleFacts DEF IInv, NothingBefore, TypeOK
      <4>. QED BY <1>4, <4>1
    <3>2. CASE q = x
      <4>1. q \in Pools /\ ProfileOf[q] \in Entities /\ ProfileOf[q] # x
        BY <3>2, RoleFacts
      <4>2. Exists(ProfileOf[q])
        BY <3>2, <4>1 DEF CreationStep
      <4>. QED BY <1>4, <4>1, <4>2
    <3>. QED BY <3>1, <3>2 DEF CreationStep
  <2>. QED BY <2>1, <2>2 DEF NothingBefore
<1>7. CreatedOnce'
  <2>1. ASSUME NEW y \in Entities, y # x
        PROVE  /\ y \in created' => \A i \in 1..m : ~CreatedAt(i, y)'
               /\ \A i, j \in 1..m : CreatedAt(i, y)' =>
                     /\ CreatedAt(j, y)' => i = j
                     /\ LaterAt(j, y)' => i < j
                     /\ \A q \in Pools : ProfileOf[q] = y /\ CreatedAt(j, q)' => i < j
    <3>1. \A i \in 1..m : CreatedAt(i, y)' => i \in 1..n /\ CreatedAt(i, y)
      BY <1>2, <2>1
    <3>2. y \in created' => \A i \in 1..m : ~CreatedAt(i, y)'
      BY <1>1, <1>4, <3>1 DEF IInv, CreatedOnce
    <3>3. ASSUME NEW i \in 1..m, NEW j \in 1..m, CreatedAt(i, y)'
          PROVE  /\ CreatedAt(j, y)' => i = j
                 /\ LaterAt(j, y)' => i < j
                 /\ \A q \in Pools : ProfileOf[q] = y /\ CreatedAt(j, q)' => i < j
      <4>1. i \in 1..n /\ CreatedAt(i, y) /\ i < m
        BY <1>1, <3>1, <3>3
      <4>2. CASE j \in 1..n
        BY <1>1, <1>2, <4>1, <4>2 DEF IInv, CreatedOnce
      <4>3. CASE j \notin 1..n
        BY <1>2, <2>1, <4>1, <4>3
      <4>. QED BY <4>2, <4>3
    <3>. QED BY <3>2, <3>3
  <2>2. /\ x \notin created'
        /\ \A i, j \in 1..m : CreatedAt(i, x)' =>
              /\ CreatedAt(j, x)' => i = j
              /\ LaterAt(j, x)' => i < j
              /\ \A q \in Pools : ProfileOf[q] = x /\ CreatedAt(j, q)' => i < j
    <3>1. \A i \in 1..m : CreatedAt(i, x)' => i = m
      BY <1>2, <1>5
    <3>2. \A j \in 1..m : ~LaterAt(j, x)'
      BY <1>2, <1>5
    <3>3. ASSUME NEW q \in Pools, ProfileOf[q] = x PROVE \A j \in 1..m : ~CreatedAt(j, q)'
      <4>1. q # x
        BY <3>3, RoleFacts
      <4>. QED BY <1>2, <1>5, <3>3, <4>1
    <3>. QED BY <1>4, <1>5, <3>1, <3>2, <3>3
  <2>. QED BY <1>1, <2>1, <2>2 DEF CreatedOnce
<1>8. RowsOfCreated'
  BY <1>4 DEF IInv, RowsOfCreated, PendingRows, Stored
<1>9. ParkedOnce'
  <2>1. ASSUME NEW y \in Entities, NEW i \in 1..m, CreatedAt(i, y)', NEW r \in RolesOf(y)
        PROVE  /\ pending'[r] <= 1
               /\ \A j \in 1..m : j < i /\ GrantedAt(j, r)' =>
                     /\ pending'[r] = 0
                     /\ \A k \in 1..m : k < i /\ GrantedAt(k, r)' => k = j
    <3>1. CASE y = x
      <4>1. pending[r] = 0
        BY <1>5, <3>1, RoleFacts DEF PendingRows, IInv, TypeOK
      <4>2. \A j \in 1..m : GrantedAt(j, r)' => j \notin 1..n
        BY <1>2, <1>5, <3>1
      <4>. QED BY <1>3, <1>4, <4>1, <4>2
    <3>2. CASE y # x
      <4>1. i \in 1..n /\ CreatedAt(i, y)
        BY <1>2, <2>1, <3>2
      <4>2. \A j \in 1..m : j < i => j \in 1..n
        BY <1>1, <4>1
      <4>3. /\ pending[r] <= 1
            /\ \A j \in 1..n : j < i /\ GrantedAt(j, r) =>
                  /\ pending[r] = 0
                  /\ \A k \in 1..n : k < i /\ GrantedAt(k, r) => k = j
        BY <1>1, <4>1 DEF IInv, ParkedOnce
      <4>. QED BY <1>2, <1>4, <4>2, <4>3
    <3>. QED BY <3>1, <3>2
  <2>. QED BY <1>1, <2>1 DEF ParkedOnce
<1>10. Arrives'
  <2>1. \E i \in 1..m : CreatedAt(i, x)'
    <3>1. PICK i \in 1..m : i = m /\ i \notin 1..n
      BY <1>1
    <3>2. CreatedAt(i, x)'
      BY <1>2, <3>1
    <3>. QED BY <3>2
  <2>2. ASSUME NEW y \in Entities, Exists(y)', Sound(y)', y # x
        PROVE  y \in created' \/ \E i \in DOMAIN feed' : CreatedAt(i, y)'
    <3>1. Exists(y) /\ Sound(y)
      BY <1>4, <2>2 DEF Sound
    <3>2. y \in created \/ \E i \in 1..n : CreatedAt(i, y)
      BY <1>1, <3>1 DEF IInv, Arrives
    <3>. QED BY <1>1, <1>2, <1>4, <3>2
  <2>. QED BY <1>1, <2>1, <2>2 DEF Arrives
<1>. QED BY <1>6, <1>7, <1>8, <1>9, <1>10
-----------------------------------------------------------------------------
(* Histories. *)

\* Membership in the sets of moves is the relation that defines them.
LEMMA MovesDef ==
    /\ \A x : \A a, b \in SUBSET RolesOf(x), e \in Feedable :
          <<a, e, b>> \in RoleMoves(x) <=> RoleMove(x, a, e, b)
    /\ \A p : \A a, b \in Accounts, e \in Feedable :
          <<a, e, b>> \in OwnerMoves(p) <=> OwnerMove(p, a, e, b)
    /\ \A p : \A a, b \in Documents, e \in Feedable :
          <<a, e, b>> \in DocumentMoves(p) <=> DocumentMove(p, a, e, b)
    /\ \A p : \A a, b \in Nat, e \in Feedable :
          <<a, e, b>> \in VersionMoves(p) <=> VersionMove(p, a, e, b)
<1>1. ASSUME NEW x, NEW a \in SUBSET RolesOf(x), NEW b \in SUBSET RolesOf(x), NEW e \in Feedable
      PROVE  <<a, e, b>> \in RoleMoves(x) <=> RoleMove(x, a, e, b)
  <2>. DEFINE t == <<a, e, b>>
  <2>1. t \in (SUBSET RolesOf(x)) \X Feedable \X (SUBSET RolesOf(x)) /\ t[1] = a /\ t[2] = e /\ t[3] = b
    OBVIOUS
  <2>. HIDE DEF t
  <2>. SUFFICES t \in RoleMoves(x) <=> RoleMove(x, a, e, b)
    BY DEF t
  <2>. QED BY <2>1, Zenon DEF RoleMoves
<1>2. ASSUME NEW p, NEW a \in Accounts, NEW b \in Accounts, NEW e \in Feedable
      PROVE  <<a, e, b>> \in OwnerMoves(p) <=> OwnerMove(p, a, e, b)
  <2>. DEFINE t == <<a, e, b>>
  <2>1. t \in Accounts \X Feedable \X Accounts /\ t[1] = a /\ t[2] = e /\ t[3] = b
    OBVIOUS
  <2>. HIDE DEF t
  <2>. SUFFICES t \in OwnerMoves(p) <=> OwnerMove(p, a, e, b)
    BY DEF t
  <2>. QED BY <2>1, Zenon DEF OwnerMoves
<1>3. ASSUME NEW p, NEW a \in Documents, NEW b \in Documents, NEW e \in Feedable
      PROVE  <<a, e, b>> \in DocumentMoves(p) <=> DocumentMove(p, a, e, b)
  <2>. DEFINE t == <<a, e, b>>
  <2>1. t \in Documents \X Feedable \X Documents /\ t[1] = a /\ t[2] = e /\ t[3] = b
    OBVIOUS
  <2>. HIDE DEF t
  <2>. SUFFICES t \in DocumentMoves(p) <=> DocumentMove(p, a, e, b)
    BY DEF t
  <2>. QED BY <2>1, Zenon DEF DocumentMoves
<1>4. ASSUME NEW p, NEW a \in Nat, NEW b \in Nat, NEW e \in Feedable
      PROVE  <<a, e, b>> \in VersionMoves(p) <=> VersionMove(p, a, e, b)
  <2>. DEFINE t == <<a, e, b>>
  <2>1. t \in Nat \X Feedable \X Nat /\ t[1] = a /\ t[2] = e /\ t[3] = b
    OBVIOUS
  <2>. HIDE DEF t
  <2>. SUFFICES t \in VersionMoves(p) <=> VersionMove(p, a, e, b)
    BY DEF t
  <2>. QED BY <2>1, Zenon DEF VersionMoves
<1>. QED BY <1>1, <1>2, <1>3, <1>4

\* A history goes on as the feed grows: t is its new end.
LEMMA HistoryExtends ==
    ASSUME NEW V, NEW moves, NEW h, History(h, V, moves), NEW t,
           t \in [Len(feed)..Len(feed') -> V], t[Len(feed)] = h[Len(feed)],
           Len(feed) \in Nat, Len(feed') \in Nat, Len(feed) <= Len(feed'),
           \A i \in 1..Len(feed) : feed'[i] = feed[i],
           \A i \in 1..Len(feed') : i \notin 1..Len(feed) => <<t[i - 1], feed'[i], t[i]>> \in moves
    PROVE  \E g : g[0] = h[0] /\ g[Len(feed')] = t[Len(feed')] /\ History(g, V, moves)'
<1>. DEFINE n == Len(feed)
            m == Len(feed')
            g == [i \in 0..m |-> IF i <= n THEN h[i] ELSE t[i]]
<1>1. /\ h \in [0..n -> V] /\ t \in [n..m -> V] /\ t[n] = h[n]
      /\ \A i \in 1..n : <<h[i - 1], feed[i], h[i]>> \in moves
  BY DEF History
<1>2. n \in Nat /\ m \in Nat /\ n <= m
  OBVIOUS
<1>3. /\ \A i \in 1..n : feed'[i] = feed[i]
      /\ \A i \in 1..m : i \notin 1..n => <<t[i - 1], feed'[i], t[i]>> \in moves
  OBVIOUS
<1>. HIDE DEF n, m
<1>4. g \in [0..m -> V]
  BY <1>1, <1>2
<1>5. \A i \in 1..m : <<g[i - 1], feed'[i], g[i]>> \in moves
  <2>. TAKE i \in 1..m
  <2>1. CASE i \in 1..n
    <3>1. g[i - 1] = h[i - 1] /\ g[i] = h[i]
      BY <1>2, <2>1
    <3>. HIDE DEF g
    <3>. QED BY <1>1, <1>3, <2>1, <3>1
  <2>2. CASE i \notin 1..n
    <3>1. g[i] = t[i]
      BY <1>2, <2>2
    <3>2. g[i - 1] = t[i - 1]
      <4>1. CASE i - 1 = n
        BY <1>1, <1>2, <4>1
      <4>2. CASE i - 1 # n
        <5>1. i - 1 \in 0..m /\ ~(i - 1 <= n)
          BY <1>2, <2>2, <4>2
        <5>. QED BY <5>1
      <4>. QED BY <4>1, <4>2
    <3>. HIDE DEF g
    <3>. QED BY <1>3, <2>2, <3>1, <3>2
  <2>. QED BY <2>1, <2>2
<1>6. g[0] = h[0]
  BY <1>2
<1>7. g[m] = t[m]
  BY <1>1, <1>2
<1>. HIDE DEF g
<1>8. PICK f : f = g
  OBVIOUS
<1>9. History(f, V, moves)'
  BY <1>4, <1>5, <1>8 DEF History, m
<1>. QED BY <1>6, <1>7, <1>8, <1>9 DEF m

\* Of what no event of the feed is about, nothing changed.
LEMMA HistoryOfNothing ==
    ASSUME NEW V, NEW moves, NEW v \in V, Len(feed) \in Nat,
           \A i \in 1..Len(feed) : <<v, feed[i], v>> \in moves
    PROVE  \E h : h[0] = v /\ h[Len(feed)] = v /\ History(h, V, moves)
<1>. DEFINE n == Len(feed)
            h == [i \in 0..n |-> v]
<1>1. n \in Nat /\ \A i \in 1..n : <<v, feed[i], v>> \in moves
  OBVIOUS
<1>. HIDE DEF n
<1>2. /\ h \in [0..n -> V] /\ h[0] = v /\ h[n] = v
      /\ \A i \in 1..n : h[i] = v /\ h[i - 1] = v
  BY <1>1
<1>. HIDE DEF h
<1>3. \A i \in 1..n : <<h[i - 1], feed[i], h[i]>> \in moves
  BY <1>1, <1>2
<1>. QED BY <1>2, <1>3 DEF History, n

\* A history is one event shorter when the first one is taken.
LEMMA HistoryShrinks ==
    ASSUME TypeOK, Taken, NEW V, NEW moves, NEW h, History(h, V, moves)
    PROVE  \E g : /\ <<h[0], feed[1], g[0]>> \in moves /\ h[0] \in V /\ g[0] \in V
                  /\ g[Len(feed')] = h[Len(feed)] /\ History(g, V, moves)'
<1>. DEFINE n == Len(feed)
            m == Len(feed')
            g == [i \in 0..m |-> h[i + 1]]
<1>1. h \in [0..n -> V] /\ \A i \in 1..n : <<h[i - 1], feed[i], h[i]>> \in moves
  BY DEF History
<1>a. n \in Nat \ {0} /\ m = n - 1 /\ m \in Nat /\ \A i \in 1..m : feed'[i] = feed[i + 1]
  <2>. HIDE DEF g
  <2>. QED BY TakenPlaces
<1>. HIDE DEF n, m
<1>2. n \in Nat /\ n > 0 /\ m = n - 1 /\ m \in Nat /\ \A i \in 1..m : feed'[i] = feed[i + 1]
  BY <1>a
<1>3. g \in [0..m -> V] /\ g[0] = h[1] /\ g[m] = h[n] /\ h[0] \in V /\ h[1] \in V
  BY <1>1, <1>2
<1>4. \A i \in 1..m : <<g[i - 1], feed'[i], g[i]>> \in moves
  <2>. TAKE i \in 1..m
  <2>1. i + 1 \in 1..n /\ i + 1 - 1 = i /\ i - 1 \in 0..m /\ i - 1 + 1 = i /\ i \in 0..m
    BY <1>2
  <2>2. g[i - 1] = h[i] /\ g[i] = h[i + 1]
    BY <2>1
  <2>. HIDE DEF g
  <2>3. <<h[i], feed[i + 1], h[i + 1]>> \in moves
    BY <1>1, <2>1
  <2>. QED BY <1>2, <2>2, <2>3
<1>5. <<h[0], feed[1], h[1]>> \in moves
  <2>1. 1 \in 1..n /\ 1 - 1 = 0
    BY <1>2
  <2>. QED BY <1>1, <2>1
<1>. HIDE DEF g
<1>6. PICK f : f = g
  OBVIOUS
<1>7. History(f, V, moves)'
  BY <1>3, <1>4, <1>6 DEF History, m
<1>. QED BY <1>3, <1>5, <1>6, <1>7 DEF m, n
-----------------------------------------------------------------------------
(* Histories after a creation. *)

\* The new events of a creation
LEMMA CreationFeed ==
    ASSUME TypeOK, NEW x \in Entities, NEW es, NEW R, NEW c, CreationStep(x, es, R, c)
    PROVE  /\ Len(feed) \in Nat /\ Len(feed') \in Nat /\ Len(feed) < Len(feed')
           /\ \A i \in 1..Len(feed) : feed'[i] = feed[i] /\ feed[i] \in Feedable
           /\ \A i \in 1..Len(feed') : i \notin 1..Len(feed) =>
                 /\ feed'[i] \in Feedable
                 /\ OfRole(feed'[i], x) /\ feed'[i].type \in {"granted", "created"}
                 /\ \A y : y # x => ~OfRole(feed'[i], y)
                 /\ \A t \in ProfileTypes : \A y : ~About(feed'[i], t, y)
                 /\ feed'[i].type = "created" <=> i = Len(feed')
                 /\ i # Len(feed') => feed'[i].role \in R
                 /\ i = Len(feed') => feed'[i].role = c
<1>1. R \subseteq RolesOf(x) /\ c.of = x /\ \A r \in R : r.of = x
  BY RoleFacts DEF CreationStep
<1>2. /\ Len(feed) \in Nat /\ Len(feed') \in Nat /\ Len(feed) < Len(feed')
      /\ \A i \in 1..Len(feed) : feed'[i] = feed[i]
      /\ DOMAIN feed = 1..Len(feed) /\ DOMAIN feed' = 1..Len(feed')
  BY CreationPlaces
<1>3. \A i \in 1..Len(feed') : i \notin 1..Len(feed) =>
         /\ feed'[i].type \in {"granted", "created"} /\ feed'[i].role.of = x
         /\ feed'[i].type = "created" <=> i = Len(feed')
         /\ i # Len(feed') => feed'[i].role \in R
         /\ i = Len(feed') => feed'[i].role = c
  BY <1>1, CreationPlaces DEF Old
<1>4. \A i \in 1..Len(feed) : feed[i] \in Feedable
  BY <1>2, FeedDomain DEF TypeOK, Feedable
<1>5. \A i \in 1..Len(feed') : feed'[i] \in Feedable
  BY <1>2, FeedDomain DEF CreationStep, Grown
<1>6. \A i \in 1..Len(feed') : i \notin 1..Len(feed) =>
         /\ OfRole(feed'[i], x)
         /\ \A y : y # x => ~OfRole(feed'[i], y)
         /\ \A t \in ProfileTypes : \A y : ~About(feed'[i], t, y)
  BY <1>3 DEF OfRole, About, RoleTypes, ProfileTypes
<1>. QED BY <1>2, <1>3, <1>4, <1>5, <1>6

\* Nothing in the feed was about the new x.
LEMMA NothingOfNew ==
    ASSUME TypeOK, NothingBefore, NEW x \in Entities, ~Exists(x)
    PROVE  \A i \in 1..Len(feed) :
              ~OfRole(feed[i], x) /\ \A t \in ProfileTypes : ~About(feed[i], t, x)
<1>1. DOMAIN feed = 1..Len(feed)
  BY FeedDomain DEF TypeOK, Feedable
<1>2. \A i \in 1..Len(feed) : ~RoleAt(i, x) /\ ~DataAt(i, x)
  BY <1>1 DEF NothingBefore
<1>. QED BY <1>2 DEF RoleAt, DataAt, OfRole, About

\* A value stays what it is over the events of a creation that do not change it.
LEMMA HistoryStays ==
    ASSUME TypeOK, NEW x \in Entities, NEW es, NEW R, NEW c, CreationStep(x, es, R, c),
           NEW V, NEW moves, NEW h, History(h, V, moves), h[Len(feed)] \in V,
           \A i \in 1..Len(feed') : i \notin 1..Len(feed) =>
               <<h[Len(feed)], feed'[i], h[Len(feed)]>> \in moves
    PROVE  \E g : g[0] = h[0] /\ g[Len(feed')] = h[Len(feed)] /\ History(g, V, moves)'
<1>. DEFINE n == Len(feed)
            m == Len(feed')
            t == [i \in n..m |-> h[n]]
<1>1. n \in Nat /\ m \in Nat /\ n <= m /\ \A i \in 1..n : feed'[i] = feed[i]
  <2>1. Len(feed) \in Nat /\ Len(feed') \in Nat /\ Len(feed) < Len(feed')
        /\ \A i \in 1..Len(feed) : feed'[i] = feed[i]
    BY CreationFeed
  <2>. QED BY <2>1
<1>2. /\ \A i \in 1..m : i \notin 1..n => <<h[n], feed'[i], h[n]>> \in moves
      /\ h[n] \in V /\ History(h, V, moves)
  OBVIOUS
<1>. HIDE DEF n, m
<1>3. t \in [n..m -> V] /\ t[n] = h[n] /\ t[m] = h[n]
  BY <1>1, <1>2
<1>4. \A i \in 1..m : i \notin 1..n => t[i - 1] = h[n] /\ t[i] = h[n]
  BY <1>1
<1>. HIDE DEF t
<1>5. \A i \in 1..m : i \notin 1..n => <<t[i - 1], feed'[i], t[i]>> \in moves
  BY <1>2, <1>4
<1>. USE DEF n, m
<1>6. PICK s : s = t
  OBVIOUS
<1>. QED BY <1>1, <1>2, <1>3, <1>5, <1>6, HistoryExtends, SMTT(60)

\* A creation keeps the histories of the roles of everything else,
LEMMA CreationRolesOld ==
    ASSUME IInv, NEW x \in Entities, NEW es, NEW R, NEW c, CreationStep(x, es, R, c),
           NEW y \in Entities, y # x, Exists(y)', y \notin damaged'
    PROVE  RolesBehindOf(y)'
<1>. DEFINE n == Len(feed)
            m == Len(feed')
<1>1. /\ created' = created /\ rows' = rows /\ pending' = pending /\ damaged' = damaged
      /\ Exists(y) /\ holders' = holders \cup R /\ \A r \in R : r.of = x
  BY RoleFacts DEF CreationStep, TablesKept
<1>2. PICK h : /\ History(h, SUBSET RolesOf(y), RoleMoves(y)) /\ h[n] = Held(y)
               /\ Has(y) \subseteq h[0] /\ (y \in Pools => h[0] \subseteq Has(y))
  BY <1>1 DEF IInv, RolesBehind, RolesBehindOf
<1>3. TypeOK /\ n \in Nat
  BY CreationFeed DEF IInv
<1>4. h[n] \in SUBSET RolesOf(y)
  BY <1>2, <1>3 DEF History
<1>5. \A i \in 1..m : i \notin 1..n => <<h[n], feed'[i], h[n]>> \in RoleMoves(y)
  <2>. TAKE i \in 1..m
  <2>. HAVE i \notin 1..n
  <2>1. feed'[i] \in Feedable /\ ~OfRole(feed'[i], y)
    BY <1>3, CreationFeed
  <2>. QED BY <1>4, <2>1, MovesDef DEF RoleMove
<1>6. PICK g : g[0] = h[0] /\ g[m] = h[n] /\ History(g, SUBSET RolesOf(y), RoleMoves(y))'
  <2>. DEFINE V == SUBSET RolesOf(y)
  <2>. HIDE DEF V
  <2>1. \E g : g[0] = h[0] /\ g[m] = h[n] /\ History(g, V, RoleMoves(y))'
    BY <1>2, <1>3, <1>4, <1>5, HistoryStays DEF V
  <2>. QED BY <2>1 DEF V
<1>7. Held(y)' = Held(y)
  BY <1>1 DEF Held
<1>8. Has(y)' = Has(y)
  BY <1>1 DEF Has
<1>. QED BY <1>2, <1>6, <1>7, <1>8 DEF RolesBehindOf

\* The history of the new roles: each comes with its event.
LEMMA CreationRolesNew ==
    ASSUME IInv, NEW x \in Entities, NEW es, NEW R, NEW c, CreationStep(x, es, R, c)
    PROVE  RolesBehindOf(x)'
<1>. DEFINE n == Len(feed)
            m == Len(feed')
            V == SUBSET RolesOf(x)
<1>1. /\ created' = created /\ rows' = rows /\ pending' = pending
      /\ ~Exists(x) /\ holders' = holders \cup R /\ R \subseteq RolesOf(x) /\ \A r \in R : r.of = x
  BY RoleFacts DEF CreationStep, TablesKept
<1>2. /\ n \in Nat /\ m \in Nat /\ n < m
      /\ \A i \in 1..n : feed'[i] = feed[i] /\ feed[i] \in Feedable
      /\ \A i \in 1..m : i \notin 1..n =>
            /\ feed'[i] \in Feedable
            /\ OfRole(feed'[i], x) /\ feed'[i].type \in {"granted", "created"}
            /\ feed'[i].type = "created" <=> i = m
            /\ i # m => feed'[i].role \in R
  BY CreationFeed DEF IInv
<1>3. /\ \A r \in R : \E i \in 1..m : i \notin 1..n /\ i # m /\ feed'[i].role = r
      /\ \A i, j \in 1..m : i \notin 1..n /\ j \notin 1..n /\ i # m /\ j # m
            /\ feed'[i].role = feed'[j].role => i = j
  BY CreationPlaces DEF IInv, Old
<1>. DEFINE t == [i \in n..m |-> {r \in R : \E j \in 1..m : j \notin 1..n /\ j # m /\ j <= i /\ feed'[j].role = r}]
<1>4. PICK h : h[0] = {} /\ h[n] = {} /\ History(h, V, RoleMoves(x))
  <2>1. {} \in V
    OBVIOUS
  <2>2. \A i \in 1..n : <<{}, feed[i], {}>> \in RoleMoves(x)
    <3>. TAKE i \in 1..n
    <3>1. feed[i] \in Feedable /\ ~OfRole(feed[i], x)
      BY <1>1, <1>2, NothingOfNew DEF IInv
    <3>2. RoleMove(x, {}, feed[i], {})
      BY <3>1, Zenon DEF RoleMove
    <3>. QED BY <2>1, <3>1, <3>2, MovesDef
  <2>. HIDE DEF V, t
  <2>3. \E h : h[0] = {} /\ h[n] = {} /\ History(h, V, RoleMoves(x))
    BY <1>2, <2>1, <2>2, HistoryOfNothing
  <2>. QED BY <2>3
<1>. HIDE DEF n, m
<1>5. t \in [n..m -> V]
  BY <1>1
<1>6. t[n] = {}
  BY <1>2
<1>7. t[m] = R
  <2>1. m \in n..m /\ \A j \in 1..m : j <= m
    BY <1>2
  <2>. QED BY <1>3, <2>1
<1>8. ASSUME NEW i \in 1..m, i \notin 1..n
      PROVE  <<t[i - 1], feed'[i], t[i]>> \in RoleMoves(x)
  <2>1. i \in n..m /\ i - 1 \in n..m /\ \A j \in 1..m : j <= i <=> j <= i - 1 \/ j = i
    BY <1>2, <1>8
  <2>2. /\ t[i] = {r \in R : \E j \in 1..m : j \notin 1..n /\ j # m /\ j <= i /\ feed'[j].role = r}
        /\ t[i - 1] = {r \in R : \E j \in 1..m : j \notin 1..n /\ j # m /\ j <= i - 1 /\ feed'[j].role = r}
        /\ t[i] \in V /\ t[i - 1] \in V
    BY <1>5, <2>1
  <2>. HIDE DEF t
  <2>3. CASE i = m
    <3>1. t[i] = t[i - 1]
      BY <2>1, <2>2, <2>3
    <3>2. feed'[i].type = "created"
      BY <1>2, <1>8, <2>3
    <3>3. RoleMove(x, t[i - 1], feed'[i], t[i])
      BY <3>1, <3>2 DEF RoleMove
    <3>. QED BY <1>2, <1>8, <2>2, <3>3, MovesDef
  <2>4. CASE i # m
    <3>1. /\ feed'[i].type = "granted" /\ feed'[i].role \in R /\ feed'[i] \in Feedable
          /\ OfRole(feed'[i], x)
      BY <1>2, <1>8, <2>4
    <3>2. t[i] = t[i - 1] \cup {feed'[i].role}
      BY <1>8, <2>1, <2>2, <2>4, <3>1
    <3>3. feed'[i].role \notin t[i - 1]
      <4>. SUFFICES ASSUME NEW j \in 1..m, j \notin 1..n, j # m, j <= i - 1, feed'[j].role = feed'[i].role
                    PROVE  FALSE
        BY <2>2
      <4>1. j = i
        BY <1>3, <1>8, <2>4
      <4>. QED BY <4>1
    <3>4. RoleMove(x, t[i - 1], feed'[i], t[i])
      BY <3>1, <3>2, <3>3 DEF RoleMove
    <3>. QED BY <2>2, <3>1, <3>4, MovesDef
  <2>. QED BY <2>3, <2>4
<1>. HIDE DEF t
<1>9. PICK g : g[0] = {} /\ g[m] = R /\ History(g, V, RoleMoves(x))'
  <2>1. PICK s : s = t
    OBVIOUS
  <2>2. n <= m /\ s[n] = h[n]
    BY <1>2, <1>4, <1>6, <2>1
  <2>3. \A i \in 1..m : i \notin 1..n => <<s[i - 1], feed'[i], s[i]>> \in RoleMoves(x)
    BY <1>8, <2>1
  <2>. HIDE DEF V
  <2>4. \E g : g[0] = h[0] /\ g[m] = s[m] /\ History(g, V, RoleMoves(x))'
    BY <1>2, <1>4, <1>5, <2>1, <2>2, <2>3, HistoryExtends, ZenonT(60) DEF n, m
  <2>. QED BY <1>4, <1>7, <2>1, <2>4
<1>10. Held(x)' = R
  <2>1. Held(x) = {}
    BY <1>1 DEF IInv, NothingBefore
  <2>. QED BY <1>1, <2>1 DEF Held
<1>11. Has(x)' = {}
  <2>1. PendingRows(x) = {} /\ x \notin created
    BY <1>1 DEF IInv, NothingBefore
  <2>2. Stored(x) = {}
    BY <2>1 DEF IInv, RowsOfCreated
  <2>3. \A r \in RolesOf(x) : r.of = x
    BY RoleFacts
  <2>. QED BY <1>1, <2>1, <2>2, <2>3 DEF Has, PendingRows, Stored
<1>. QED BY <1>9, <1>10, <1>11 DEF RolesBehindOf, m
\* The history of one value: none of the new events changes it.
LEMMA CreationOwner ==
    ASSUME IInv, NEW x \in Entities, NEW es, NEW R, NEW c, CreationStep(x, es, R, c),
           NEW p \in Profiles, Exists(p)', p \notin damaged'
    PROVE  OwnerBehindOf(p)'
<1>. DEFINE n == Len(feed)
            m == Len(feed')
<1>1. /\ created' = created /\ rows' = rows /\ damaged' = damaged /\ ~Exists(x) /\ p \in Entities
      /\ p # x => Exists(p) /\ owner'[p] = owner[p]
      /\ p = x => owner'[p] \in Accounts /\ c.account = owner'[p] /\ p \notin created
  BY RoleFacts DEF CreationStep, TablesKept, IInv, NothingBefore, Role
<1>2. \E h : /\ History(h, Accounts, OwnerMoves(p)) /\ h[n] = owner'[p]
             /\ p \in created => {r \in Stored(p) : r.kind = "owner"} = {Role("owner", p, h[0])}
  <2>1. CASE p # x
    BY <1>1, <2>1 DEF IInv, OwnerBehind, OwnerBehindOf
  <2>2. CASE p = x
    <3>. DEFINE v == owner'[p]
    <3>1. v \in Accounts /\ p \notin created
      BY <1>1, <2>2
    <3>2. n \in Nat /\ \A i \in 1..n : feed[i] \in Feedable /\ ~OfRole(feed[i], p)
      BY <1>1, <2>2, CreationFeed, NothingOfNew DEF IInv
    <3>. PICK w \in Accounts : w = v
      BY <3>1
    <3>3. \A i \in 1..n : <<w, feed[i], w>> \in OwnerMoves(p)
      BY <3>2, MovesDef DEF OwnerMove
    <3>4. \E h : h[0] = w /\ h[n] = w /\ History(h, Accounts, OwnerMoves(p))
      BY <3>2, <3>3, HistoryOfNothing
    <3>. QED BY <3>1, <3>4
  <2>. QED BY <2>1, <2>2
<1>3. PICK h : /\ History(h, Accounts, OwnerMoves(p)) /\ h[n] = owner'[p]
               /\ p \in created => {r \in Stored(p) : r.kind = "owner"} = {Role("owner", p, h[0])}
  BY <1>2
<1>4. TypeOK /\ n \in Nat
  BY CreationFeed DEF IInv
<1>5. h[n] \in Accounts
  BY <1>3, <1>4 DEF History
<1>6. \A i \in 1..m : i \notin 1..n => <<h[n], feed'[i], h[n]>> \in OwnerMoves(p)
  <2>. TAKE i \in 1..m
  <2>. HAVE i \notin 1..n
  <2>1. /\ feed'[i] \in Feedable /\ feed'[i].type \in {"granted", "created"}
        /\ p # x => ~OfRole(feed'[i], p)
        /\ feed'[i].type = "created" => feed'[i].role = c
    BY <1>4, CreationFeed
  <2>2. OwnerMove(p, h[n], feed'[i], h[n])
    BY <1>1, <1>3, <2>1 DEF OwnerMove
  <2>. QED BY <1>5, <2>1, <2>2, MovesDef
<1>7. PICK g : g[0] = h[0] /\ g[m] = h[n] /\ History(g, Accounts, OwnerMoves(p))'
  BY <1>3, <1>4, <1>5, <1>6, HistoryStays
<1>8. Stored(p)' = Stored(p)
  BY <1>1 DEF Stored
<1>. QED BY <1>1, <1>3, <1>7, <1>8 DEF OwnerBehindOf

\* So it is with documents,
LEMMA CreationDocument ==
    ASSUME IInv, NEW x \in Entities, NEW es, NEW R, NEW c, CreationStep(x, es, R, c),
           NEW p \in Profiles, Exists(p)', p \notin damaged'
    PROVE  DocumentBehindOf(p)'
<1>. DEFINE n == Len(feed)
            m == Len(feed')
<1>1. /\ created' = created /\ projects' = projects /\ stale' = stale /\ damaged' = damaged
      /\ ~Exists(x) /\ p \in Entities
      /\ p # x => Exists(p) /\ profile'[p] = profile[p]
      /\ p = x => profile'[p].doc \in Documents /\ profile'[p].first = profile'[p].doc /\ p \notin created
  BY RoleFacts DEF CreationStep, TablesKept, IInv, NothingBefore
<1>2. \E h : /\ History(h, Documents, DocumentMoves(p)) /\ h[n] = profile'[p].doc
             /\ <<p, "doc">> \notin stale =>
                   IF p \in created
                   THEN /\ projects[p].metadata = IF Usable(h[0]) THEN h[0] ELSE Null
                        /\ projects[p].type = TypeOf(h[0])
                   ELSE profile'[p].first = h[0]
  <2>1. CASE p # x
    BY <1>1, <2>1 DEF IInv, DocumentBehind, DocumentBehindOf
  <2>2. CASE p = x
    <3>. DEFINE v == profile'[p].doc
    <3>1. v \in Documents /\ p \notin created /\ profile'[p].first = v
      BY <1>1, <2>2
    <3>2. n \in Nat /\ \A i \in 1..n : feed[i] \in Feedable
                          /\ ~About(feed[i], "ProfileMetadataUpdated", p)
      BY <1>1, <2>2, CreationFeed, NothingOfNew DEF IInv, ProfileTypes
    <3>. PICK w \in Documents : w = v
      BY <3>1
    <3>3. \A i \in 1..n : <<w, feed[i], w>> \in DocumentMoves(p)
      BY <3>2, MovesDef DEF DocumentMove
    <3>4. \E h : h[0] = w /\ h[n] = w /\ History(h, Documents, DocumentMoves(p))
      BY <3>2, <3>3, HistoryOfNothing
    <3>. QED BY <3>1, <3>4
  <2>. QED BY <2>1, <2>2
<1>3. PICK h : /\ History(h, Documents, DocumentMoves(p)) /\ h[n] = profile'[p].doc
               /\ <<p, "doc">> \notin stale =>
                     IF p \in created
                     THEN /\ projects[p].metadata = IF Usable(h[0]) THEN h[0] ELSE Null
                          /\ projects[p].type = TypeOf(h[0])
                     ELSE profile'[p].first = h[0]
  BY <1>2
<1>4. TypeOK /\ n \in Nat
  BY CreationFeed DEF IInv
<1>5. h[n] \in Documents
  BY <1>3, <1>4 DEF History
<1>6. \A i \in 1..m : i \notin 1..n => <<h[n], feed'[i], h[n]>> \in DocumentMoves(p)
  <2>. TAKE i \in 1..m
  <2>. HAVE i \notin 1..n
  <2>1. feed'[i] \in Feedable /\ ~About(feed'[i], "ProfileMetadataUpdated", p)
    BY <1>4, CreationFeed DEF ProfileTypes
  <2>. QED BY <1>5, <2>1, MovesDef DEF DocumentMove
<1>7. PICK g : g[0] = h[0] /\ g[m] = h[n] /\ History(g, Documents, DocumentMoves(p))'
  BY <1>3, <1>4, <1>5, <1>6, HistoryStays
<1>. QED BY <1>1, <1>3, <1>7 DEF DocumentBehindOf

\* and with versions.
LEMMA CreationVersion ==
    ASSUME IInv, NEW x \in Entities, NEW es, NEW R, NEW c, CreationStep(x, es, R, c),
           NEW p \in Profiles, Exists(p)', p \notin damaged'
    PROVE  VersionBehindOf(p)'
<1>. DEFINE n == Len(feed)
            m == Len(feed')
<1>1. /\ created' = created /\ projects' = projects /\ stale' = stale /\ damaged' = damaged
      /\ ~Exists(x) /\ p \in Entities
      /\ p # x => Exists(p) /\ profile'[p] = profile[p]
      /\ p = x => profile'[p].version = 0 /\ p \notin created
  BY RoleFacts DEF CreationStep, TablesKept, IInv, NothingBefore
<1>2. \E h : /\ History(h, Nat, VersionMoves(p)) /\ h[n] = profile'[p].version
             /\ <<p, "anchor">> \notin stale =>
                   IF p \in created THEN projects[p].anchor = Anchor(p, h[0]) ELSE h[0] = 0
  <2>1. CASE p # x
    BY <1>1, <2>1 DEF IInv, VersionBehind, VersionBehindOf
  <2>2. CASE p = x
    <3>2. n \in Nat /\ \A i \in 1..n : /\ feed[i] \in Feedable
                                       /\ ~About(feed[i], "ProfileNameUpdated", p)
                                       /\ ~About(feed[i], "Registered", p)
      BY <1>1, <2>2, CreationFeed, NothingOfNew DEF IInv, ProfileTypes
    <3>3. \A i \in 1..n : <<0, feed[i], 0>> \in VersionMoves(p)
      BY <3>2, MovesDef DEF VersionMove
    <3>4. \E h : h[0] = 0 /\ h[n] = 0 /\ History(h, Nat, VersionMoves(p))
      BY <3>2, <3>3, HistoryOfNothing
    <3>. QED BY <1>1, <2>2, <3>4
  <2>. QED BY <2>1, <2>2
<1>3. PICK h : /\ History(h, Nat, VersionMoves(p)) /\ h[n] = profile'[p].version
               /\ <<p, "anchor">> \notin stale =>
                     IF p \in created THEN projects[p].anchor = Anchor(p, h[0]) ELSE h[0] = 0
  BY <1>2
<1>4. TypeOK /\ n \in Nat
  BY CreationFeed DEF IInv
<1>5. h[n] \in Nat
  BY <1>3, <1>4 DEF History
<1>6. \A i \in 1..m : i \notin 1..n => <<h[n], feed'[i], h[n]>> \in VersionMoves(p)
  <2>. TAKE i \in 1..m
  <2>. HAVE i \notin 1..n
  <2>1. /\ feed'[i] \in Feedable
        /\ ~About(feed'[i], "ProfileNameUpdated", p) /\ ~About(feed'[i], "Registered", p)
    BY <1>4, CreationFeed DEF ProfileTypes
  <2>. QED BY <1>5, <2>1, MovesDef DEF VersionMove
<1>7. PICK g : g[0] = h[0] /\ g[m] = h[n] /\ History(g, Nat, VersionMoves(p))'
  BY <1>3, <1>4, <1>5, <1>6, HistoryStays
<1>. QED BY <1>1, <1>3, <1>7 DEF VersionBehindOf

\* Creations have nothing to do with attestations.
LEMMA CreationAttestations ==
    ASSUME IInv, NEW x \in Entities, NEW es, NEW R, NEW c, CreationStep(x, es, R, c)
    PROVE  AttestationsBehind'
<1>1. /\ attested' = attested /\ attestations' = attestations /\ txns' = txns /\ missing' = missing
  BY DEF CreationStep, TablesKept
<1>2. DOMAIN feed \subseteq DOMAIN feed'
      /\ \A i \in DOMAIN feed : feed'[i] = feed[i] /\ \A u : AttestedAt(i, u)' <=> AttestedAt(i, u)
  BY CreationPlaces, CreationAt DEF IInv
<1>3. \A i \in DOMAIN feed' : i \notin DOMAIN feed => \A u : ~AttestedAt(i, u)'
  BY CreationPlaces, CreationAt DEF IInv, Old
<1>4. ASSUME NEW u \in Uids
      PROVE  /\ {t \in txns' : t[1] = u} =
                    IF u \in attestations' THEN {<<u, t>> : t \in ToSet(attested'[u])} ELSE {}
             /\ u \in attestations' => attested'[u] # Null /\ NoDuplicates(attested'[u])
             /\ u \in missing' => attested'[u] # Null
             /\ \A i \in DOMAIN feed' : AttestedAt(i, u)' =>
                   /\ feed'[i].data = attested'[u] /\ attested'[u] # Null
                   /\ u \notin attestations' /\ u \notin missing'
                   /\ \A j \in DOMAIN feed' : AttestedAt(j, u)' => j = i
             /\ attested'[u] # Null /\ NoDuplicates(attested'[u]) =>
                   u \in attestations' \/ u \in missing' \/ \E i \in DOMAIN feed' : AttestedAt(i, u)'
  BY <1>1, <1>2, <1>3 DEF IInv, AttestationsBehind
<1>. QED BY <1>4 DEF AttestationsBehind

\* A creation preserves the invariant.
LEMMA CreationPreserves ==
    ASSUME IInv, NEW x \in Entities, NEW es, NEW R, NEW c, CreationStep(x, es, R, c), TypeOK'
    PROVE  IInv'
<1>1. NothingBefore' /\ CreatedOnce' /\ RowsOfCreated' /\ ParkedOnce' /\ Arrives'
  BY CreationOrder DEF TypeOK
<1>2. RolesBehind'
  <2>1. \A y \in Entities : y # x /\ Exists(y)' /\ y \notin damaged' => RolesBehindOf(y)'
    BY CreationRolesOld
  <2>2. RolesBehindOf(x)'
    BY CreationRolesNew
  <2>. QED BY <2>1, <2>2 DEF RolesBehind
<1>3. OwnerBehind'
  BY CreationOwner DEF OwnerBehind
<1>4. DocumentBehind'
  BY CreationDocument DEF DocumentBehind
<1>5. VersionBehind'
  BY CreationVersion DEF VersionBehind
<1>6. RowsOfProjects'
  BY DEF IInv, RowsOfProjects, CreationStep, TablesKept
<1>7. AttestationsBehind'
  BY CreationAttestations
<1>. QED BY <1>1, <1>2, <1>3, <1>4, <1>5, <1>6, <1>7 DEF IInv
-----------------------------------------------------------------------------
(* A call with one event. *)

\* It is about what exists, and moves what it is about.
LEMMA OneFacts ==
    ASSUME TypeOK, NothingBefore, NEW e, OneStep(e)
    PROVE  /\ e \in Feedable /\ e.type # "created"
           /\ \A y \in Entities : OfRole(e, y) => Exists(y)
           /\ \A t \in ProfileTypes, y \in Entities : About(e, t, y) => Exists(y)
           /\ \A y \in Entities : RoleMove(y, Held(y), e, Held(y)')
           /\ \A p \in Profiles :
                 /\ OwnerMove(p, owner[p], e, owner'[p])
                 /\ DocumentMove(p, profile[p].doc, e, profile'[p].doc)
                 /\ VersionMove(p, profile[p].version, e, profile'[p].version)
                 /\ profile'[p].first = profile[p].first
                 /\ ~Exists(p) => profile'[p] = profile[p]
<1>0. e \in Feedable
  BY DEF OneStep
<1>1. CASE GrantStep(e)
  <2>1. PICK r \in Grantable : /\ e = Event("granted", r) /\ Exists(r.of)
                               /\ r \notin holders /\ holders' = holders \cup {r}
    BY <1>1 DEF GrantStep
  <2>2. e.type = "granted" /\ e.role = r /\ owner' = owner /\ profile' = profile
    BY <1>1, <2>1 DEF GrantStep, Event
  <2>3. \A y \in Entities : RoleMove(y, Held(y), e, Held(y)')
    BY <2>1, <2>2 DEF RoleMove, OfRole, Held, RoleTypes
  <2>. QED BY <1>0, <2>1, <2>2, <2>3 DEF OfRole, About, ProfileTypes, OwnerMove, DocumentMove, VersionMove
<1>2. CASE RevokeStep(e)
  <2>1. PICK r \in holders : e = Event("revoked", r) /\ holders' = holders \ {r}
    BY <1>2 DEF RevokeStep
  <2>2. e.type = "revoked" /\ e.role = r /\ owner' = owner /\ profile' = profile
    BY <1>2, <2>1 DEF RevokeStep, Event
  <2>3. \A y \in Entities : RoleMove(y, Held(y), e, Held(y)')
    BY <2>1, <2>2 DEF RoleMove, OfRole, Held, RoleTypes
  <2>4. Exists(r.of)
    <3>1. r.of \in Entities /\ r \in Held(r.of)
      BY RoleFacts DEF TypeOK, Held
    <3>. QED BY <3>1 DEF NothingBefore
  <2>. QED BY <1>0, <2>2, <2>3, <2>4 DEF OfRole, About, ProfileTypes, OwnerMove, DocumentMove, VersionMove
<1>3. CASE OwnerStep(e)
  <2>1. PICK p \in Profiles, a \in Accounts :
           /\ e = Event("ownerUpdated", Role("owner", p, a)) /\ Exists(p)
           /\ owner' = [owner EXCEPT ![p] = a]
    BY <1>3 DEF OwnerStep
  <2>2. /\ e.type = "ownerUpdated" /\ e.role.of = p /\ e.role.account = a
        /\ holders' = holders /\ profile' = profile
    BY <1>3, <2>1 DEF OwnerStep, Event, Role
  <2>3. \A y \in Entities : RoleMove(y, Held(y), e, Held(y)')
    BY <2>2 DEF RoleMove, OfRole, Held, RoleTypes
  <2>4. \A y \in Profiles : OwnerMove(y, owner[y], e, owner'[y])
    BY <2>1, <2>2 DEF OwnerMove, OfRole, RoleTypes, TypeOK
  <2>. QED BY <1>0, <2>1, <2>2, <2>3, <2>4 DEF OfRole, About, ProfileTypes, DocumentMove, VersionMove
<1>. DEFINE D == Documents \cup {Null}
<1>a. profile \in [Profiles -> [version : Nat, doc : D, first : D]]
  BY DEF TypeOK
<1>4. CASE NameStep(e)
  <2>1. PICK p \in Profiles :
           /\ e = DataEvent("ProfileNameUpdated", p, profile[p].version + 1) /\ Exists(p)
           /\ profile' = [profile EXCEPT ![p].version = profile[p].version + 1]
    BY <1>4 DEF NameStep
  <2>2. /\ e.type = "ProfileNameUpdated" /\ e.about = p /\ e.data = profile[p].version + 1
        /\ holders' = holders /\ owner' = owner
    BY <1>4, <2>1 DEF NameStep, DataEvent
  <2>3. /\ profile'[p].version = profile[p].version + 1
        /\ \A y \in Profiles : /\ profile'[y].doc = profile[y].doc /\ profile'[y].first = profile[y].first
                               /\ y # p => profile'[y] = profile[y]
    BY <1>a, <2>1
  <2>4. \A y \in Entities : ~OfRole(e, y)
    BY <2>2 DEF OfRole, RoleTypes
  <2>5. \A y \in Entities : RoleMove(y, Held(y), e, Held(y)')
    BY <2>2, <2>4 DEF RoleMove, Held
  <2>. HIDE DEF D
  <2>6. \A y \in Profiles : VersionMove(y, profile[y].version, e, profile'[y].version)
    BY <2>2, <2>3 DEF VersionMove, About
  <2>7. \A y \in Profiles : DocumentMove(y, profile[y].doc, e, profile'[y].doc)
    BY <2>2, <2>3 DEF DocumentMove, About
  <2>8. \A y \in Profiles : OwnerMove(y, owner[y], e, owner'[y])
    BY <2>2, <2>4, RoleFacts DEF OwnerMove
  <2>. QED BY <1>0, <2>1, <2>2, <2>3, <2>4, <2>5, <2>6, <2>7, <2>8 DEF About
<1>5. CASE DocumentStep(e)
  <2>1. PICK p \in Profiles, d \in Documents :
           /\ e = DataEvent("ProfileMetadataUpdated", p, d) /\ Exists(p)
           /\ profile' = [profile EXCEPT ![p].doc = d]
    BY <1>5 DEF DocumentStep
  <2>2. /\ e.type = "ProfileMetadataUpdated" /\ e.about = p /\ e.data = d
        /\ holders' = holders /\ owner' = owner
    BY <1>5, <2>1 DEF DocumentStep, DataEvent
  <2>3. /\ profile'[p].doc = d
        /\ \A y \in Profiles : /\ profile'[y].version = profile[y].version
                               /\ profile'[y].first = profile[y].first
                               /\ y # p => profile'[y] = profile[y]
    BY <1>a, <2>1
  <2>4. \A y \in Entities : ~OfRole(e, y)
    BY <2>2 DEF OfRole, RoleTypes
  <2>5. \A y \in Entities : RoleMove(y, Held(y), e, Held(y)')
    BY <2>2, <2>4 DEF RoleMove, Held
  <2>. HIDE DEF D
  <2>6. \A y \in Profiles : VersionMove(y, profile[y].version, e, profile'[y].version)
    BY <2>2, <2>3 DEF VersionMove, About
  <2>7. \A y \in Profiles : DocumentMove(y, profile[y].doc, e, profile'[y].doc)
    BY <2>2, <2>3 DEF DocumentMove, About
  <2>8. \A y \in Profiles : OwnerMove(y, owner[y], e, owner'[y])
    BY <2>2, <2>4, RoleFacts DEF OwnerMove
  <2>. QED BY <1>0, <2>1, <2>2, <2>3, <2>4, <2>5, <2>6, <2>7, <2>8 DEF About
<1>6. CASE ApplyStep(e)
  <2>1. PICK p \in Profiles : e = DataEvent("Registered", p, Anchor(p, profile[p].version)) /\ Exists(p)
    BY <1>6 DEF ApplyStep
  <2>2. /\ e.type = "Registered" /\ e.about = p /\ e.data = Anchor(p, profile[p].version)
        /\ holders' = holders /\ owner' = owner /\ profile' = profile
    BY <1>6, <2>1 DEF ApplyStep, DataEvent
  <2>3. \A y \in Entities : ~OfRole(e, y)
    BY <2>2 DEF OfRole, RoleTypes
  <2>4. \A y \in Entities : RoleMove(y, Held(y), e, Held(y)')
    BY <2>2, <2>3 DEF RoleMove, Held
  <2>5. \A y \in Profiles : OwnerMove(y, owner[y], e, owner'[y])
    BY <2>2, <2>3, RoleFacts DEF OwnerMove
  <2>6. \A y \in Profiles : VersionMove(y, profile[y].version, e, profile'[y].version)
    BY <2>2 DEF VersionMove, About
  <2>7. \A y \in Profiles : DocumentMove(y, profile[y].doc, e, profile'[y].doc)
    BY <2>2 DEF DocumentMove, About
  <2>. QED BY <1>0, <2>1, <2>2, <2>3, <2>4, <2>5, <2>6, <2>7 DEF About
<1>7. CASE AttestStep(e)
  <2>1. /\ e.type = "OnAttested" /\ holders' = holders /\ owner' = owner /\ profile' = profile
    BY <1>7 DEF AttestStep, DataEvent
  <2>2. \A y \in Entities : ~OfRole(e, y)
    BY <2>1 DEF OfRole, RoleTypes
  <2>3. \A y \in Entities : RoleMove(y, Held(y), e, Held(y)')
    BY <2>1, <2>2 DEF RoleMove, Held
  <2>4. \A y \in Profiles : OwnerMove(y, owner[y], e, owner'[y])
    BY <2>1, <2>2, RoleFacts DEF OwnerMove
  <2>. QED BY <1>0, <2>1, <2>2, <2>3, <2>4 DEF About, ProfileTypes, VersionMove, DocumentMove
<1>. QED BY <1>1, <1>2, <1>3, <1>4, <1>5, <1>6, <1>7, Zenon DEF OneStep

\* A call with one event keeps the shape of the feed and of the pending rows.
LEMMA OneOrder ==
    ASSUME IInv, NEW e, OneStep(e)
    PROVE  NothingBefore' /\ CreatedOnce' /\ RowsOfCreated' /\ ParkedOnce' /\ Arrives'
<1>. DEFINE n == Len(feed)
            m == Len(feed')
<1>1. /\ DOMAIN feed = 1..n /\ DOMAIN feed' = 1..m /\ n \in Nat /\ m = n + 1 /\ feed'[m] = e
      /\ \A i \in 1..n : i \in 1..m /\ i < m
      /\ \A i \in 1..m : i # m => i \in 1..n
  BY OnePlaces DEF IInv
<1>2. \A i \in 1..n : \A y :
            /\ CreatedAt(i, y)' <=> CreatedAt(i, y)
            /\ LaterAt(i, y)' <=> LaterAt(i, y)
            /\ RoleAt(i, y)' <=> RoleAt(i, y)
            /\ DataAt(i, y)' <=> DataAt(i, y)
            /\ GrantedAt(i, y)' <=> GrantedAt(i, y)
  BY OneAt DEF IInv
<1>3. /\ created' = created /\ rows' = rows /\ pending' = pending /\ damaged' = damaged
      /\ \A y \in Entities : Exists(y)' <=> Exists(y)
      /\ pools' = pools
  BY DEF OneStep, TablesKept
<1>4. /\ e.type # "created"
      /\ \A y \in Entities : OfRole(e, y) => Exists(y)
      /\ \A t \in ProfileTypes, y \in Entities : About(e, t, y) => Exists(y)
      /\ \A y \in Entities : RoleMove(y, Held(y), e, Held(y)')
      /\ \A p \in Profiles : ~Exists(p) => profile'[p] = profile[p]
  BY OneFacts DEF IInv
<1>5. \A i \in 1..m : i = m =>
         /\ \A y : ~CreatedAt(i, y)'
         /\ \A y \in Entities : RoleAt(i, y)' \/ DataAt(i, y)' => Exists(y)
  BY <1>1, <1>4 DEF CreatedAt, RoleAt, DataAt, OfRole, About
<1>. HIDE DEF n, m
<1>6. NothingBefore'
  <2>1. ASSUME NEW y \in Entities, ~Exists(y)'
        PROVE  /\ y \notin created' /\ Held(y)' = {} /\ PendingRows(y)' = {}
               /\ \A i \in DOMAIN feed' : ~RoleAt(i, y)' /\ ~DataAt(i, y)'
               /\ y \in Profiles => profile'[y].version = 0
    <3>1. ~Exists(y)
      BY <1>3, <2>1
    <3>2. /\ y \notin created /\ Held(y) = {} /\ PendingRows(y) = {}
          /\ \A i \in 1..n : ~RoleAt(i, y) /\ ~DataAt(i, y)
          /\ y \in Profiles => profile[y].version = 0
      BY <1>1, <3>1 DEF IInv, NothingBefore
    <3>3. Held(y)' = {}
      BY <1>4, <3>1, <3>2 DEF RoleMove
    <3>4. PendingRows(y)' = {}
      BY <1>3, <3>2 DEF PendingRows
    <3>. QED BY <1>1, <1>2, <1>3, <1>4, <1>5, <3>1, <3>2, <3>3, <3>4
  <2>2. \A q \in pools' : Exists(ProfileOf[q])'
    BY <1>3, RoleFacts DEF IInv, NothingBefore, TypeOK
  <2>. QED BY <2>1, <2>2 DEF NothingBefore
<1>7. CreatedOnce'
  <2>1. ASSUME NEW y \in Entities
        PROVE  /\ y \in created' => \A i \in 1..m : ~CreatedAt(i, y)'
               /\ \A i, j \in 1..m : CreatedAt(i, y)' =>
                     /\ CreatedAt(j, y)' => i = j
                     /\ LaterAt(j, y)' => i < j
                     /\ \A q \in Pools : ProfileOf[q] = y /\ CreatedAt(j, q)' => i < j
    <3>1. \A i \in 1..m : CreatedAt(i, y)' => i \in 1..n /\ CreatedAt(i, y)
      BY <1>1, <1>2, <1>5
    <3>2. y \in created' => \A i \in 1..m : ~CreatedAt(i, y)'
      BY <1>1, <1>3, <3>1 DEF IInv, CreatedOnce
    <3>3. ASSUME NEW i \in 1..m, NEW j \in 1..m, CreatedAt(i, y)'
          PROVE  /\ CreatedAt(j, y)' => i = j
                 /\ LaterAt(j, y)' => i < j
                 /\ \A q \in Pools : ProfileOf[q] = y /\ CreatedAt(j, q)' => i < j
      <4>1. i \in 1..n /\ CreatedAt(i, y) /\ i < m
        BY <1>1, <3>1, <3>3
      <4>2. CASE j \in 1..n
        BY <1>1, <1>2, <4>1, <4>2 DEF IInv, CreatedOnce
      <4>3. CASE j = m
        BY <1>5, <4>1, <4>3
      <4>. QED BY <1>1, <4>2, <4>3
    <3>. QED BY <3>2, <3>3
  <2>. QED BY <1>1, <2>1 DEF CreatedOnce
<1>8. RowsOfCreated'
  BY <1>3 DEF IInv, RowsOfCreated, PendingRows, Stored
<1>9. ParkedOnce'
  <2>1. ASSUME NEW y \in Entities, NEW i \in 1..m, CreatedAt(i, y)', NEW r \in RolesOf(y)
        PROVE  /\ pending'[r] <= 1
               /\ \A j \in 1..m : j < i /\ GrantedAt(j, r)' =>
                     /\ pending'[r] = 0
                     /\ \A k \in 1..m : k < i /\ GrantedAt(k, r)' => k = j
    <3>1. i \in 1..n /\ CreatedAt(i, y)
      BY <1>1, <1>2, <1>5, <2>1
    <3>2. \A j \in 1..m : j < i => j \in 1..n
      BY <1>1, <3>1
    <3>3. /\ pending[r] <= 1
          /\ \A j \in 1..n : j < i /\ GrantedAt(j, r) =>
                /\ pending[r] = 0
                /\ \A k \in 1..n : k < i /\ GrantedAt(k, r) => k = j
      BY <1>1, <3>1 DEF IInv, ParkedOnce
    <3>. QED BY <1>2, <1>3, <3>2, <3>3
  <2>. QED BY <1>1, <2>1 DEF ParkedOnce
<1>10. Arrives'
  <2>1. ASSUME NEW y \in Entities, Exists(y)', Sound(y)'
        PROVE  y \in created' \/ \E i \in DOMAIN feed' : CreatedAt(i, y)'
    <3>1. Exists(y) /\ Sound(y)
      BY <1>3, <2>1 DEF Sound
    <3>2. y \in created \/ \E i \in 1..n : CreatedAt(i, y)
      BY <1>1, <3>1 DEF IInv, Arrives
    <3>. QED BY <1>1, <1>2, <1>3, <3>2
  <2>. QED BY <2>1 DEF Arrives
<1>. QED BY <1>6, <1>7, <1>8, <1>9, <1>10
\* A history goes on with one move.
LEMMA HistoryMoves ==
    ASSUME TypeOK, NEW e, OneStep(e), NEW V, NEW moves, NEW h, History(h, V, moves),
           NEW v \in V, <<h[Len(feed)], e, v>> \in moves
    PROVE  \E g : g[0] = h[0] /\ g[Len(feed')] = v /\ History(g, V, moves)'
<1>. DEFINE n == Len(feed)
            m == Len(feed')
            t == [i \in n..m |-> IF i = n THEN h[n] ELSE v]
<1>1. n \in Nat /\ m \in Nat /\ n <= m /\ m = n + 1 /\ feed'[m] = e /\ \A i \in 1..n : feed'[i] = feed[i]
  <2>1. Len(feed) \in Nat /\ Len(feed') = Len(feed) + 1 /\ feed'[Len(feed')] = e
        /\ \A i \in 1..Len(feed) : feed'[i] = feed[i]
    BY OnePlaces
  <2>. QED BY <2>1
<1>2. h \in [0..n -> V] /\ <<h[n], e, v>> \in moves
  BY DEF History
<1>. HIDE DEF n, m
<1>3. h[n] \in V
  BY <1>1, <1>2
<1>4. t \in [n..m -> V] /\ t[n] = h[n] /\ t[m] = v
  BY <1>1, <1>3
<1>. HIDE DEF t
<1>5. \A i \in 1..m : i \notin 1..n => i = m /\ i - 1 = n
  BY <1>1
<1>6. \A i \in 1..m : i \notin 1..n => <<t[i - 1], feed'[i], t[i]>> \in moves
  BY <1>1, <1>2, <1>4, <1>5
<1>. USE DEF n, m
<1>7. PICK s : s = t
  OBVIOUS
<1>. QED BY <1>1, <1>4, <1>6, <1>7, HistoryExtends

\* It moves the history of what it is about, and the others stay.
LEMMA OneBehind ==
    ASSUME IInv, NEW e, OneStep(e), TypeOK'
    PROVE  RolesBehind' /\ OwnerBehind' /\ DocumentBehind' /\ VersionBehind'
<1>. DEFINE n == Len(feed)
            m == Len(feed')
<1>1. /\ created' = created /\ rows' = rows /\ pending' = pending /\ damaged' = damaged
      /\ projects' = projects /\ stale' = stale
      /\ \A y \in Entities : Exists(y)' <=> Exists(y)
  BY DEF OneStep, TablesKept
<1>2. /\ e \in Feedable
      /\ \A y \in Entities : RoleMove(y, Held(y), e, Held(y)')
      /\ \A p \in Profiles :
            /\ OwnerMove(p, owner[p], e, owner'[p])
            /\ DocumentMove(p, profile[p].doc, e, profile'[p].doc)
            /\ VersionMove(p, profile[p].version, e, profile'[p].version)
            /\ profile'[p].first = profile[p].first
  BY OneFacts DEF IInv
<1>3. TypeOK /\ n \in Nat
  BY OnePlaces DEF IInv
<1>4. ASSUME NEW y \in Entities, Exists(y)', y \notin damaged'
      PROVE  RolesBehindOf(y)'
  <2>. DEFINE V == SUBSET RolesOf(y)
  <2>1. PICK h : /\ History(h, V, RoleMoves(y)) /\ h[n] = Held(y)
                 /\ Has(y) \subseteq h[0] /\ (y \in Pools => h[0] \subseteq Has(y))
    BY <1>1, <1>4 DEF IInv, RolesBehind, RolesBehindOf
  <2>2. Held(y) \in V /\ Held(y)' \in V
    BY <1>3, RoleFacts DEF TypeOK, Held
  <2>3. PICK v \in V : v = Held(y)'
    BY <2>2
  <2>4. <<h[n], e, v>> \in RoleMoves(y)
    BY <1>2, <2>1, <2>2, <2>3, MovesDef
  <2>. HIDE DEF V
  <2>5. PICK g : g[0] = h[0] /\ g[m] = v /\ History(g, V, RoleMoves(y))'
    BY <1>3, <2>1, <2>4, HistoryMoves
  <2>6. Has(y)' = Has(y)
    BY <1>1 DEF Has
  <2>. QED BY <2>1, <2>3, <2>5, <2>6 DEF RolesBehindOf, V
<1>5. ASSUME NEW p \in Profiles, Exists(p)', p \notin damaged'
      PROVE  OwnerBehindOf(p)' /\ DocumentBehindOf(p)' /\ VersionBehindOf(p)'
  <2>1. Exists(p) /\ p \notin damaged
    BY <1>1, <1>5, RoleFacts
  <2>2. OwnerBehindOf(p)'
    <3>1. PICK h : /\ History(h, Accounts, OwnerMoves(p)) /\ h[n] = owner[p]
                   /\ p \in created => {r \in Stored(p) : r.kind = "owner"} = {Role("owner", p, h[0])}
      BY <2>1 DEF IInv, OwnerBehind, OwnerBehindOf
    <3>2. owner[p] \in Accounts
      BY <1>3, <3>1 DEF History
    <3>3. owner'[p] \in Accounts
      BY <1>5, RoleFacts, RolesAssumption DEF TypeOK, Exists
    <3>4. PICK v \in Accounts : v = owner'[p]
      BY <3>3
    <3>5. <<h[n], e, v>> \in OwnerMoves(p)
      BY <1>2, <3>1, <3>2, <3>4, MovesDef
    <3>6. PICK g : g[0] = h[0] /\ g[m] = v /\ History(g, Accounts, OwnerMoves(p))'
      BY <1>3, <3>1, <3>5, HistoryMoves
    <3>7. Stored(p)' = Stored(p)
      BY <1>1 DEF Stored
    <3>. QED BY <1>1, <3>1, <3>4, <3>6, <3>7 DEF OwnerBehindOf
  <2>3. DocumentBehindOf(p)'
    <3>1. PICK h : /\ History(h, Documents, DocumentMoves(p)) /\ h[n] = profile[p].doc
                   /\ <<p, "doc">> \notin stale =>
                         IF p \in created
                         THEN /\ projects[p].metadata = IF Usable(h[0]) THEN h[0] ELSE Null
                              /\ projects[p].type = TypeOf(h[0])
                         ELSE profile[p].first = h[0]
      BY <2>1 DEF IInv, DocumentBehind, DocumentBehindOf
    <3>2. profile[p].doc \in Documents
      BY <1>3, <3>1 DEF History
    <3>3. profile'[p].doc \in Documents
      <4>1. About(e, "ProfileMetadataUpdated", p) => e.data \in Documents
        BY <1>2 DEF About, Feedable, RoleEvents, DataEvents, RoleTypes
      <4>. QED BY <1>2, <3>2, <4>1 DEF DocumentMove
    <3>4. PICK v \in Documents : v = profile'[p].doc
      BY <3>3
    <3>5. <<h[n], e, v>> \in DocumentMoves(p)
      BY <1>2, <3>1, <3>2, <3>4, MovesDef
    <3>6. PICK g : g[0] = h[0] /\ g[m] = v /\ History(g, Documents, DocumentMoves(p))'
      BY <1>3, <3>1, <3>5, HistoryMoves
    <3>. QED BY <1>1, <1>2, <3>1, <3>4, <3>6 DEF DocumentBehindOf
  <2>4. VersionBehindOf(p)'
    <3>1. PICK h : /\ History(h, Nat, VersionMoves(p)) /\ h[n] = profile[p].version
                   /\ <<p, "anchor">> \notin stale =>
                         IF p \in created THEN projects[p].anchor = Anchor(p, h[0]) ELSE h[0] = 0
      BY <2>1 DEF IInv, VersionBehind, VersionBehindOf
    <3>2. profile[p].version \in Nat /\ profile'[p].version \in Nat
      BY <1>3 DEF TypeOK
    <3>3. PICK v \in Nat : v = profile'[p].version
      BY <3>2
    <3>4. <<h[n], e, v>> \in VersionMoves(p)
      BY <1>2, <3>1, <3>2, <3>3, MovesDef
    <3>5. PICK g : g[0] = h[0] /\ g[m] = v /\ History(g, Nat, VersionMoves(p))'
      BY <1>3, <3>1, <3>4, HistoryMoves
    <3>. QED BY <1>1, <3>1, <3>3, <3>5 DEF VersionBehindOf
  <2>. QED BY <2>2, <2>3, <2>4
<1>. QED BY <1>4, <1>5 DEF RolesBehind, OwnerBehind, DocumentBehind, VersionBehind

\* An attestation is made once, with its own document.
LEMMA OneAttestations ==
    ASSUME IInv, NEW e, OneStep(e)
    PROVE  AttestationsBehind'
<1>. DEFINE n == Len(feed)
            m == Len(feed')
<1>1. /\ attestations' = attestations /\ txns' = txns /\ missing' = missing
  BY DEF OneStep, TablesKept
<1>2. /\ DOMAIN feed = 1..n /\ DOMAIN feed' = 1..m /\ m \in 1..m /\ feed'[m] = e
      /\ \A i \in 1..n : i \in 1..m /\ i # m /\ feed'[i] = feed[i]
      /\ \A i \in 1..m : i # m => i \in 1..n
  BY OnePlaces DEF IInv
<1>3. \A i \in 1..n : \A u : AttestedAt(i, u)' <=> AttestedAt(i, u)
  BY OneAt DEF IInv
<1>. HIDE DEF n, m
<1>. DEFINE Kept(u) ==
             /\ {t \in txns' : t[1] = u} =
                    IF u \in attestations' THEN {<<u, t>> : t \in ToSet(attested'[u])} ELSE {}
             /\ u \in attestations' => attested'[u] # Null /\ NoDuplicates(attested'[u])
             /\ u \in missing' => attested'[u] # Null
             /\ \A i \in DOMAIN feed' : AttestedAt(i, u)' =>
                   /\ feed'[i].data = attested'[u] /\ attested'[u] # Null
                   /\ u \notin attestations' /\ u \notin missing'
                   /\ \A j \in DOMAIN feed' : AttestedAt(j, u)' => j = i
             /\ attested'[u] # Null /\ NoDuplicates(attested'[u]) =>
                   u \in attestations' \/ u \in missing' \/ \E i \in DOMAIN feed' : AttestedAt(i, u)'
<1>4. ASSUME NEW u \in Uids, attested'[u] = attested[u], ~About(e, "OnAttested", u)
      PROVE  Kept(u)
  <2>1. \A i \in 1..m : AttestedAt(i, u)' => i \in 1..n
    BY <1>2, <1>4 DEF AttestedAt, About
  <2>2. /\ {t \in txns : t[1] = u} =
              IF u \in attestations THEN {<<u, t>> : t \in ToSet(attested[u])} ELSE {}
        /\ u \in attestations => attested[u] # Null /\ NoDuplicates(attested[u])
        /\ u \in missing => attested[u] # Null
        /\ \A i \in 1..n : AttestedAt(i, u) =>
              /\ feed[i].data = attested[u] /\ attested[u] # Null
              /\ u \notin attestations /\ u \notin missing
              /\ \A j \in 1..n : AttestedAt(j, u) => j = i
        /\ attested[u] # Null /\ NoDuplicates(attested[u]) =>
              u \in attestations \/ u \in missing \/ \E i \in 1..n : AttestedAt(i, u)
    BY <1>2 DEF IInv, AttestationsBehind
  <2>. QED BY <1>1, <1>2, <1>3, <1>4, <2>1, <2>2
<1>5. ASSUME NEW u \in Uids, NEW l \in Listings, e = DataEvent("OnAttested", u, l), attested[u] = Null,
             attested'[u] = l
      PROVE  Kept(u)
  <2>1. e.type = "OnAttested" /\ e.about = u /\ e.data = l
    BY <1>5 DEF DataEvent
  <2>2. /\ u \notin attestations /\ u \notin missing /\ {t \in txns : t[1] = u} = {}
        /\ \A i \in 1..n : ~AttestedAt(i, u)
    BY <1>2, <1>5 DEF IInv, AttestationsBehind
  <2>3. l # Null
    BY RegistryAssumption
  <2>4. \A i \in 1..m : AttestedAt(i, u)' <=> i = m
    BY <1>2, <1>3, <2>1, <2>2 DEF AttestedAt
  <2>. QED BY <1>1, <1>2, <1>5, <2>1, <2>2, <2>3, <2>4
<1>. HIDE DEF Kept
<1>6. ASSUME NEW u \in Uids PROVE Kept(u)
  <2>1. CASE AttestStep(e)
    <3>1. PICK w \in Uids, l \in Listings :
             /\ e = DataEvent("OnAttested", w, l)
             /\ attested[w] = Null /\ attested' = [attested EXCEPT ![w] = l]
      BY <2>1 DEF AttestStep
    <3>2. attested'[w] = l /\ \A v \in Uids : v # w => attested'[v] = attested[v]
      BY <3>1 DEF IInv, TypeOK
    <3>3. u # w => ~About(e, "OnAttested", u)
      BY <3>1 DEF About, DataEvent
    <3>. QED BY <1>4, <1>5, <3>1, <3>2, <3>3
  <2>2. CASE ~AttestStep(e)
    <3>1. attested' = attested
      BY <2>2 DEF OneStep, GrantStep, RevokeStep, OwnerStep, NameStep, DocumentStep, ApplyStep
    <3>2. e.type # "OnAttested"
      BY <2>2 DEF OneStep, GrantStep, RevokeStep, OwnerStep, NameStep, DocumentStep, ApplyStep,
                  Event, DataEvent
    <3>. QED BY <1>4, <3>1, <3>2 DEF About
  <2>. QED BY <2>1, <2>2
<1>. QED BY <1>6 DEF AttestationsBehind, Kept

\* A call with one event preserves the invariant.
LEMMA OnePreserves ==
    ASSUME IInv, NEW e, OneStep(e)
    PROVE  IInv'
<1>1. TypeOK'
  BY OneTypes DEF IInv
<1>2. RowsOfProjects'
  BY DEF IInv, RowsOfProjects, OneStep, TablesKept
<1>. QED BY <1>1, <1>2, OneOrder, OneBehind, OneAttestations DEF IInv
-----------------------------------------------------------------------------
(* A step of the indexer. *)

\* What the step is not about stays as it is.
LEMMA Untouched ==
    ASSUME TypeOK, NEW e, IndexerStep(e), NEW y \in Entities, ~OfRole(e, y)
    PROVE  /\ y \in created' <=> y \in created
           /\ Stored(y)' = Stored(y) /\ PendingRows(y)' = PendingRows(y) /\ Has(y)' = Has(y)
           /\ \A r \in RolesOf(y) : pending'[r] = pending[r]
<1>1. CASE Handled(e)
  <2>1. e \in RoleEvents /\ Fits(e) /\ HandlerEffect(e) /\ y # e.role.of
    BY <1>1 DEF Handled, OfRole, RoleEvents
  <2>2. /\ y \in created' <=> y \in created
        /\ Stored(y)' = Stored(y) /\ PendingRows(y)' = PendingRows(y)
        /\ \A r \in RolesOf(y) : pending'[r] = pending[r] /\ (r \in rows' <=> r \in rows)
    BY <2>1, OthersUntouched
  <2>. QED BY <2>2 DEF Has
<1>2. CASE created' = created /\ rows' = rows /\ pending' = pending
  BY <1>2 DEF Stored, PendingRows, Has
<1>. QED BY <1>1, <1>2 DEF IndexerStep, Refused, LostRole, DataTaken

\* What is common to every step of the indexer.
LEMMA IndexerFacts ==
    ASSUME TypeOK, NEW e, IndexerStep(e)
    PROVE  /\ created \subseteq created' /\ damaged \subseteq damaged'
           /\ e = feed[1] /\ 1 \in DOMAIN feed /\ e \in Feedable
           /\ \A y : Exists(y)' <=> Exists(y)
           /\ \A y : OfRole(e, y) <=> RoleAt(1, y)
           /\ \A y : y \in created' /\ y \notin created => CreatedAt(1, y)
           /\ \A y : Sound(y)' => Sound(y)
<1>1. e = feed[1] /\ 1 \in DOMAIN feed /\ e \in Feedable
  BY TakenTypes DEF IndexerStep, Taken
<1>2. damaged \subseteq damaged'
  BY DEF IndexerStep, Handled, Refused, LostRole, DataTaken
<1>3. created \subseteq created' /\ \A y : y \in created' /\ y \notin created => CreatedAt(1, y)
  <2>1. CASE Handled(e)
    <3>1. e.type \in RoleTypes /\ HandlerEffect(e)
      BY <2>1 DEF Handled, RoleEvents
    <3>. QED BY <1>1, <3>1 DEF HandlerEffect, RoleTypes, CreatedAt
  <2>2. CASE created' = created
    BY <2>2
  <2>. QED BY <2>1, <2>2 DEF IndexerStep, Refused, LostRole, DataTaken
<1>4. \A y : Exists(y)' <=> Exists(y)
  BY DEF IndexerStep, ContractsKept, Exists
<1>5. \A y : OfRole(e, y) <=> RoleAt(1, y)
  BY <1>1 DEF OfRole, RoleAt
<1>6. \A y : Sound(y)' => Sound(y)
  BY <1>2 DEF Sound
<1>. QED BY <1>1, <1>2, <1>3, <1>4, <1>5, <1>6

\* An event that follows the creation finds it handled, unless that was lost.
LEMMA CreatedBefore ==
    ASSUME IInv, NEW x \in Entities, Exists(x), Sound(x), 1 \in DOMAIN feed,
           LaterAt(1, x) \/ \E q \in Pools : ProfileOf[q] = x /\ CreatedAt(1, q)
    PROVE  x \in created
<1>1. SUFFICES ASSUME NEW i \in DOMAIN feed, CreatedAt(i, x) PROVE FALSE
  BY DEF IInv, Arrives
<1>2. i < 1
  BY <1>1 DEF IInv, CreatedOnce
<1>3. i \in 1..Len(feed) /\ Len(feed) \in Nat
  BY FeedDomain DEF IInv, TypeOK, Feedable
<1>. QED BY <1>2, <1>3

\* The creation of x is stored when its turn comes.
LEMMA CreationAccepted ==
    ASSUME IInv, 1 \in DOMAIN feed, NEW x \in Entities, CreatedAt(1, x), Sound(x)
    PROVE  Succeeds(feed[1])
<1>1. feed[1].type = "created" /\ feed[1].role.of = x /\ x \notin created
  BY DEF CreatedAt, IInv, CreatedOnce
<1>2. \A r \in PendingRows(x) : pending[r] = 1
  <2>. TAKE r \in PendingRows(x)
  <2>1. r \in RolesOf(x) /\ pending[r] > 0 /\ pending[r] \in Nat
    BY RoleFacts DEF PendingRows, IInv, TypeOK
  <2>2. pending[r] <= 1
    BY <2>1 DEF IInv, ParkedOnce
  <2>. QED BY <2>1, <2>2
<1>3. ASSUME x \in Pools PROVE ProfileOf[x] \in created
  <2>1. Exists(x)
    BY EventOfExisting DEF IInv
  <2>2. ProfileOf[x] \in Entities /\ x \notin Profiles
    BY <1>3, RoleFacts
  <2>3. Exists(ProfileOf[x])
    BY <2>1, <2>2 DEF Exists, IInv, NothingBefore
  <2>4. x \notin damaged
    BY <2>2, RoleFacts DEF Sound
  <2>5. Sound(ProfileOf[x])
    BY <1>3, <2>4 DEF Sound
  <2>. QED BY <1>3, <2>2, <2>3, <2>5, CreatedBefore
<1>. QED BY <1>1, <1>2, <1>3 DEF Succeeds

\* A parked role is converted by the one creation, and no role is parked twice before it.
LEMMA IndexerParks ==
    ASSUME IInv, NEW e, IndexerStep(e)
    PROVE  RowsOfCreated' /\ ParkedOnce'
<1>. DEFINE n == Len(feed)
            m == Len(feed')
<1>1. /\ DOMAIN feed = 1..n /\ DOMAIN feed' = 1..m /\ 1 \in 1..n /\ n \in Nat /\ m \in Nat /\ m = n - 1
      /\ \A i \in 1..m : i + 1 \in 1..n /\ i + 1 > 1
  BY TakenPlaces DEF IInv, IndexerStep
<1>2. \A i \in 1..m : \A y :
            /\ CreatedAt(i, y)' <=> CreatedAt(i + 1, y)
            /\ GrantedAt(i, y)' <=> GrantedAt(i + 1, y)
  BY TakenAt DEF IInv, IndexerStep
<1>3. /\ e = feed[1] /\ \A y : OfRole(e, y) <=> RoleAt(1, y)
      /\ created \subseteq created'
  BY IndexerFacts DEF IInv
<1>. HIDE DEF n, m
<1>4. RowsOfCreated'
  <2>. SUFFICES ASSUME NEW y \in Entities
                PROVE  IF y \in created' THEN PendingRows(y)' = {} ELSE Stored(y)' = {}
    BY DEF RowsOfCreated
  <2>1. IF y \in created THEN PendingRows(y) = {} ELSE Stored(y) = {}
    BY DEF IInv, RowsOfCreated
  <2>2. CASE ~OfRole(e, y)
    BY <2>1, <2>2, Untouched DEF IInv
  <2>3. CASE OfRole(e, y) /\ ~Handled(e)
    <3>1. created' = created /\ rows' = rows /\ pending' = pending
      BY <2>3 DEF IndexerStep, Refused, LostRole, DataTaken
    <3>. QED BY <2>1, <3>1 DEF PendingRows, Stored
  <2>4. CASE OfRole(e, y) /\ Handled(e)
    <3>1. HandlerEffect(e) /\ Succeeds(e) /\ e.role.of = y /\ e.type \in RoleTypes
      BY <2>4 DEF Handled, OfRole
    <3>2. CASE e.type = "granted"
      BY <2>1, <3>1, <3>2 DEF HandlerEffect, PendingRows, Stored
    <3>3. CASE e.type = "revoked"
      BY <2>1, <3>1, <3>3 DEF HandlerEffect, PendingRows, Stored
    <3>4. CASE e.type = "created"
      <4>1. \A r \in RolesOf(y) : r \in Grantable /\ r.of = y
        BY RoleFacts
      <4>2. \A r \in RolesOf(y) : pending'[r] = 0
        BY <3>1, <3>4, <4>1 DEF HandlerEffect
      <4>3. y \in created'
        BY <3>1, <3>4 DEF HandlerEffect
      <4>. QED BY <4>2, <4>3 DEF PendingRows
    <3>5. CASE e.type = "ownerUpdated"
      <4>1. y \in created /\ created' = created /\ pending' = pending
        BY <3>1, <3>5 DEF HandlerEffect, Succeeds
      <4>. QED BY <2>1, <4>1 DEF PendingRows
    <3>. QED BY <3>1, <3>2, <3>3, <3>4, <3>5 DEF RoleTypes
  <2>. QED BY <2>2, <2>3, <2>4
<1>5. ParkedOnce'
  <2>1. ASSUME NEW y \in Entities, NEW i \in 1..m, CreatedAt(i, y)', NEW r \in RolesOf(y)
        PROVE  /\ pending'[r] <= 1
               /\ \A j \in 1..m : j < i /\ GrantedAt(j, r)' =>
                     /\ pending'[r] = 0
                     /\ \A k \in 1..m : k < i /\ GrantedAt(k, r)' => k = j
    <3>1. i + 1 \in 1..n /\ CreatedAt(i + 1, y) /\ y \notin created /\ 1 < i + 1
      BY <1>1, <1>2, <2>1 DEF IInv, CreatedOnce
    <3>2. /\ pending[r] <= 1
          /\ \A j \in 1..n : j < i + 1 /\ GrantedAt(j, r) =>
                /\ pending[r] = 0
                /\ \A k \in 1..n : k < i + 1 /\ GrantedAt(k, r) => k = j
      BY <1>1, <3>1 DEF IInv, ParkedOnce
    <3>3. \A j \in 1..m : j < i /\ GrantedAt(j, r)' =>
             /\ pending[r] = 0
             /\ \A k \in 1..m : k < i /\ GrantedAt(k, r)' => k = j
      <4>. TAKE j \in 1..m
      <4>. HAVE j < i /\ GrantedAt(j, r)'
      <4>1. j + 1 \in 1..n /\ j + 1 < i + 1 /\ GrantedAt(j + 1, r)
        BY <1>1, <1>2
      <4>2. \A k \in 1..m : k < i /\ GrantedAt(k, r)' => k + 1 \in 1..n /\ k + 1 < i + 1 /\ GrantedAt(k + 1, r)
        BY <1>1, <1>2
      <4>3. \A k \in 1..m : k < i /\ GrantedAt(k, r)' => k + 1 = j + 1
        BY <3>2, <4>1, <4>2
      <4>4. \A k \in 1..m : k + 1 = j + 1 => k = j
        BY <1>1
      <4>. QED BY <3>2, <4>1, <4>3, <4>4
    <3>4. CASE pending'[r] = pending[r]
      BY <3>2, <3>3, <3>4
    <3>5. CASE pending'[r] # pending[r]
      <4>1. OfRole(e, y) /\ Handled(e)
        <5>1. OfRole(e, y)
          BY <3>5, Untouched DEF IInv
        <5>. QED BY <3>5, <5>1 DEF IndexerStep, Refused, LostRole, DataTaken
      <4>2. HandlerEffect(e) /\ e.role.of = y /\ e.type \in RoleTypes /\ e.role \in AllRoles
            /\ pending \in [Grantable -> Nat] /\ r \in Grantable
        BY <4>1, RoleFacts DEF Handled, OfRole, RoleEvents, IInv, TypeOK
      <4>3. e.type # "created"
        <5>1. ASSUME e.type = "created" PROVE FALSE
          <6>1. CreatedAt(1, y)
            BY <1>3, <4>2, <5>1 DEF CreatedAt
          <6>2. 1 = i + 1
            BY <1>1, <3>1, <6>1 DEF IInv, CreatedOnce
          <6>. QED BY <3>1, <6>2
        <5>. QED BY <5>1
      <4>4. e.type = "granted" /\ e.role = r /\ pending'[r] = pending[r] + 1
        BY <3>1, <3>5, <4>2, <4>3 DEF HandlerEffect, RoleTypes
      <4>5. GrantedAt(1, r)
        BY <1>3, <4>4 DEF GrantedAt
      <4>6. pending[r] = 0 /\ \A k \in 1..n : k < i + 1 /\ GrantedAt(k, r) => k = 1
        BY <1>1, <3>1, <3>2, <4>5
      <4>7. \A j \in 1..m : j < i => ~GrantedAt(j, r)'
        <5>. TAKE j \in 1..m
        <5>1. j + 1 \in 1..n /\ j + 1 > 1 /\ (j < i => j + 1 < i + 1)
          BY <1>1
        <5>. QED BY <1>2, <4>6, <5>1
      <4>. QED BY <4>4, <4>6, <4>7
    <3>. QED BY <3>4, <3>5
  <2>. QED BY <1>1, <2>1 DEF ParkedOnce
<1>. QED BY <1>4, <1>5

\* A step of the indexer keeps the order of creations and of what follows them.
LEMMA IndexerOrder ==
    ASSUME IInv, NEW e, IndexerStep(e)
    PROVE  NothingBefore' /\ CreatedOnce' /\ Arrives'
<1>. DEFINE n == Len(feed)
            m == Len(feed')
<1>1. /\ DOMAIN feed = 1..n /\ DOMAIN feed' = 1..m /\ 1 \in 1..n /\ n \in Nat /\ m \in Nat /\ m = n - 1
      /\ \A i \in 1..m : i + 1 \in 1..n /\ i + 1 > 1
      /\ \A i \in 1..n : i # 1 => i - 1 \in 1..m
  BY TakenPlaces DEF IInv, IndexerStep
<1>2. \A i \in 1..m : \A y :
            /\ CreatedAt(i, y)' <=> CreatedAt(i + 1, y)
            /\ LaterAt(i, y)' <=> LaterAt(i + 1, y)
            /\ RoleAt(i, y)' <=> RoleAt(i + 1, y)
            /\ DataAt(i, y)' <=> DataAt(i + 1, y)
  BY TakenAt DEF IInv, IndexerStep
<1>3. /\ e = feed[1] /\ \A y : OfRole(e, y) <=> RoleAt(1, y)
      /\ created \subseteq created'
      /\ \A y : Exists(y)' <=> Exists(y)
      /\ \A y : y \in created' /\ y \notin created => CreatedAt(1, y)
      /\ \A y : Sound(y)' => Sound(y)
  BY IndexerFacts DEF IInv
<1>. HIDE DEF n, m
<1>4. NothingBefore'
  <2>1. ASSUME NEW y \in Entities, ~Exists(y)'
        PROVE  /\ y \notin created' /\ Held(y)' = {} /\ PendingRows(y)' = {}
               /\ \A i \in DOMAIN feed' : ~RoleAt(i, y)' /\ ~DataAt(i, y)'
               /\ y \in Profiles => profile'[y].version = 0
    <3>1. ~Exists(y)
      BY <1>3, <2>1
    <3>2. /\ y \notin created /\ Held(y) = {} /\ PendingRows(y) = {}
          /\ \A i \in 1..n : ~RoleAt(i, y) /\ ~DataAt(i, y)
          /\ y \in Profiles => profile[y].version = 0
      BY <1>1, <3>1 DEF IInv, NothingBefore
    <3>3. ~OfRole(e, y)
      BY <1>1, <1>3, <3>2
    <3>4. y \notin created' /\ PendingRows(y)' = {}
      BY <3>2, <3>3, Untouched DEF IInv
    <3>5. Held(y)' = {} /\ profile' = profile
      BY <3>2 DEF IndexerStep, ContractsKept, Held
    <3>. QED BY <1>1, <1>2, <3>2, <3>4, <3>5
  <2>2. \A q \in pools' : Exists(ProfileOf[q])'
    BY <1>3 DEF IInv, NothingBefore, IndexerStep, ContractsKept
  <2>. QED BY <2>1, <2>2 DEF NothingBefore
<1>5. CreatedOnce'
  <2>1. ASSUME NEW y \in Entities
        PROVE  /\ y \in created' => \A i \in 1..m : ~CreatedAt(i, y)'
               /\ \A i, j \in 1..m : CreatedAt(i, y)' =>
                     /\ CreatedAt(j, y)' => i = j
                     /\ LaterAt(j, y)' => i < j
                     /\ \A q \in Pools : ProfileOf[q] = y /\ CreatedAt(j, q)' => i < j
    <3>1. ASSUME y \in created', NEW i \in 1..m, CreatedAt(i, y)' PROVE FALSE
      <4>1. i + 1 \in 1..n /\ CreatedAt(i + 1, y) /\ i + 1 # 1
        BY <1>1, <1>2, <3>1
      <4>2. y \notin created
        BY <1>1, <4>1 DEF IInv, CreatedOnce
      <4>3. CreatedAt(1, y)
        BY <1>3, <3>1, <4>2
      <4>. QED BY <1>1, <4>1, <4>3 DEF IInv, CreatedOnce
    <3>2. ASSUME NEW i \in 1..m, NEW j \in 1..m, CreatedAt(i, y)'
          PROVE  /\ CreatedAt(j, y)' => i = j
                 /\ LaterAt(j, y)' => i < j
                 /\ \A q \in Pools : ProfileOf[q] = y /\ CreatedAt(j, q)' => i < j
      <4>1. i + 1 \in 1..n /\ j + 1 \in 1..n /\ CreatedAt(i + 1, y)
        BY <1>1, <1>2, <3>2
      <4>2. /\ CreatedAt(j + 1, y) => i + 1 = j + 1
            /\ LaterAt(j + 1, y) => i + 1 < j + 1
            /\ \A q \in Pools : ProfileOf[q] = y /\ CreatedAt(j + 1, q) => i + 1 < j + 1
        BY <1>1, <4>1 DEF IInv, CreatedOnce
      <4>3. (i + 1 = j + 1 => i = j) /\ (i + 1 < j + 1 => i < j)
        BY <1>1
      <4>. QED BY <1>2, <4>2, <4>3
    <3>. QED BY <3>1, <3>2
  <2>. QED BY <1>1, <2>1 DEF CreatedOnce
<1>6. Arrives'
  <2>1. ASSUME NEW y \in Entities, Exists(y)', Sound(y)'
        PROVE  y \in created' \/ \E i \in 1..m : CreatedAt(i, y)'
    <3>1. Exists(y) /\ Sound(y)
      BY <1>3, <2>1
    <3>2. CASE y \in created
      BY <1>3, <3>2
    <3>3. ASSUME NEW i \in 1..n, CreatedAt(i, y), i # 1
          PROVE  \E j \in 1..m : CreatedAt(j, y)'
      <4>1. i - 1 \in 1..m /\ i - 1 + 1 = i
        BY <1>1, <3>3
      <4>. QED BY <1>2, <3>3, <4>1
    <3>4. CASE CreatedAt(1, y)
      <4>1. Succeeds(e)
        BY <1>1, <1>3, <3>1, <3>4, CreationAccepted
      <4>2. e.type = "created" /\ e.role.of = y
        BY <1>3, <3>4 DEF CreatedAt
      <4>3. ~LostRole(e)
        <5>. SUFFICES ASSUME LostRole(e) PROVE FALSE
          OBVIOUS
        <5>1. damaged' = damaged \cup {y} \cup {q \in Pools : ProfileOf[q] = y}
          BY <4>2 DEF LostRole
        <5>. QED BY <2>1, <5>1 DEF Sound
      <4>4. Handled(e)
        BY <4>1, <4>2, <4>3 DEF IndexerStep, Refused, DataTaken, DataEvents
      <4>. QED BY <4>2, <4>4 DEF Handled, HandlerEffect
    <3>. QED BY <1>1, <3>1, <3>2, <3>3, <3>4 DEF IInv, Arrives
  <2>. QED BY <1>1, <2>1 DEF Arrives
<1>. QED BY <1>4, <1>5, <1>6
-----------------------------------------------------------------------------
(* Histories after a step of the indexer. *)

\* The tables make the move that the head of the feed records: for roles,
LEMMA IndexerRoles ==
    ASSUME IInv, NEW e, IndexerStep(e), NEW x \in Entities, Exists(x)', x \notin damaged'
    PROVE  RolesBehindOf(x)'
<1>. DEFINE V == SUBSET RolesOf(x)
<1>1. /\ e = feed[1] /\ 1 \in DOMAIN feed /\ e \in Feedable
      /\ OfRole(e, x) <=> RoleAt(1, x)
      /\ Exists(x) /\ x \notin damaged /\ Sound(x)
  BY IndexerFacts DEF IInv, Sound
<1>2. PICK h : /\ History(h, V, RoleMoves(x)) /\ h[Len(feed)] = Held(x)
               /\ Has(x) \subseteq h[0] /\ (x \in Pools => h[0] \subseteq Has(x))
  BY <1>1 DEF IInv, RolesBehind, RolesBehindOf
<1>3. PICK g : /\ <<h[0], e, g[0]>> \in RoleMoves(x) /\ h[0] \in V /\ g[0] \in V
               /\ g[Len(feed')] = h[Len(feed)] /\ History(g, V, RoleMoves(x))'
  <2>. HIDE DEF V
  <2>. QED BY <1>1, <1>2, HistoryShrinks DEF IInv, IndexerStep
<1>4. RoleMove(x, h[0], e, g[0])
  BY <1>1, <1>3, MovesDef
<1>. HIDE DEF V
<1>5. Held(x)' = Held(x)
  BY DEF IndexerStep, ContractsKept, Held
<1>6. Has(x)' \subseteq g[0] /\ (x \in Pools => g[0] \subseteq Has(x)')
  <2>1. CASE ~OfRole(e, x)
    <3>1. g[0] = h[0]
      BY <1>4, <2>1 DEF RoleMove
    <3>2. Has(x)' = Has(x)
      BY <2>1, Untouched DEF IInv
    <3>. QED BY <1>2, <3>1, <3>2
  <2>2. CASE OfRole(e, x)
    <3>1. e.type \in RoleTypes /\ e.role.of = x
      BY <2>2 DEF OfRole
    <3>2. ~LostRole(e) /\ ~DataTaken(e)
      <4>1. LostRole(e) => x \in damaged'
        BY <3>1 DEF LostRole
      <4>2. DataTaken(e) => e.type \notin RoleTypes
        BY DEF DataTaken, DataEvents, RoleTypes
      <4>. QED BY <3>1, <4>1, <4>2
    <3>3. Handled(e) \/ Refused(e)
      BY <3>2 DEF IndexerStep
    <3>4. e.role \in AllRoles /\ (e.type \in {"granted", "revoked"} => e.role \in RolesOf(x))
          /\ pending \in [Grantable -> Nat]
      BY <3>1, <3>3 DEF Handled, Refused, Fits, RoleEvents, IInv, TypeOK
    <3>5. \A r \in RolesOf(x) : r \in Grantable /\ r.of = x /\ r.kind # "owner"
      BY RoleFacts
    <3>6. CASE e.type = "granted"
      <4>1. e.role \notin h[0] /\ g[0] = h[0] \cup {e.role}
        BY <1>4, <2>2, <3>6 DEF RoleMove
      <4>2. Handled(e)
        <5>1. ASSUME Refused(e) PROVE FALSE
          <6>1. e.role \in rows
            BY <3>6, <5>1 DEF Refused, Succeeds
          <6>2. e.role \in Has(x)
            BY <3>4, <3>6, <6>1 DEF Has
          <6>. QED BY <1>2, <4>1, <6>2
        <5>. QED BY <3>3, <5>1
      <4>3. Has(x)' = Has(x) \cup {e.role}
        <5>1. CASE x \in created
          <6>1. rows' = rows \cup {e.role} /\ pending' = pending
            BY <3>1, <3>6, <4>2, <5>1 DEF Handled, HandlerEffect
          <6>. QED BY <3>4, <3>6, <6>1 DEF Has
        <5>2. CASE x \notin created
          <6>1. rows' = rows /\ pending' = [pending EXCEPT ![e.role] = @ + 1]
            BY <3>1, <3>6, <4>2, <5>2 DEF Handled, HandlerEffect
          <6>2. \A r \in RolesOf(x) : pending'[r] > 0 <=> pending[r] > 0 \/ r = e.role
            BY <3>4, <3>5, <3>6, <6>1
          <6>. QED BY <3>4, <3>6, <6>1, <6>2 DEF Has
        <5>. QED BY <5>1, <5>2
      <4>. QED BY <1>2, <4>1, <4>3
    <3>7. CASE e.type = "revoked"
      <4>1. g[0] = h[0] \ {e.role}
        BY <1>4, <2>2, <3>7 DEF RoleMove
      <4>2. x \in created
        <5>1. LaterAt(1, x)
          BY <1>1, <2>2, <3>7 DEF LaterAt
        <5>. QED BY <1>1, <5>1, CreatedBefore
      <4>3. Handled(e)
        <5>1. Succeeds(e)
          BY <3>1, <3>7, <4>2 DEF Succeeds, Known
        <5>. QED BY <3>3, <5>1 DEF Refused
      <4>4. PendingRows(x) = {}
        BY <4>2 DEF IInv, RowsOfCreated
      <4>5. /\ pending' = pending /\ rows' \subseteq rows /\ e.role \notin rows'
            /\ \A m \in rows \ rows' : m.of = x /\ m.kind # "owner" /\ (x \in Pools => m = e.role)
        BY <3>1, <3>7, <4>3 DEF Handled, HandlerEffect
      <4>6. Has(x)' \subseteq Has(x) \ {e.role} /\ (x \in Pools => Has(x) \ {e.role} \subseteq Has(x)')
        BY <4>4, <4>5 DEF Has, PendingRows
      <4>. QED BY <1>2, <4>1, <4>6
    <3>8. CASE e.type \in {"created", "ownerUpdated"}
      <4>1. g[0] = h[0]
        BY <1>4, <3>8 DEF RoleMove
      <4>2. Has(x)' = Has(x)
        <5>1. CASE Refused(e)
          BY <5>1 DEF Refused, Has
        <5>2. CASE Handled(e) /\ e.type = "created"
          <6>1. /\ rows' = rows \cup PendingRows(x) \cup (IF x \in Profiles THEN {e.role} ELSE {})
                /\ pending' = [m \in Grantable |-> IF m.of = x THEN 0 ELSE pending[m]]
            BY <3>1, <5>2 DEF Handled, HandlerEffect
          <6>2. x \in Profiles => e.role \notin RolesOf(x)
            BY <3>1, <3>5, <5>2 DEF Handled, Fits
          <6>3. \A r \in RolesOf(x) : pending'[r] = 0
            BY <3>5, <6>1
          <6>4. \A r \in RolesOf(x) : r \in rows' <=> r \in rows \/ r \in PendingRows(x)
            BY <6>1, <6>2
          <6>. QED BY <6>3, <6>4 DEF Has, PendingRows
        <5>3. CASE Handled(e) /\ e.type = "ownerUpdated"
          <6>1. pending' = pending /\ rows' = {m \in rows : ~(m.kind = "owner" /\ m.of = x)} \cup {e.role}
            BY <3>1, <5>3 DEF Handled, HandlerEffect
          <6>2. e.role \notin RolesOf(x)
            BY <3>5, <5>3 DEF Handled, Fits
          <6>. QED BY <3>5, <6>1, <6>2 DEF Has
        <5>. QED BY <3>3, <3>8, <5>1, <5>2, <5>3
      <4>. QED BY <1>2, <4>1, <4>2
    <3>. QED BY <3>1, <3>6, <3>7, <3>8 DEF RoleTypes
  <2>. QED BY <2>1, <2>2
<1>. QED BY <1>2, <1>3, <1>5, <1>6 DEF RolesBehindOf, V

\* for owners,
LEMMA IndexerOwner ==
    ASSUME IInv, NEW e, IndexerStep(e), NEW p \in Profiles, Exists(p)', p \notin damaged'
    PROVE  OwnerBehindOf(p)'
<1>1. /\ e = feed[1] /\ 1 \in DOMAIN feed /\ e \in Feedable
      /\ OfRole(e, p) <=> RoleAt(1, p)
      /\ Exists(p) /\ p \notin damaged /\ p \in Entities /\ created \subseteq created'
  BY IndexerFacts, RoleFacts DEF IInv
<1>2. PICK h : /\ History(h, Accounts, OwnerMoves(p)) /\ h[Len(feed)] = owner[p]
               /\ p \in created => {r \in Stored(p) : r.kind = "owner"} = {Role("owner", p, h[0])}
  BY <1>1 DEF IInv, OwnerBehind, OwnerBehindOf
<1>3. PICK g : /\ <<h[0], e, g[0]>> \in OwnerMoves(p) /\ h[0] \in Accounts /\ g[0] \in Accounts
               /\ g[Len(feed')] = h[Len(feed)] /\ History(g, Accounts, OwnerMoves(p))'
  BY <1>1, <1>2, HistoryShrinks DEF IInv, IndexerStep
<1>4. OwnerMove(p, h[0], e, g[0])
  BY <1>1, <1>3, MovesDef
<1>5. owner' = owner
  BY DEF IndexerStep, ContractsKept
<1>6. p \in created' => {r \in Stored(p)' : r.kind = "owner"} = {Role("owner", p, g[0])}
  <2>1. CASE ~OfRole(e, p)
    <3>1. g[0] = h[0]
      BY <1>4, <2>1 DEF OwnerMove
    <3>2. Stored(p)' = Stored(p) /\ (p \in created' <=> p \in created)
      BY <1>1, <2>1, Untouched DEF IInv
    <3>. QED BY <1>2, <3>1, <3>2
  <2>2. CASE OfRole(e, p)
    <3>1. e.type \in RoleTypes /\ e.role.of = p
      BY <2>2 DEF OfRole
    <3>2. ~LostRole(e) /\ ~DataTaken(e)
      <4>1. LostRole(e) => p \in damaged'
        BY <3>1 DEF LostRole
      <4>2. DataTaken(e) => e.type \notin RoleTypes
        BY DEF DataTaken, DataEvents, RoleTypes
      <4>. QED BY <3>1, <4>1, <4>2
    <3>3. CASE Refused(e)
      <4>1. created' = created /\ rows' = rows /\ ~Succeeds(e)
        BY <3>3 DEF Refused
      <4>2. p \in created => e.type \notin {"created", "ownerUpdated"}
        <5>1. e.type = "created" => CreatedAt(1, p)
          BY <1>1, <3>1 DEF CreatedAt
        <5>2. p \in created => e.type # "created"
          BY <1>1, <5>1 DEF IInv, CreatedOnce
        <5>3. p \in created => e.type # "ownerUpdated"
          BY <3>1, <4>1 DEF Succeeds
        <5>. QED BY <5>2, <5>3
      <4>. QED BY <1>2, <1>4, <4>1, <4>2 DEF OwnerMove, Stored
    <3>4. CASE Handled(e)
      <4>1. HandlerEffect(e) /\ Succeeds(e) /\ Fits(e) /\ e.role \in AllRoles
        BY <3>4 DEF Handled, RoleEvents
      <4>2. CASE e.type \in {"granted", "revoked"}
        <5>1. g[0] = h[0] /\ created' = created
          BY <1>4, <4>1, <4>2 DEF OwnerMove, HandlerEffect
        <5>2. e.role.kind # "owner"
          BY <1>1, <3>1, <4>1, <4>2, RoleFacts DEF Fits
        <5>3. \A r : r.of = p /\ r.kind = "owner" => (r \in rows' <=> r \in rows)
          BY <3>1, <4>1, <4>2, <5>2 DEF HandlerEffect
        <5>. QED BY <1>2, <5>1, <5>3 DEF Stored
      <4>3. CASE e.type \in {"created", "ownerUpdated"}
        <5>1. g[0] = e.role.account
          BY <1>4, <2>2, <4>3 DEF OwnerMove
        <5>2. e.role.kind = "owner"
          BY <3>1, <4>1, <4>3 DEF Fits
        <5>3. e.role = Role("owner", p, g[0])
          BY <3>1, <4>1, <5>1, <5>2 DEF Role, AllRoles
        <5>4. {r \in Stored(p)' : r.kind = "owner"} = {e.role}
          <6>1. CASE e.type = "created"
            <7>1. rows' = rows \cup PendingRows(p) \cup {e.role}
              BY <3>1, <4>1, <6>1 DEF HandlerEffect
            <7>2. Stored(p) = {}
              BY <1>1, <3>1, <4>1, <6>1 DEF Succeeds, IInv, RowsOfCreated
            <7>3. \A r \in PendingRows(p) : r.kind # "owner"
              BY <1>1, RoleFacts DEF PendingRows
            <7>. QED BY <3>1, <5>2, <7>1, <7>2, <7>3 DEF Stored
          <6>2. CASE e.type = "ownerUpdated"
            <7>1. rows' = {m \in rows : ~(m.kind = "owner" /\ m.of = p)} \cup {e.role}
              BY <3>1, <4>1, <6>2 DEF HandlerEffect
            <7>. QED BY <3>1, <5>2, <7>1 DEF Stored
          <6>. QED BY <4>3, <6>1, <6>2
        <5>. QED BY <5>3, <5>4
      <4>. QED BY <3>1, <4>2, <4>3 DEF RoleTypes
    <3>. QED BY <3>2, <3>3, <3>4 DEF IndexerStep
  <2>. QED BY <2>1, <2>2
<1>. QED BY <1>2, <1>3, <1>5, <1>6 DEF OwnerBehindOf
\* What happens to the row of p, and to the fields known to be stale
LEMMA ProjectKept ==
    ASSUME IInv, NEW e, IndexerStep(e), NEW p \in Profiles
    PROVE  \/ /\ e.type = "created" /\ e.role.of = p /\ p \notin created /\ p \in created'
              /\ projects'[p] = NewRow(p) /\ stale' = stale
           \/ /\ p \in created' <=> p \in created
              /\ \/ projects'[p] = projects[p] /\ stale' = stale
                 \/ About(e, "ProfileNameUpdated", p) /\ NameEffect(e)
                 \/ About(e, "ProfileMetadataUpdated", p) /\ DocumentEffect(e)
                 \/ About(e, "ProfileNameUpdated", p) /\ projects'[p] = projects[p]
                    /\ stale' = stale \cup {<<p, "anchor">>}
                 \/ About(e, "ProfileMetadataUpdated", p) /\ projects'[p] = projects[p]
                    /\ stale' = stale \cup {<<p, "doc">>}
                 \/ /\ ~About(e, "ProfileNameUpdated", p) /\ ~About(e, "ProfileMetadataUpdated", p)
                    /\ projects'[p] = projects[p]
                    /\ \A f : <<p, f>> \in stale' <=> <<p, f>> \in stale
<1>1. DOMAIN projects = Profiles
  BY DEF IInv, TypeOK
<1>2. CASE Handled(e) /\ e.type = "created" /\ e.role.of = p
  <2>1. p \notin created /\ p \in created'
    BY <1>2 DEF Handled, Succeeds, HandlerEffect
  <2>2. projects'[p] = NewRow(p) /\ stale' = stale
    BY <1>1, <1>2 DEF Handled
  <2>. QED BY <1>2, <2>1, <2>2
<1>3. CASE Handled(e) /\ ~(e.type = "created" /\ e.role.of = p)
  <2>1. p \in created' <=> p \in created
    BY <1>3 DEF Handled, HandlerEffect, RoleEvents, RoleTypes
  <2>2. projects'[p] = projects[p] /\ stale' = stale
    BY <1>1, <1>3 DEF Handled
  <2>. QED BY <2>1, <2>2
<1>4. CASE Refused(e) \/ LostRole(e)
  BY <1>4 DEF Refused, LostRole
<1>5. CASE DataTaken(e)
  <2>1. created' = created
    BY <1>5 DEF DataTaken
  <2>. DEFINE A == About(e, "ProfileNameUpdated", p)
              B == About(e, "ProfileMetadataUpdated", p)
  <2>2. CASE NameEffect(e)
    <3>1. CASE A
      BY <2>1, <2>2, <3>1
    <3>2. CASE ~A
      <4>1. e.about # p /\ e.type = "ProfileNameUpdated" /\ stale' = stale \ {<<e.about, "anchor">>}
        BY <2>2, <3>2 DEF NameEffect, About
      <4>2. projects'[p] = projects[p]
        BY <1>1, <2>2, <4>1 DEF NameEffect, Update
      <4>3. \A f : <<p, f>> # <<e.about, "anchor">>
        BY <4>1
      <4>4. ~B
        BY <4>1 DEF About
      <4>. QED BY <2>1, <3>2, <4>1, <4>2, <4>3, <4>4
    <3>. QED BY <3>1, <3>2
  <2>3. CASE DocumentEffect(e)
    <3>1. CASE B
      BY <2>1, <2>3, <3>1
    <3>2. CASE ~B
      <4>1. e.about # p /\ e.type = "ProfileMetadataUpdated" /\ stale' = stale \ {<<e.about, "doc">>}
        BY <2>3, <3>2 DEF DocumentEffect, About
      <4>2. projects'[p] = projects[p]
        BY <1>1, <2>3, <4>1 DEF DocumentEffect, Update
      <4>3. \A f : <<p, f>> # <<e.about, "doc">>
        BY <4>1
      <4>4. ~A
        BY <4>1 DEF About
      <4>. QED BY <2>1, <3>2, <4>1, <4>2, <4>3, <4>4
    <3>. QED BY <3>1, <3>2
  <2>4. CASE projects' = projects /\ stale' = stale
    BY <2>1, <2>4
  <2>5. CASE LostData(e)
    <3>1. projects' = projects
      BY <2>5 DEF LostData
    <3>2. CASE e.type = "ProfileNameUpdated"
      <4>1. stale' = stale \cup {<<e.about, "anchor">>} /\ ~B
        BY <2>5, <3>2 DEF LostData, About
      <4>2. e.about # p => \A f : <<p, f>> # <<e.about, "anchor">>
        OBVIOUS
      <4>3. A <=> e.about = p
        BY <3>2 DEF About
      <4>. QED BY <2>1, <3>1, <4>1, <4>2, <4>3
    <3>3. CASE e.type = "ProfileMetadataUpdated"
      <4>1. stale' = stale \cup {<<e.about, "doc">>} /\ ~A
        BY <2>5, <3>3 DEF LostData, About
      <4>2. e.about # p => \A f : <<p, f>> # <<e.about, "doc">>
        OBVIOUS
      <4>3. B <=> e.about = p
        BY <3>3 DEF About
      <4>. QED BY <2>1, <3>1, <4>1, <4>2, <4>3
    <3>4. CASE e.type \notin {"ProfileNameUpdated", "ProfileMetadataUpdated"}
      <4>1. stale' = stale
        BY <2>5, <3>4 DEF LostData
      <4>. QED BY <2>1, <3>1, <4>1
    <3>. QED BY <3>2, <3>3, <3>4
  <2>. QED BY <1>5, <2>2, <2>3, <2>4, <2>5 DEF DataTaken, AttestEffect
<1>. QED BY <1>2, <1>3, <1>4, <1>5, Zenon DEF IndexerStep

\* The rows of a profile with a name or a document
LEMMA RowFacts ==
    ASSUME IInv, NEW p \in Profiles
    PROVE  /\ NewRow(p) # Null /\ NewRow(p).anchor = Anchor(p, 0)
           /\ NewRow(p).metadata = (IF Usable(profile[p].first) THEN profile[p].first ELSE Null)
           /\ NewRow(p).type = TypeOf(profile[p].first)
           /\ projects[p] # Null =>
                 /\ \A d \in Documents :
                       LET row == Described(projects[p], d) IN
                       /\ row # Null /\ row.anchor = projects[p].anchor
                       /\ row.metadata = (IF Usable(d) THEN d ELSE Null) /\ row.type = TypeOf(d)
                 /\ \A v \in Nat :
                       LET row == Renamed(projects[p], v) IN
                       /\ row # Null /\ row.metadata = projects[p].metadata
                       /\ row.type = projects[p].type
                       /\ row.anchor = Anchor(p, v)
<1>1. \A row \in Row(p) : row # Null /\ row \in ProjectRow /\ row.anchor.of = p
  BY RegistryAssumption DEF Row
<1>2. NewRow(p) # Null
  BY <1>1, RowTypes DEF IInv
<1>3. /\ NewRow(p).anchor = Anchor(p, 0)
      /\ NewRow(p).metadata = (IF Usable(profile[p].first) THEN profile[p].first ELSE Null)
      /\ NewRow(p).type = TypeOf(profile[p].first)
  BY DEF NewRow, Described
<1>4. ASSUME projects[p] # Null, NEW d \in Documents
      PROVE  LET row == Described(projects[p], d) IN
                /\ row # Null /\ row.anchor = projects[p].anchor
                /\ row.metadata = (IF Usable(d) THEN d ELSE Null) /\ row.type = TypeOf(d)
  <2>1. projects[p] \in Row(p)
    BY <1>4 DEF IInv, TypeOK
  <2>2. Described(projects[p], d) # Null
    BY <1>1, <2>1, RowTypes DEF IInv
  <2>3. projects[p] \in ProjectRow
    BY <1>1, <2>1
  <2>. QED BY <2>2, <2>3 DEF Described, ProjectRow
<1>5. ASSUME projects[p] # Null, NEW v \in Nat
      PROVE  LET row == Renamed(projects[p], v) IN
                /\ row # Null /\ row.metadata = projects[p].metadata
                /\ row.type = projects[p].type /\ row.anchor = Anchor(p, v)
  <2>1. projects[p] \in Row(p)
    BY <1>5 DEF IInv, TypeOK
  <2>2. Renamed(projects[p], v) # Null
    BY <1>1, <2>1, RowTypes DEF IInv
  <2>3. projects[p] \in ProjectRow /\ projects[p].anchor.of = p
    BY <1>1, <2>1
  <2>. QED BY <2>2, <2>3 DEF Renamed, ProjectRow, Anchor
<1>. QED BY <1>2, <1>3, <1>4, <1>5

\* A profile has a row once its creation is handled.
LEMMA IndexerRows ==
    ASSUME IInv, NEW e, IndexerStep(e)
    PROVE  RowsOfProjects'
<1>. SUFFICES ASSUME NEW p \in Profiles PROVE p \in created' <=> projects'[p] # Null
  BY DEF RowsOfProjects
<1>1. p \in created <=> projects[p] # Null
  BY DEF IInv, RowsOfProjects
<1>2. e \in Feedable
  BY IndexerFacts DEF IInv
<1>3. ASSUME About(e, "ProfileNameUpdated", p), NameEffect(e) PROVE projects'[p] # Null <=> projects[p] # Null
  <2>1. e.about = p /\ e.data \in Nat
    BY <1>2, <1>3 DEF About, Feedable, RoleEvents, DataEvents, RoleTypes
  <2>2. projects[p] # Null => Renamed(projects[p], e.data) # Null
    BY <2>1, RowFacts
  <2>. QED BY <1>3, <2>1, <2>2 DEF NameEffect, Update, IInv, TypeOK
<1>4. ASSUME About(e, "ProfileMetadataUpdated", p), DocumentEffect(e)
      PROVE  projects'[p] # Null <=> projects[p] # Null
  <2>1. e.about = p /\ e.data \in Documents
    BY <1>2, <1>4 DEF About, Feedable, RoleEvents, DataEvents, RoleTypes
  <2>2. projects[p] # Null => Described(projects[p], e.data) # Null
    BY <2>1, RowFacts
  <2>. QED BY <1>4, <2>1, <2>2 DEF DocumentEffect, Update, IInv, TypeOK
<1>5. NewRow(p) # Null
  BY RowFacts
<1>. QED BY <1>1, <1>3, <1>4, <1>5, ProjectKept

\* for documents,
LEMMA IndexerDocument ==
    ASSUME IInv, NEW e, IndexerStep(e), NEW p \in Profiles, Exists(p)', p \notin damaged'
    PROVE  DocumentBehindOf(p)'
<1>1. /\ e = feed[1] /\ 1 \in DOMAIN feed /\ e \in Feedable
      /\ Exists(p) /\ p \notin damaged /\ Sound(p) /\ p \in Entities
  BY IndexerFacts, RoleFacts DEF IInv, Sound
<1>2. PICK h : /\ History(h, Documents, DocumentMoves(p)) /\ h[Len(feed)] = profile[p].doc
               /\ <<p, "doc">> \notin stale =>
                     IF p \in created
                     THEN /\ projects[p].metadata = IF Usable(h[0]) THEN h[0] ELSE Null
                          /\ projects[p].type = TypeOf(h[0])
                     ELSE profile[p].first = h[0]
  BY <1>1 DEF IInv, DocumentBehind, DocumentBehindOf
<1>3. PICK g : /\ <<h[0], e, g[0]>> \in DocumentMoves(p) /\ h[0] \in Documents /\ g[0] \in Documents
               /\ g[Len(feed')] = h[Len(feed)] /\ History(g, Documents, DocumentMoves(p))'
  BY <1>1, <1>2, HistoryShrinks DEF IInv, IndexerStep
<1>4. DocumentMove(p, h[0], e, g[0])
  BY <1>1, <1>3, MovesDef
<1>5. profile' = profile
  BY DEF IndexerStep, ContractsKept
<1>. DEFINE Follows ==
        <<p, "doc">> \notin stale' =>
           IF p \in created'
           THEN /\ projects'[p].metadata = IF Usable(g[0]) THEN g[0] ELSE Null
                /\ projects'[p].type = TypeOf(g[0])
           ELSE profile[p].first = g[0]
<1>6. ASSUME ~About(e, "ProfileMetadataUpdated", p), p \in created' <=> p \in created,
             <<p, "doc">> \in stale' <=> <<p, "doc">> \in stale,
             \/ projects'[p] = projects[p]
             \/ p \in created => /\ projects'[p].metadata = projects[p].metadata
                                 /\ projects'[p].type = projects[p].type
      PROVE  Follows
  <2>1. g[0] = h[0]
    BY <1>4, <1>6 DEF DocumentMove
  <2>. QED BY <1>2, <1>6, <2>1
<1>7. ASSUME About(e, "ProfileMetadataUpdated", p) PROVE p \in created /\ g[0] = e.data /\ e.data \in Documents
  <2>1. LaterAt(1, p)
    BY <1>1, <1>7 DEF LaterAt, DataAt, About, ProfileTypes
  <2>2. p \in created
    BY <1>1, <2>1, CreatedBefore
  <2>3. g[0] = e.data
    BY <1>4, <1>7 DEF DocumentMove
  <2>. QED BY <1>3, <2>2, <2>3
<1>8. CASE e.type = "created" /\ e.role.of = p /\ p \notin created /\ p \in created'
           /\ projects'[p] = NewRow(p) /\ stale' = stale
  <2>1. g[0] = h[0]
    BY <1>4, <1>8 DEF DocumentMove, About
  <2>2. Follows
    BY <1>2, <1>8, <2>1, RowFacts
  <2>. QED BY <1>2, <1>3, <1>5, <2>2 DEF DocumentBehindOf
<1>9. CASE /\ p \in created' <=> p \in created
           /\ \/ projects'[p] = projects[p] /\ stale' = stale /\ ~About(e, "ProfileMetadataUpdated", p)
              \/ About(e, "ProfileNameUpdated", p) /\ NameEffect(e)
              \/ About(e, "ProfileNameUpdated", p) /\ projects'[p] = projects[p]
                 /\ stale' = stale \cup {<<p, "anchor">>}
              \/ /\ ~About(e, "ProfileNameUpdated", p) /\ ~About(e, "ProfileMetadataUpdated", p)
                 /\ projects'[p] = projects[p]
                 /\ \A f : <<p, f>> \in stale' <=> <<p, f>> \in stale
  <2>1. ~About(e, "ProfileMetadataUpdated", p)
    BY <1>9 DEF About
  <2>2. <<p, "doc">> # <<p, "anchor">>
    OBVIOUS
  <2>3. <<p, "doc">> \in stale' <=> <<p, "doc">> \in stale
    BY <1>9, <2>2 DEF NameEffect, About
  <2>4. \/ projects'[p] = projects[p]
        \/ p \in created => /\ projects'[p].metadata = projects[p].metadata
                            /\ projects'[p].type = projects[p].type
    <3>1. CASE About(e, "ProfileNameUpdated", p) /\ NameEffect(e)
      <4>1. e.about = p /\ e.data \in Nat
        BY <1>1, <3>1 DEF About, Feedable, RoleEvents, DataEvents, RoleTypes
      <4>2. projects[p] = Null => projects'[p] = projects[p]
        BY <3>1, <4>1 DEF NameEffect, Update
      <4>3. projects[p] # Null => projects'[p] = Renamed(projects[p], e.data)
        BY <3>1, <4>1 DEF NameEffect, Update, IInv, TypeOK
      <4>. QED BY <4>1, <4>2, <4>3, RowFacts
    <3>. QED BY <1>9, <3>1
  <2>5. Follows
    BY <1>6, <1>9, <2>1, <2>3, <2>4
  <2>. QED BY <1>2, <1>3, <1>5, <2>5 DEF DocumentBehindOf
<1>10. CASE About(e, "ProfileMetadataUpdated", p) /\ DocumentEffect(e) /\ (p \in created' <=> p \in created)
  <2>1. projects[p] # Null /\ e.about = p
    BY <1>7, <1>10 DEF About, IInv, RowsOfProjects
  <2>2. projects'[p] = Described(projects[p], e.data)
    BY <1>10, <2>1 DEF DocumentEffect, Update, IInv, TypeOK
  <2>3. Follows
    BY <1>7, <1>10, <2>1, <2>2, RowFacts
  <2>. QED BY <1>2, <1>3, <1>5, <2>3 DEF DocumentBehindOf
<1>11. CASE stale' = stale \cup {<<p, "doc">>}
  <2>1. Follows
    BY <1>11
  <2>. QED BY <1>2, <1>3, <1>5, <2>1 DEF DocumentBehindOf
<1>12. ASSUME About(e, "ProfileMetadataUpdated", p), projects'[p] = projects[p], stale' = stale
       PROVE  DocumentEffect(e) \/ stale' = stale \cup {<<p, "doc">>}
  <2>1. e.type = "ProfileMetadataUpdated" /\ e.about = p
    BY <1>12 DEF About
  <2>2. e \notin RoleEvents
    BY <2>1 DEF RoleEvents, RoleTypes
  <2>3. DocumentEffect(e) \/ LostData(e)
    BY <2>1, <2>2 DEF IndexerStep, Handled, Refused, LostRole, DataTaken, NameEffect, AttestEffect
  <2>. QED BY <2>1, <2>3 DEF LostData
<1>13. \/ e.type = "created" /\ e.role.of = p /\ p \notin created /\ p \in created'
          /\ projects'[p] = NewRow(p) /\ stale' = stale
       \/ /\ p \in created' <=> p \in created
          /\ \/ projects'[p] = projects[p] /\ stale' = stale
             \/ About(e, "ProfileNameUpdated", p) /\ NameEffect(e)
             \/ About(e, "ProfileMetadataUpdated", p) /\ DocumentEffect(e)
             \/ About(e, "ProfileNameUpdated", p) /\ projects'[p] = projects[p]
                /\ stale' = stale \cup {<<p, "anchor">>}
             \/ About(e, "ProfileMetadataUpdated", p) /\ projects'[p] = projects[p]
                /\ stale' = stale \cup {<<p, "doc">>}
             \/ /\ ~About(e, "ProfileNameUpdated", p) /\ ~About(e, "ProfileMetadataUpdated", p)
                /\ projects'[p] = projects[p]
                /\ \A f : <<p, f>> \in stale' <=> <<p, f>> \in stale
  BY ProjectKept
<1>. HIDE DEF Follows
<1>. QED BY <1>8, <1>9, <1>10, <1>11, <1>12, <1>13, Zenon

\* and for versions.
LEMMA IndexerVersion ==
    ASSUME IInv, NEW e, IndexerStep(e), NEW p \in Profiles, Exists(p)', p \notin damaged'
    PROVE  VersionBehindOf(p)'
<1>1. /\ e = feed[1] /\ 1 \in DOMAIN feed /\ e \in Feedable
      /\ Exists(p) /\ p \notin damaged /\ Sound(p) /\ p \in Entities
  BY IndexerFacts, RoleFacts DEF IInv, Sound
<1>2. PICK h : /\ History(h, Nat, VersionMoves(p)) /\ h[Len(feed)] = profile[p].version
               /\ <<p, "anchor">> \notin stale =>
                     IF p \in created THEN projects[p].anchor = Anchor(p, h[0]) ELSE h[0] = 0
  BY <1>1 DEF IInv, VersionBehind, VersionBehindOf
<1>3. PICK g : /\ <<h[0], e, g[0]>> \in VersionMoves(p) /\ h[0] \in Nat /\ g[0] \in Nat
               /\ g[Len(feed')] = h[Len(feed)] /\ History(g, Nat, VersionMoves(p))'
  BY <1>1, <1>2, HistoryShrinks DEF IInv, IndexerStep
<1>4. VersionMove(p, h[0], e, g[0])
  BY <1>1, <1>3, MovesDef
<1>5. profile' = profile
  BY DEF IndexerStep, ContractsKept
<1>. DEFINE Follows ==
        <<p, "anchor">> \notin stale' =>
           IF p \in created' THEN projects'[p].anchor = Anchor(p, g[0]) ELSE g[0] = 0
<1>6. ASSUME ~About(e, "ProfileNameUpdated", p), p \in created' <=> p \in created,
             <<p, "anchor">> \in stale' <=> <<p, "anchor">> \in stale,
             \/ projects'[p] = projects[p]
             \/ p \in created => projects'[p].anchor = projects[p].anchor
      PROVE  Follows
  <2>1. g[0] = h[0]
    BY <1>4, <1>6 DEF VersionMove
  <2>. QED BY <1>2, <1>6, <2>1
<1>7. ASSUME About(e, "ProfileNameUpdated", p) PROVE p \in created /\ g[0] = e.data /\ e.data \in Nat
  <2>1. LaterAt(1, p)
    BY <1>1, <1>7 DEF LaterAt, DataAt, About, ProfileTypes
  <2>2. p \in created
    BY <1>1, <2>1, CreatedBefore
  <2>3. g[0] = e.data
    BY <1>4, <1>7 DEF VersionMove
  <2>. QED BY <1>3, <2>2, <2>3
<1>8. CASE e.type = "created" /\ e.role.of = p /\ p \notin created /\ p \in created'
           /\ projects'[p] = NewRow(p) /\ stale' = stale
  <2>1. g[0] = h[0]
    BY <1>4, <1>8 DEF VersionMove, About
  <2>2. Follows
    BY <1>2, <1>8, <2>1, RowFacts
  <2>. QED BY <1>2, <1>3, <1>5, <2>2 DEF VersionBehindOf
<1>9. CASE /\ p \in created' <=> p \in created
           /\ \/ projects'[p] = projects[p] /\ stale' = stale /\ ~About(e, "ProfileNameUpdated", p)
              \/ About(e, "ProfileMetadataUpdated", p) /\ DocumentEffect(e)
              \/ About(e, "ProfileMetadataUpdated", p) /\ projects'[p] = projects[p]
                 /\ stale' = stale \cup {<<p, "doc">>}
              \/ /\ ~About(e, "ProfileNameUpdated", p) /\ ~About(e, "ProfileMetadataUpdated", p)
                 /\ projects'[p] = projects[p]
                 /\ \A f : <<p, f>> \in stale' <=> <<p, f>> \in stale
  <2>1. ~About(e, "ProfileNameUpdated", p)
    BY <1>9 DEF About
  <2>2. <<p, "doc">> # <<p, "anchor">>
    OBVIOUS
  <2>3. <<p, "anchor">> \in stale' <=> <<p, "anchor">> \in stale
    BY <1>9, <2>2 DEF DocumentEffect, About
  <2>4. \/ projects'[p] = projects[p]
        \/ p \in created => projects'[p].anchor = projects[p].anchor
    <3>1. CASE About(e, "ProfileMetadataUpdated", p) /\ DocumentEffect(e)
      <4>1. e.about = p /\ e.data \in Documents
        BY <1>1, <3>1 DEF About, Feedable, RoleEvents, DataEvents, RoleTypes
      <4>2. projects[p] = Null => projects'[p] = projects[p]
        BY <3>1, <4>1 DEF DocumentEffect, Update
      <4>3. projects[p] # Null => projects'[p] = Described(projects[p], e.data)
        BY <3>1, <4>1 DEF DocumentEffect, Update, IInv, TypeOK
      <4>. QED BY <4>1, <4>2, <4>3, RowFacts
    <3>. QED BY <1>9, <3>1
  <2>5. Follows
    BY <1>6, <1>9, <2>1, <2>3, <2>4
  <2>. QED BY <1>2, <1>3, <1>5, <2>5 DEF VersionBehindOf
<1>10. CASE About(e, "ProfileNameUpdated", p) /\ NameEffect(e) /\ (p \in created' <=> p \in created)
  <2>1. projects[p] # Null /\ e.about = p
    BY <1>7, <1>10 DEF About, IInv, RowsOfProjects
  <2>2. projects'[p] = Renamed(projects[p], e.data)
    BY <1>10, <2>1 DEF NameEffect, Update, IInv, TypeOK
  <2>3. Follows
    BY <1>7, <1>10, <2>1, <2>2, RowFacts
  <2>. QED BY <1>2, <1>3, <1>5, <2>3 DEF VersionBehindOf
<1>11. CASE stale' = stale \cup {<<p, "anchor">>}
  <2>1. Follows
    BY <1>11
  <2>. QED BY <1>2, <1>3, <1>5, <2>1 DEF VersionBehindOf
<1>12. ASSUME About(e, "ProfileNameUpdated", p), projects'[p] = projects[p], stale' = stale
       PROVE  NameEffect(e) \/ stale' = stale \cup {<<p, "anchor">>}
  <2>1. e.type = "ProfileNameUpdated" /\ e.about = p
    BY <1>12 DEF About
  <2>2. e \notin RoleEvents
    BY <2>1 DEF RoleEvents, RoleTypes
  <2>3. NameEffect(e) \/ LostData(e)
    BY <2>1, <2>2 DEF IndexerStep, Handled, Refused, LostRole, DataTaken, DocumentEffect, AttestEffect
  <2>. QED BY <2>1, <2>3 DEF LostData
<1>13. \/ e.type = "created" /\ e.role.of = p /\ p \notin created /\ p \in created'
          /\ projects'[p] = NewRow(p) /\ stale' = stale
       \/ /\ p \in created' <=> p \in created
          /\ \/ projects'[p] = projects[p] /\ stale' = stale
             \/ About(e, "ProfileNameUpdated", p) /\ NameEffect(e)
             \/ About(e, "ProfileMetadataUpdated", p) /\ DocumentEffect(e)
             \/ About(e, "ProfileNameUpdated", p) /\ projects'[p] = projects[p]
                /\ stale' = stale \cup {<<p, "anchor">>}
             \/ About(e, "ProfileMetadataUpdated", p) /\ projects'[p] = projects[p]
                /\ stale' = stale \cup {<<p, "doc">>}
             \/ /\ ~About(e, "ProfileNameUpdated", p) /\ ~About(e, "ProfileMetadataUpdated", p)
                /\ projects'[p] = projects[p]
                /\ \A f : <<p, f>> \in stale' <=> <<p, f>> \in stale
  BY ProjectKept
<1>. HIDE DEF Follows
<1>. QED BY <1>8, <1>9, <1>10, <1>11, <1>12, <1>13, Zenon

\* An attestation is stored with all its transactions, refused or lost.
LEMMA IndexerAttestations ==
    ASSUME IInv, NEW e, IndexerStep(e)
    PROVE  AttestationsBehind'
<1>. DEFINE n == Len(feed)
            m == Len(feed')
<1>0. /\ DOMAIN feed = 1..n /\ DOMAIN feed' = 1..m /\ 1 \in 1..n /\ n \in Nat \ {0} /\ m \in Nat /\ m = n - 1
      /\ \A i \in 1..m : i + 1 \in 1..n /\ feed'[i] = feed[i + 1]
  BY TakenPlaces DEF IInv, IndexerStep
<1>. HIDE DEF n, m
<1>1. /\ DOMAIN feed = 1..n /\ DOMAIN feed' = 1..m /\ 1 \in 1..n /\ n \in Nat /\ m \in Nat /\ m = n - 1
      /\ \A i \in 1..m : i + 1 \in 1..n /\ i + 1 # 1 /\ feed'[i] = feed[i + 1]
      /\ \A i \in 1..n : i # 1 => i - 1 \in 1..m /\ i - 1 + 1 = i
  BY <1>0
<1>. USE DEF n, m
<1>2. \A i \in 1..m : \A u : AttestedAt(i, u)' <=> AttestedAt(i + 1, u)
  BY TakenAt DEF IInv, IndexerStep
<1>3. e = feed[1] /\ e \in Feedable
  BY IndexerFacts DEF IInv
<1>4. attested' = attested
  BY DEF IndexerStep, ContractsKept
<1>. HIDE DEF n, m
<1>. DEFINE Kept(u) ==
             /\ {t \in txns' : t[1] = u} =
                    IF u \in attestations' THEN {<<u, t>> : t \in ToSet(attested[u])} ELSE {}
             /\ u \in attestations' => attested[u] # Null /\ NoDuplicates(attested[u])
             /\ u \in missing' => attested[u] # Null
             /\ \A i \in 1..m : AttestedAt(i, u)' =>
                   /\ feed'[i].data = attested[u] /\ attested[u] # Null
                   /\ u \notin attestations' /\ u \notin missing'
                   /\ \A j \in 1..m : AttestedAt(j, u)' => j = i
             /\ attested[u] # Null /\ NoDuplicates(attested[u]) =>
                   u \in attestations' \/ u \in missing' \/ \E i \in 1..m : AttestedAt(i, u)'
<1>5. ASSUME NEW u \in Uids
      PROVE  /\ {t \in txns : t[1] = u} =
                    IF u \in attestations THEN {<<u, t>> : t \in ToSet(attested[u])} ELSE {}
             /\ u \in attestations => attested[u] # Null /\ NoDuplicates(attested[u])
             /\ u \in missing => attested[u] # Null
             /\ \A i \in 1..n : AttestedAt(i, u) =>
                   /\ feed[i].data = attested[u] /\ attested[u] # Null
                   /\ u \notin attestations /\ u \notin missing
                   /\ \A j \in 1..n : AttestedAt(j, u) => j = i
             /\ attested[u] # Null /\ NoDuplicates(attested[u]) =>
                   u \in attestations \/ u \in missing \/ \E i \in 1..n : AttestedAt(i, u)
  BY <1>1 DEF IInv, AttestationsBehind
<1>6. ASSUME NEW u \in Uids, ~About(e, "OnAttested", u),
             u \in attestations' <=> u \in attestations, u \in missing' <=> u \in missing,
             {t \in txns' : t[1] = u} = {t \in txns : t[1] = u}
      PROVE  Kept(u)
  <2>1. ~AttestedAt(1, u)
    BY <1>3, <1>6 DEF AttestedAt, About
  <2>2. \A i \in 1..m : AttestedAt(i, u)' =>
           /\ feed'[i].data = attested[u] /\ attested[u] # Null
           /\ u \notin attestations' /\ u \notin missing'
           /\ \A j \in 1..m : AttestedAt(j, u)' => j = i
    <3>. TAKE i \in 1..m
    <3>. HAVE AttestedAt(i, u)'
    <3>1. i + 1 \in 1..n /\ AttestedAt(i + 1, u) /\ feed'[i] = feed[i + 1]
      BY <1>1, <1>2
    <3>2. \A j \in 1..m : AttestedAt(j, u)' => j + 1 = i + 1
      BY <1>1, <1>2, <1>5, <3>1
    <3>3. \A j \in 1..m : j + 1 = i + 1 => j = i
      BY <1>1
    <3>. QED BY <1>5, <1>6, <3>1, <3>2, <3>3
  <2>3. (\E i \in 1..n : AttestedAt(i, u)) => \E i \in 1..m : AttestedAt(i, u)'
    <3>. SUFFICES ASSUME NEW i \in 1..n, AttestedAt(i, u) PROVE \E j \in 1..m : AttestedAt(j, u)'
      OBVIOUS
    <3>1. i - 1 \in 1..m /\ i - 1 + 1 = i
      BY <1>1, <2>1
    <3>. QED BY <1>2, <3>1
  <2>. QED BY <1>5, <1>6, <2>2, <2>3
<1>7. ASSUME NEW u \in Uids, About(e, "OnAttested", u), AttestEffect(e)
      PROVE  Kept(u)
  <2>1. e.type = "OnAttested" /\ e.about = u /\ AttestedAt(1, u)
    BY <1>3, <1>7 DEF AttestedAt, About
  <2>2. /\ e.data = attested[u] /\ attested[u] # Null /\ u \notin attestations /\ u \notin missing
        /\ \A j \in 1..n : AttestedAt(j, u) => j = 1
        /\ {t \in txns : t[1] = u} = {}
    BY <1>1, <1>3, <1>5, <2>1
  <2>3. \A i \in 1..m : ~AttestedAt(i, u)'
    BY <1>1, <1>2, <2>2
  <2>4. CASE Listed(e.data)
    <3>1. /\ attestations' = attestations \cup {u} /\ missing' = missing
          /\ txns' = txns \cup {<<u, t>> : t \in ToSet(e.data)} /\ NoDuplicates(attested[u])
      BY <1>7, <2>1, <2>2, <2>4 DEF AttestEffect, InsertAttestation, Listed
    <3>2. {t \in txns' : t[1] = u} = {<<u, t>> : t \in ToSet(attested[u])}
      BY <2>2, <3>1
    <3>. QED BY <2>2, <2>3, <3>1, <3>2
  <2>5. CASE ~Listed(e.data)
    <3>1. attestations' = attestations /\ txns' = txns /\ missing' = missing /\ ~NoDuplicates(attested[u])
      BY <1>7, <2>2, <2>5 DEF AttestEffect, Listed
    <3>. QED BY <2>2, <2>3, <3>1
  <2>. QED BY <2>4, <2>5
<1>8. ASSUME NEW u \in Uids, About(e, "OnAttested", u), LostData(e)
      PROVE  Kept(u)
  <2>1. e.type = "OnAttested" /\ e.about = u /\ AttestedAt(1, u)
    BY <1>3, <1>8 DEF AttestedAt, About
  <2>2. /\ attested[u] # Null /\ u \notin attestations
        /\ \A j \in 1..n : AttestedAt(j, u) => j = 1
        /\ {t \in txns : t[1] = u} = {}
    BY <1>1, <1>5, <2>1
  <2>3. \A i \in 1..m : ~AttestedAt(i, u)'
    BY <1>1, <1>2, <2>2
  <2>4. u \in missing' /\ attestations' = attestations /\ txns' = txns
    BY <1>8, <2>1 DEF LostData
  <2>. QED BY <2>2, <2>3, <2>4
<1>. HIDE DEF Kept
<1>9. ASSUME NEW u \in Uids PROVE Kept(u)
  <2>1. CASE About(e, "OnAttested", u)
    <3>1. e.type = "OnAttested"
      BY <2>1 DEF About
    <3>2. AttestEffect(e) \/ LostData(e)
      BY <3>1 DEF IndexerStep, Handled, Refused, LostRole, DataTaken, NameEffect, DocumentEffect,
                  RoleEvents, RoleTypes
    <3>. QED BY <1>7, <1>8, <2>1, <3>2
  <2>2. CASE ~About(e, "OnAttested", u)
    <3>1. CASE AttestEffect(e) /\ Listed(e.data)
      <4>1. /\ e.about # u /\ missing' = missing /\ attestations' = attestations \cup {e.about}
            /\ txns' = txns \cup {<<e.about, t>> : t \in ToSet(e.data)}
        BY <2>2, <3>1 DEF AttestEffect, InsertAttestation, About
      <4>2. {t \in txns' : t[1] = u} = {t \in txns : t[1] = u}
        BY <4>1
      <4>. QED BY <1>6, <2>2, <4>1, <4>2
    <3>2. CASE attestations' = attestations /\ txns' = txns /\ (u \in missing' <=> u \in missing)
      BY <1>6, <2>2, <3>2
    <3>3. LostData(e) => attestations' = attestations /\ txns' = txns /\ (u \in missing' <=> u \in missing)
      BY <2>2 DEF LostData, About
    <3>. QED BY <3>1, <3>2, <3>3 DEF IndexerStep, Handled, Refused, LostRole, DataTaken, NameEffect,
                                     DocumentEffect, AttestEffect
  <2>. QED BY <2>1, <2>2
<1>. QED BY <1>1, <1>4, <1>9 DEF AttestationsBehind, Kept

\* A step of the indexer preserves the invariant.
LEMMA IndexerPreserves ==
    ASSUME IInv, NEW e, IndexerStep(e)
    PROVE  IInv'
<1>1. TypeOK'
  BY IndexerTypes DEF IInv
<1>2. RolesBehind'
  BY IndexerRoles DEF RolesBehind
<1>3. OwnerBehind'
  BY IndexerOwner DEF OwnerBehind
<1>4. DocumentBehind'
  BY IndexerDocument DEF DocumentBehind
<1>5. VersionBehind'
  BY IndexerVersion DEF VersionBehind
<1>. QED BY <1>1, <1>2, <1>3, <1>4, <1>5, IndexerOrder, IndexerParks, IndexerRows, IndexerAttestations
         DEF IInv
-----------------------------------------------------------------------------
(* The invariant. *)

\* The invariant holds at the start,
LEMMA InitOK == RegistryInit => IInv
<1>. SUFFICES ASSUME RegistryInit PROVE IInv
  OBVIOUS
<1>1. /\ owner = [p \in Profiles |-> NoAccount] /\ pools = {} /\ holders = {} /\ feed = <<>>
      /\ created = {} /\ rows = {} /\ pending = [r \in Grantable |-> 0] /\ damaged = {}
      /\ profile = [p \in Profiles |-> [version |-> 0, doc |-> Null, first |-> Null]]
      /\ attested = [u \in Uids |-> Null] /\ projects = [p \in Profiles |-> Null]
      /\ attestations = {} /\ txns = {} /\ stale = {} /\ missing = {}
  BY DEF RegistryInit, Init, Grantable
<1>2. Len(feed) = 0 /\ DOMAIN feed = {} /\ feed \in Seq(RoleEvents \cup DataEvents)
  BY <1>1
<1>3. \A x \in Entities : ~Exists(x)
  BY <1>1 DEF Exists
<1>4. TypeOK
  BY <1>1, <1>2 DEF TypeOK
<1>5. NothingBefore /\ RowsOfCreated
  <2>1. \A x \in Entities : PendingRows(x) = {} /\ Held(x) = {} /\ Stored(x) = {}
    BY <1>1, RoleFacts DEF PendingRows, Held, Stored
  <2>. QED BY <1>1, <1>2, <1>3, <2>1 DEF NothingBefore, RowsOfCreated
<1>6. CreatedOnce /\ ParkedOnce
  BY <1>1, <1>2 DEF CreatedOnce, ParkedOnce
<1>7. Arrives /\ RolesBehind /\ OwnerBehind /\ DocumentBehind /\ VersionBehind
  BY <1>3, RoleFacts DEF Arrives, RolesBehind, OwnerBehind, DocumentBehind, VersionBehind
<1>8. RowsOfProjects /\ AttestationsBehind
  BY <1>1, <1>2 DEF RowsOfProjects, AttestationsBehind
<1>. QED BY <1>4, <1>5, <1>6, <1>7, <1>8 DEF IInv

\* when nothing changes,
LEMMA StutterOK ==
    ASSUME IInv, UNCHANGED allVars
    PROVE  IInv'
<1>1. UNCHANGED <<owner, pools, holders, feed, created, rows, pending, damaged,
                  profile, attested, projects, attestations, txns, stale, missing>>
  BY DEF allVars, vars, chainVars, dbVars, dataVars
<1>2. \A x : /\ Exists(x)' <=> Exists(x)
             /\ Sound(x)' <=> Sound(x)
             /\ PendingRows(x)' = PendingRows(x)
             /\ Held(x)' = Held(x)
             /\ Stored(x)' = Stored(x)
             /\ Has(x)' = Has(x)
  BY <1>1 DEF Exists, Sound, PendingRows, Held, Stored, Has
<1>3. TypeOK'
  BY <1>1, <1>2 DEF IInv, TypeOK, Fits
<1>4. NothingBefore'
  BY <1>1, <1>2 DEF IInv, NothingBefore, RoleAt, DataAt
<1>5. CreatedOnce'
  BY <1>1, <1>2 DEF IInv, CreatedOnce, CreatedAt, LaterAt, RoleAt, DataAt
<1>6. RowsOfCreated'
  BY <1>1, <1>2 DEF IInv, RowsOfCreated
<1>7. ParkedOnce'
  BY <1>1, <1>2 DEF IInv, ParkedOnce, CreatedAt, GrantedAt
<1>8. Arrives'
  BY <1>1, <1>2 DEF IInv, Arrives, CreatedAt
<1>9. RolesBehind'
  BY <1>1, <1>2 DEF IInv, RolesBehind, RolesBehindOf, History
<1>10. OwnerBehind'
  BY <1>1, <1>2 DEF IInv, OwnerBehind, OwnerBehindOf, History
<1>11. DocumentBehind'
  BY <1>1, <1>2 DEF IInv, DocumentBehind, DocumentBehindOf, History
<1>12. VersionBehind'
  BY <1>1, <1>2 DEF IInv, VersionBehind, VersionBehindOf, History
<1>13. RowsOfProjects'
  BY <1>1, <1>2 DEF IInv, RowsOfProjects
<1>14. AttestationsBehind'
  BY <1>1, <1>2 DEF IInv, AttestationsBehind, AttestedAt
<1>. QED BY <1>3, <1>4, <1>5, <1>6, <1>7, <1>8, <1>9, <1>10, <1>11, <1>12, <1>13, <1>14 DEF IInv

\* and after every step,
LEMMA NextOK ==
    ASSUME IInv, RegistryNext
    PROVE  IInv'
<1>1. TypeOK
  BY DEF IInv
<1>2. ASSUME NEW p \in Profiles, CreateWith(p) PROVE IInv'
  <2>1. PICK es, R, c : CreationStep(p, es, R, c)
    BY <1>1, <1>2, CreateWithKind
  <2>2. p \in Entities /\ TypeOK'
    <3>1. p \in Entities
      BY RoleFacts
    <3>2. /\ owner' \in [Profiles -> Accounts \cup {NoAccount}] /\ pools' \subseteq Pools
      BY <1>1, <1>2 DEF CreateWith, CreateProfile, TypeOK
    <3>. DEFINE D == Documents \cup {Null}
                P == [version : Nat, doc : D, first : D]
    <3>3. PICK d \in Documents : profile' = [profile EXCEPT ![p].doc = d, ![p].first = d]
      BY <1>2 DEF CreateWith
    <3>4. profile \in [Profiles -> P]
      BY <1>1 DEF TypeOK
    <3>5. profile' \in [Profiles -> P]
      BY <3>3, <3>4
    <3>. QED BY <1>1, <2>1, <3>1, <3>2, <3>5, CreationTypes
  <2>. QED BY <2>1, <2>2, CreationPreserves
<1>3. ASSUME NEW q \in Pools, CreatePool(q), UNCHANGED dataVars PROVE IInv'
  <2>1. PICK es, R, c : CreationStep(q, es, R, c)
    BY <1>1, <1>3, CreatePoolKind
  <2>2. q \in Entities /\ TypeOK'
    <3>1. q \in Entities
      BY RoleFacts
    <3>2. /\ owner' \in [Profiles -> Accounts \cup {NoAccount}] /\ pools' \subseteq Pools
          /\ profile' \in [Profiles -> [version : Nat, doc : Documents \cup {Null}, first : Documents \cup {Null}]]
      BY <1>1, <1>3 DEF CreatePool, TypeOK, dataVars
    <3>. QED BY <1>1, <2>1, <3>1, <3>2, CreationTypes
  <2>. QED BY <2>1, <2>2, CreationPreserves
<1>4. ASSUME \/ \E x \in Entities : GrantRole(x)
             \/ RevokeRole
             \/ \E p \in Profiles : ChangeOwner(p),
             UNCHANGED dataVars
      PROVE  IInv'
  BY <1>1, <1>4, RoleCallKinds, OnePreserves
<1>5. ASSUME \/ \E p \in Profiles : Rename(p) \/ SetDocument(p) \/ Apply(p)
             \/ \E u \in Uids : Attest(u)
      PROVE  IInv'
  BY <1>1, <1>5, DataCallKinds, OnePreserves
<1>6. ASSUME HandleRoleEvent \/ RoleEventNotHandled PROVE IInv'
  BY <1>1, <1>6, RoleStepKinds, IndexerPreserves
<1>7. ASSUME \/ ProfileNameUpdated \/ ProfileMetadataUpdated \/ Registered \/ OnAttested
             \/ DataEventLost
      PROVE  IInv'
  BY <1>1, <1>7, DataStepKinds, IndexerPreserves
<1>. QED BY <1>2, <1>3, <1>4, <1>5, <1>6, <1>7 DEF RegistryNext

\* so it always holds.
LEMMA Inductive == RegistrySpec => []IInv
<1>1. IInv /\ [RegistryNext]_allVars => IInv'
  BY NextOK, StutterOK
<1>. QED BY InitOK, <1>1, PTL DEF RegistrySpec
-----------------------------------------------------------------------------
(* What the runs check. *)

\* A role is never pending for a profile or pool that is stored: the handlers
\* of RoleGranted park a role only before the creation, which takes them all.
THEOREM NoRoleForgotten == RegistrySpec => []PendingIsAwaited
<1>1. IInv => PendingIsAwaited
  BY DEF IInv, TypeOK, RowsOfCreated, PendingIsAwaited
<1>. QED BY <1>1, Inductive, PTL

\* A chain that is caught up with is stored, unless the creation was lost.
LEMMA CaughtIsCreated ==
    ASSUME IInv, NEW x \in Entities, Caught(x)
    PROVE  x \in created /\ Exists(x) /\ x \notin damaged /\ Len(feed) = 0
<1>1. Exists(x) /\ Sound(x) /\ feed = <<>> /\ x \notin damaged
  BY DEF Caught, Sound
<1>2. Len(feed) = 0 /\ DOMAIN feed = {}
  BY <1>1
<1>. QED BY <1>1, <1>2 DEF IInv, Arrives

\* Once caught up with, a pool has the roles of the contract, whatever the order
\* of its grants, revocations and creation, and whatever is lost of other pools.
THEOREM PoolRoles == RegistrySpec => []PoolRolesFollow
<1>1. ASSUME IInv, NEW q \in Pools, Caught(q) PROVE q \in created /\ Stored(q) = Held(q)
  <2>1. q \in Entities /\ q \notin Profiles /\ \A r \in RolesOf(q) : r.of = q
    BY RoleFacts
  <2>2. q \in created /\ Exists(q) /\ q \notin damaged /\ Len(feed) = 0
    BY <1>1, <2>1, CaughtIsCreated
  <2>3. PICK h : h[Len(feed)] = Held(q) /\ Has(q) \subseteq h[0] /\ h[0] \subseteq Has(q)
    BY <1>1, <2>1, <2>2 DEF IInv, RolesBehind, RolesBehindOf
  <2>4. Has(q) = Held(q)
    BY <2>2, <2>3
  <2>5. PendingRows(q) = {}
    BY <1>1, <2>1, <2>2 DEF IInv, RowsOfCreated
  <2>6. \A r \in rows : r.of = q => r \in RolesOf(q)
    BY <1>1, <2>1 DEF IInv, TypeOK
  <2>7. Has(q) = Stored(q)
    BY <2>1, <2>5, <2>6 DEF Has, Stored, PendingRows
  <2>. QED BY <2>2, <2>4, <2>7
<1>2. IInv => PoolRolesFollow
  BY <1>1 DEF PoolRolesFollow
<1>. QED BY <1>2, Inductive, PTL

\* Once caught up with, a profile has its owner, alone, and no member the
\* contract does not know, though a revocation deletes more than it should.
THEOREM ProfileRoles == RegistrySpec => []ProfileRolesSound
<1>1. ASSUME IInv, NEW p \in Profiles, Caught(p)
      PROVE  /\ p \in created
             /\ {r \in Stored(p) : r.kind = "owner"} = {Role("owner", p, owner[p])}
             /\ {r \in Stored(p) : r.kind = "member"} \subseteq Held(p)
  <2>1. p \in Entities
    BY RoleFacts
  <2>2. p \in created /\ Exists(p) /\ p \notin damaged /\ Len(feed) = 0
    BY <1>1, <2>1, CaughtIsCreated
  <2>3. {r \in Stored(p) : r.kind = "owner"} = {Role("owner", p, owner[p])}
    <3>1. PICK h : /\ h[Len(feed)] = owner[p]
                   /\ {r \in Stored(p) : r.kind = "owner"} = {Role("owner", p, h[0])}
      BY <1>1, <2>2 DEF IInv, OwnerBehind, OwnerBehindOf
    <3>. QED BY <2>2, <3>1
  <2>4. PICK h : h[Len(feed)] = Held(p) /\ Has(p) \subseteq h[0]
    BY <1>1, <2>1, <2>2 DEF IInv, RolesBehind, RolesBehindOf
  <2>5. \A r \in Stored(p) : r.kind = "member" => r \in Has(p)
    BY <1>1 DEF IInv, TypeOK, Stored, Has
  <2>. QED BY <2>2, <2>3, <2>4, <2>5
<1>2. IInv => ProfileRolesSound
  BY <1>1 DEF ProfileRolesSound
<1>. QED BY <1>2, Inductive, PTL

\* Once caught up with, the document and the type of a project are those of the
\* contract, if the last update of its document was not lost.
THEOREM ProjectDocument == RegistrySpec => []DocumentFollows
<1>1. ASSUME IInv, NEW p \in Profiles, Caught(p), <<p, "doc">> \notin stale
      PROVE  /\ projects[p].metadata = IF Usable(profile[p].doc) THEN profile[p].doc ELSE Null
             /\ projects[p].type = TypeOf(profile[p].doc)
  <2>1. p \in created /\ Exists(p) /\ p \notin damaged /\ Len(feed) = 0
    BY <1>1, RoleFacts, CaughtIsCreated
  <2>2. PICK h : /\ h[Len(feed)] = profile[p].doc
                 /\ projects[p].metadata = IF Usable(h[0]) THEN h[0] ELSE Null
                 /\ projects[p].type = TypeOf(h[0])
    BY <1>1, <2>1 DEF IInv, DocumentBehind, DocumentBehindOf
  <2>. QED BY <2>1, <2>2
<1>2. IInv => DocumentFollows
  BY <1>1 DEF DocumentFollows
<1>. QED BY <1>2, Inductive, PTL

\* A registration finds the profile whose anchor it carries and no other, even
\* if a change of name that replaces that anchor follows in the feed.
THEOREM RegistrationFindsProfile == RegistrySpec => []AnchorFindsProfile
<1>1. ASSUME IInv, feed # <<>>, ~RoleEvent, Head(feed).type = "Registered"
      PROVE  LET p == Head(feed).about IN
             p \notin damaged /\ <<p, "anchor">> \notin stale => ByAnchor(Head(feed).data) = {p}
  <2>1. feed \in Seq(Feedable) /\ DOMAIN feed = 1..Len(feed) /\ Len(feed) \in Nat
        /\ \A i \in DOMAIN feed : feed[i] \in Feedable
    BY <1>1, FeedDomain DEF IInv, TypeOK, Feedable
  <2>2. 1 \in DOMAIN feed /\ Head(feed) = feed[1]
    BY <1>1, <2>1, EmptySeq
  <2>. DEFINE e == feed[1]
              p == e.about
  <2>3. e \in Feedable /\ e.type = "Registered"
    BY <1>1, <2>1, <2>2
  <2>4. p \in Profiles /\ p \in Entities
    BY <2>3, RoleFacts DEF Feedable, RoleEvents, DataEvents, RoleTypes
  <2>5. LaterAt(1, p)
    BY <2>3 DEF LaterAt, DataAt, ProfileTypes
  <2>6. Exists(p)
    BY <1>1, <2>2, <2>4, <2>5, EventOfExisting DEF IInv
  <2>7. SUFFICES ASSUME p \notin damaged, <<p, "anchor">> \notin stale PROVE ByAnchor(e.data) = {p}
    BY <2>2
  <2>8. p \in created
    BY <1>1, <2>2, <2>4, <2>5, <2>6, <2>7, CreatedBefore DEF Sound
  <2>9. PICK h : History(h, Nat, VersionMoves(p)) /\ projects[p].anchor = Anchor(p, h[0])
    BY <1>1, <2>4, <2>6, <2>7, <2>8 DEF IInv, VersionBehind, VersionBehindOf
  <2>10. <<h[0], e, h[1]>> \in VersionMoves(p) /\ h[0] \in Nat /\ h[1] \in Nat
    <3>1. 1 \in 1..Len(feed) /\ 1 - 1 = 0 /\ 0 \in 0..Len(feed) /\ 1 \in 0..Len(feed)
      BY <2>1, <2>2
    <3>. QED BY <2>9, <3>1 DEF History
  <2>11. VersionMove(p, h[0], e, h[1])
    BY <2>3, <2>10, MovesDef
  <2>12. e.data = Anchor(p, h[0])
    BY <2>3, <2>11 DEF VersionMove, About
  <2>13. projects[p] # Null
    BY <1>1, <2>4, <2>8 DEF IInv, RowsOfProjects
  <2>14. \A y \in Profiles : projects[y] # Null => projects[y].anchor.of = y
    BY <1>1 DEF IInv, TypeOK, Row
  <2>15. \A y \in Profiles : projects[y] # Null /\ projects[y].anchor = e.data => y = p
    BY <2>12, <2>14 DEF Anchor
  <2>. HIDE DEF e, p
  <2>. QED BY <2>4, <2>9, <2>12, <2>13, <2>15 DEF ByAnchor
<1>2. IInv => AnchorFindsProfile
  BY <1>1 DEF AnchorFindsProfile
<1>. QED BY <1>2, Inductive, PTL

\* An attestation is stored with all its transactions or not at all, and is
\* stored unless it was lost or lists a transaction twice.
THEOREM AttestationsStored == RegistrySpec => []AttestationsWhole
<1>1. ASSUME IInv, feed = <<>> PROVE DOMAIN feed = {}
  BY <1>1
<1>2. IInv => AttestationsWhole
  BY <1>1 DEF IInv, AttestationsBehind, AttestationsWhole
<1>. QED BY <1>2, Inductive, PTL

\* deleteManyProjectRoles takes an "optional address to further filter the roles
\* to delete", and does not use it: the RoleRevoked of one member leaves its
\* profile without any member row, those of members the contract still has
\* included, in whatever state it is handled.
THEOREM RevocationTakesAll ==
    RegistrySpec =>
        [][HandleRoleEvent /\ Head(feed).type = "revoked" /\ Head(feed).role.of \in Profiles
           => \A a \in Accounts : Role("member", Head(feed).role.of, a) \notin rows']_allVars
<1>1. ASSUME HandleRoleEvent, Head(feed).type = "revoked", Head(feed).role.of \in Profiles,
             NEW a \in Accounts
      PROVE  Role("member", Head(feed).role.of, a) \notin rows'
  <2> DEFINE r == Head(feed).role
  <2>1. Handler(Head(feed)) /\ r.of \notin Pools
    BY <1>1, RolesAssumption DEF HandleRoleEvent, HandleEvent
  <2>2. RegistryRoleRevoked(r)
    BY <1>1, <2>1 DEF Handler
  <2>. QED BY <2>2 DEF RegistryRoleRevoked, DeleteRoles, RevokedMembers, Role
<1>2. [RegistryNext]_allVars =>
        [HandleRoleEvent /\ Head(feed).type = "revoked" /\ Head(feed).role.of \in Profiles
         => \A a \in Accounts : Role("member", Head(feed).role.of, a) \notin rows']_allVars
  BY <1>1
<1>. QED BY <1>2, PTL DEF RegistrySpec
=============================================================================
