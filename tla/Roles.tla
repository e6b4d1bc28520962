-------------------------------- MODULE Roles --------------------------------
(***************************************************************************)
(* Who may manage a profile or a pool: the handlers of the Registry events *)
(* RoleGranted, RoleRevoked, ProfileCreated and ProfileOwnerUpdated and of *)
(* the Allo events RoleGranted, RoleRevoked and PoolCreated, down to the   *)
(* rows their changesets insert and delete.                                *)
(*                                                                         *)
(* The contracts emit the roles of a new profile or pool before its own    *)
(* event, so the handlers park them as pending roles until it comes.  The  *)
(* events of a chain are handled one by one, in order; one whose handler   *)
(* or transaction fails is given up (module Orchestrator).                 *)
(*                                                                         *)
(* A role is [kind, of, account]: kind "member" is the role of profile     *)
(* `of', "admin" and "manager" those of pool `of'.  project_roles and      *)
(* round_roles are one set of such rows, as are the two pending tables,    *)
(* where a role may have several rows, one number of rows for each role.   *)
(***************************************************************************)
EXTENDS Naturals, Sequences, FiniteSets, Functions

CONSTANTS
    Accounts, Profiles, Pools,
    ProfileOf,   \* the profile that owns each pool
    NoAccount,
    MaxMembers,  \* bound: members or managers of one creation
    MaxCalls,    \* bound: calls of the contracts
    MaxLost      \* bound: events lost

ASSUME RolesAssumption ==
    /\ ProfileOf \in [Pools -> Profiles]
    /\ Profiles \cap Pools = {}
    /\ IsFiniteSet(Accounts) /\ NoAccount \notin Accounts
    /\ MaxMembers \in Nat /\ MaxCalls \in Nat /\ MaxLost \in Nat

Entities == Profiles \cup Pools
KindsOf(x) == IF x \in Profiles THEN {"member"} ELSE {"admin", "manager"}
Role(k, x, a) == [kind |-> k, of |-> x, account |-> a]
RolesOf(x) == {Role(k, x, a) : k \in KindsOf(x), a \in Accounts}
Event(t, r) == [type |-> t, role |-> r]

VARIABLES
    owner,     \* contracts: owner of each profile, NoAccount if there is none
    pools,     \* contracts: pools that exist
    holders,   \* contracts: roles held
    feed,      \* events emitted and not handled yet
    created,   \* projects and rounds tables
    rows,      \* project_roles and round_roles tables
    pending,   \* pending_project_roles and pending_round_roles tables
    damaged,   \* history: profiles and pools an event was lost of
    calls, lost

chainVars == <<owner, pools, holders>>
dbVars    == <<created, rows, pending>>
vars      == <<chainVars, feed, dbVars, damaged, calls, lost>>

Init ==
    /\ owner = [p \in Profiles |-> NoAccount]
    /\ pools = {} /\ holders = {} /\ feed = <<>>
    /\ created = {} /\ rows = {}
    /\ pending = [r \in UNION {RolesOf(x) : x \in Entities} |-> 0]
    /\ damaged = {} /\ calls = 0 /\ lost = 0

-----------------------------------------------------------------------------
(* The contracts. *)

Exists(x) == x \in pools \/ (x \in Profiles /\ owner[x] # NoAccount)

Call(events) ==
    /\ calls < MaxCalls /\ calls' = calls + 1
    /\ feed' = feed \o events
    /\ UNCHANGED <<dbVars, damaged, lost>>

\* The events of the roles in R, in any order
Grants(R) ==
    LET Places == 1..Cardinality(R)
    IN {[i \in Places |-> Event("granted", s[i])] : s \in Bijection(Places, R)}

\* The members or managers a profile or pool is created with
Companions == {M \in SUBSET Accounts : Cardinality(M) <= MaxMembers}

CreateProfile(p) ==
    /\ ~Exists(p)
    /\ \E a \in Accounts, M \in Companions :
          LET R == {Role("member", p, m) : m \in M}
          IN /\ owner' = [owner EXCEPT ![p] = a]
             /\ holders' = holders \cup R
             /\ \E g \in Grants(R) : Call(Append(g, Event("created", Role("owner", p, a))))
    /\ UNCHANGED pools

CreatePool(q) ==
    /\ ~Exists(q) /\ Exists(ProfileOf[q])
    /\ \E a \in Accounts, M \in Companions :
          LET R == {Role("manager", q, m) : m \in M}
              admin == Role("admin", q, a)
          IN /\ holders' = holders \cup R \cup {admin}
             /\ \E g \in Grants(R) :
                   Call(<<Event("granted", admin)>> \o g \o <<Event("created", admin)>>)
    /\ pools' = pools \cup {q}
    /\ UNCHANGED owner

GrantRole(x) ==
    /\ Exists(x)
    /\ \E k \in KindsOf(x), a \in Accounts :
          /\ Role(k, x, a) \notin holders
          /\ holders' = holders \cup {Role(k, x, a)}
          /\ Call(<<Event("granted", Role(k, x, a))>>)
    /\ UNCHANGED <<owner, pools>>

RevokeRole ==
    /\ \E r \in holders :
          /\ holders' = holders \ {r}
          /\ Call(<<Event("revoked", r)>>)
    /\ UNCHANGED <<owner, pools>>

ChangeOwner(p) ==
    /\ Exists(p)
    /\ \E a \in Accounts \ {owner[p]} :
          /\ owner' = [owner EXCEPT ![p] = a]
          /\ Call(<<Event("ownerUpdated", Role("owner", p, a))>>)
    /\ UNCHANGED <<pools, holders>>

-----------------------------------------------------------------------------
(* The handlers and their transactions. *)

PendingRows(x) == {r \in RolesOf(x) : pending[r] > 0}

\* Mutant: the pending rows are left where they are.
MutantNotPendingOf(x) == pending

NotPendingOf(x) == [r \in DOMAIN pending |-> IF r.of = x THEN 0 ELSE pending[r]]

\* getProjectById, getRoundByRole
Known(x) == x \in created

InsertRole(r) == rows' = rows \cup {r} /\ UNCHANGED <<created, pending>>
Park(r)       == pending' = [pending EXCEPT ![r] = @ + 1] /\ UNCHANGED <<created, rows>>
DeleteRoles(R) == rows' = rows \ R /\ UNCHANGED <<created, pending>>

RegistryRoleGranted(r) == IF Known(r.of) THEN InsertRole(r) ELSE Park(r)

AlloRoleGranted(r) == IF Known(r.of) THEN InsertRole(r) ELSE Park(r)

\* The rows DeleteAllProjectRolesByRoleAndAddress deletes: the query builder
\* with the condition on the address is not the one that is executed.
RevokedMembers(r) == {m \in rows : m.kind = "member" /\ m.of = r.of}

RegistryRoleRevoked(r) == DeleteRoles(RevokedMembers(r))

\* Mutant: the rows of the other role of the pool go too.
MutantRevokedManagers(r) == {m \in rows : m.of = r.of /\ m.account = r.account}

RevokedManagers(r) == {m \in rows : m = r}

\* Without a round a warning is all.
AlloRoleRevoked(r) == DeleteRoles(RevokedManagers(r))

\* The profile or pool with its pending roles, in one transaction
CreateRows(x, R) ==
    /\ created' = created \cup {x}
    /\ rows' = rows \cup R \cup PendingRows(x)
    /\ pending' = NotPendingOf(x)

ProfileCreated(r) == CreateRows(r.of, {r})

PoolCreated(r) == CreateRows(r.of, {})

\* Mutant: the row of the old owner stays.
MutantFormerOwners(p) == {}

FormerOwners(p) == {m \in rows : m.kind = "owner" /\ m.of = p}

ProfileOwnerUpdated(r) ==
    /\ rows' = (rows \ FormerOwners(r.of)) \cup {r}
    /\ UNCHANGED <<created, pending>>

Handler(e) ==
    \/ e.type = "granted" /\ e.role.of \in Profiles /\ RegistryRoleGranted(e.role)
    \/ e.type = "granted" /\ e.role.of \in Pools /\ AlloRoleGranted(e.role)
    \/ e.type = "revoked" /\ e.role.of \in Profiles /\ RegistryRoleRevoked(e.role)
    \/ e.type = "revoked" /\ e.role.of \in Pools /\ AlloRoleRevoked(e.role)
    \/ e.type = "created" /\ e.role.of \in Profiles /\ ProfileCreated(e.role)
    \/ e.type = "created" /\ e.role.of \in Pools /\ PoolCreated(e.role)
    \/ e.type = "ownerUpdated" /\ ProfileOwnerUpdated(e.role)

\* The Registry handler of RoleRevoked throws without a project; the primary
\* keys and the foreign keys to projects must hold at the end.
Succeeds(e) ==
    LET x == e.role.of IN
    /\ e.type = "granted" => ~(Known(x) /\ e.role \in rows)
    /\ e.type = "revoked" /\ x \in Profiles => Known(x)
    /\ e.type = "created" => x \notin created /\ \A r \in PendingRows(x) : pending[r] = 1
    /\ e.type = "created" /\ x \in Pools => ProfileOf[x] \in created
    /\ e.type = "ownerUpdated" => x \in created

HandleEvent ==
    /\ feed # <<>> /\ feed' = Tail(feed)
    /\ Succeeds(Head(feed)) /\ Handler(Head(feed))
    /\ UNCHANGED <<chainVars, damaged, calls, lost>>

\* The handler throws or the transaction is refused, and the event is given up.
EventRefused ==
    /\ feed # <<>> /\ feed' = Tail(feed)
    /\ ~Succeeds(Head(feed))
    /\ UNCHANGED <<chainVars, dbVars, damaged, calls, lost>>

\* A provider or the database fails, or the process goes down.
EventLost ==
    /\ feed # <<>> /\ feed' = Tail(feed)
    /\ lost < MaxLost /\ lost' = lost + 1
    /\ LET e == Head(feed)
           dependent == IF e.type = "created" THEN {q \in Pools : ProfileOf[q] = e.role.of} ELSE {}
       IN damaged' = damaged \cup {e.role.of} \cup dependent
    /\ UNCHANGED <<chainVars, dbVars, calls>>

Next ==
    \/ \E p \in Profiles : CreateProfile(p) \/ ChangeOwner(p)
    \/ \E q \in Pools : CreatePool(q)
    \/ \E x \in Entities : GrantRole(x)
    \/ RevokeRole
    \/ HandleEvent \/ EventRefused \/ EventLost

Spec == Init /\ [][Next]_vars
-----------------------------------------------------------------------------
(* Properties. *)

Caught(x) == feed = <<>> /\ Exists(x) /\ x \notin damaged
Stored(x) == {r \in rows : r.of = x}
Held(x)   == {r \in holders : r.of = x}

\* Once the chain is caught up with, the roles of a pool are those the contract
\* knows, pending roles and their conversion included.  The loss of an event
\* damages only its own pool, or the pools of a profile whose creation is lost.
PoolRolesFollow ==
    \A q \in Pools : Caught(q) => q \in created /\ Stored(q) = Held(q)

\* A profile has exactly one owner row, that of the contract, and no member the
\* contract does not know.  It may lack members the contract knows: a revocation
\* takes them all (theorem RevocationTakesAll).
ProfileRolesSound ==
    \A p \in Profiles : Caught(p) =>
        /\ p \in created
        /\ {r \in Stored(p) : r.kind = "owner"} = {Role("owner", p, owner[p])}
        /\ {r \in Stored(p) : r.kind = "member"} \subseteq Held(p)

\* A role is never pending for a profile or pool that is stored, where nothing
\* would pick it up any more.
PendingIsAwaited == \A x \in created : PendingRows(x) = {}
=============================================================================
