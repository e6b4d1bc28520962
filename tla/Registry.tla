------------------------------ MODULE Registry ------------------------------
(***************************************************************************)
(* What the tables hold of a profile besides its roles (module Roles): its *)
(* anchor, its document and what follows from it, kept by ProfileCreated,  *)
(* ProfileNameUpdated and ProfileMetadataUpdated; the strategies' look for *)
(* a profile by its anchor, which a change of name replaces; and the       *)
(* attestations of the same chain, which share its feed and nothing else.  *)
(*                                                                         *)
(* An anchor is [of, version]: the contract makes a new one with every     *)
(* name.  A document is what the handler has after getMetadata: one the    *)
(* schema knows, or "unusable", for none and for one of another form.      *)
(***************************************************************************)
EXTENDS Roles, SequencesExt

CONSTANTS
    Documents,   \* of projects, subset of {"project", "linked", "program", "unusable"}
    Uids,        \* attestations
    Listings,    \* the lists of transactions an attestation's document may have
    Null

\* A row of the projects table, without its roles
ProjectRow ==
    [anchor : [of : Profiles, version : Nat], metadata : Documents \cup {Null},
     type : {"linked", "canonical"}, program : BOOLEAN]

ASSUME RegistryAssumption ==
    /\ Documents \subseteq {"project", "linked", "program", "unusable"}
    /\ Listings \subseteq Seq({"t1", "t2"})
    /\ Null \notin Documents \cup Listings \cup ProjectRow

VARIABLES
    profile,      \* contracts: version, document and first document of each profile
    attested,     \* contracts: the listing of each attestation, Null if there is none
    projects,     \* projects table: the data of each profile, Null without a row
    attestations, \* attestations table
    txns,         \* attestation_txns table
    stale,        \* history: fields of profiles whose last update was lost
    missing       \* history: attestations lost

dataVars == <<profile, attested, projects, attestations, txns, stale, missing>>
allVars  == <<vars, dataVars>>

Anchor(p, v) == [of |-> p, version |-> v]
DataEvent(t, x, d) == [type |-> t, about |-> x, data |-> d]

RegistryInit ==
    /\ Init
    /\ profile = [p \in Profiles |-> [version |-> 0, doc |-> Null, first |-> Null]]
    /\ attested = [u \in Uids |-> Null]
    /\ projects = [p \in Profiles |-> Null]
    /\ attestations = {} /\ txns = {} /\ stale = {} /\ missing = {}

-----------------------------------------------------------------------------
(* The contracts. *)

CreateWith(p) ==
    /\ CreateProfile(p)
    /\ \E d \in Documents : profile' = [profile EXCEPT ![p].doc = d, ![p].first = d]
    /\ UNCHANGED <<attested, projects, attestations, txns, stale, missing>>

Rename(p) ==
    /\ Exists(p)
    /\ LET v == profile[p].version + 1 IN
          /\ profile' = [profile EXCEPT ![p].version = v]
          /\ Call(<<DataEvent("ProfileNameUpdated", p, v)>>)
    /\ UNCHANGED <<chainVars, attested, projects, attestations, txns, stale, missing>>

SetDocument(p) ==
    /\ Exists(p)
    /\ \E d \in Documents \ {profile[p].doc} :
          /\ profile' = [profile EXCEPT ![p].doc = d]
          /\ Call(<<DataEvent("ProfileMetadataUpdated", p, d)>>)
    /\ UNCHANGED <<chainVars, attested, projects, attestations, txns, stale, missing>>

\* A strategy accepts the anchor a profile has at the time.
Apply(p) ==
    /\ Exists(p)
    /\ Call(<<DataEvent("Registered", p, Anchor(p, profile[p].version))>>)
    /\ UNCHANGED <<chainVars, dataVars>>

Attest(u) ==
    /\ attested[u] = Null
    /\ \E l \in Listings :
          /\ attested' = [attested EXCEPT ![u] = l]
          /\ Call(<<DataEvent("OnAttested", u, l)>>)
    /\ UNCHANGED <<chainVars, profile, projects, attestations, txns, stale, missing>>

-----------------------------------------------------------------------------
(* The handlers of roles, with the row ProfileCreated inserts. *)

Usable(d) == d # "unusable"
TypeOf(d) == IF d = "linked" THEN "linked" ELSE "canonical"

\* Mutant: the type is left as it was when there is no document.
MutantDescribed(row, d) ==
    [row EXCEPT !.metadata = IF Usable(d) THEN d ELSE Null,
                !.type = IF Usable(d) THEN TypeOf(d) ELSE row.type]

\* The columns that follow from the document; without one the type is canonical.
Described(row, d) ==
    [row EXCEPT !.metadata = IF Usable(d) THEN d ELSE Null, !.type = TypeOf(d)]

\* Only the creation sets the tags.
NewRow(p) ==
    Described([anchor |-> Anchor(p, 0), metadata |-> Null, type |-> "canonical",
               program |-> profile[p].first = "program"], profile[p].first)

RoleEvent == feed # <<>> /\ "role" \in DOMAIN Head(feed)

HandleRoleEvent ==
    /\ RoleEvent /\ HandleEvent
    /\ LET e == Head(feed) IN
          projects' = IF e.type = "created" /\ e.role.of \in Profiles
                      THEN [projects EXCEPT ![e.role.of] = NewRow(e.role.of)]
                      ELSE projects
    /\ UNCHANGED <<profile, attested, attestations, txns, stale, missing>>

RoleEventNotHandled ==
    /\ RoleEvent /\ (EventRefused \/ EventLost)
    /\ UNCHANGED dataVars

-----------------------------------------------------------------------------
(* The handlers of the other events. *)

NextData(types) ==
    /\ feed # <<>> /\ ~RoleEvent /\ Head(feed).type \in types
    /\ feed' = Tail(feed)

\* updateProject: a statement that meets no row changes nothing.
Update(p, row) ==
    projects' = IF projects[p] = Null THEN projects ELSE [projects EXCEPT ![p] = row]

\* Mutant: the name is stored and the anchor is not.
MutantRenamed(row, v) == row

Renamed(row, v) == [row EXCEPT !.anchor.version = v]

ProfileNameUpdated ==
    /\ NextData({"ProfileNameUpdated"})
    /\ LET e == Head(feed) IN
          /\ Update(e.about, Renamed(projects[e.about], e.data))
          /\ stale' = stale \ {<<e.about, "anchor">>}
    /\ UNCHANGED <<chainVars, dbVars, damaged, calls, lost,
                   profile, attested, attestations, txns, missing>>

ProfileMetadataUpdated ==
    /\ NextData({"ProfileMetadataUpdated"})
    /\ LET e == Head(feed) IN
          /\ Update(e.about, Described(projects[e.about], e.data))
          /\ stale' = stale \ {<<e.about, "doc">>}
    /\ UNCHANGED <<chainVars, dbVars, damaged, calls, lost,
                   profile, attested, attestations, txns, missing>>

\* getProjectByAnchor
ByAnchor(a) == {p \in Profiles : projects[p] # Null /\ projects[p].anchor = a}

\* What a registration stores is in module Pools; one without a profile throws.
Registered ==
    /\ NextData({"Registered"})
    /\ UNCHANGED <<chainVars, dbVars, damaged, calls, lost, dataVars>>

NoDuplicates(q) == \A i, j \in DOMAIN q : i # j => q[i] # q[j]

\* Mutant: the constraint is missing.
MutantListed(l) == TRUE

\* The unique constraint of attestation_txns
Listed(l) == NoDuplicates(l)

InsertAttestation(u, l) ==
    /\ attestations' = attestations \cup {u}
    /\ txns' = txns \cup {<<u, t>> : t \in ToSet(l)}

\* The attestation and its transactions, in one transaction: all or nothing
OnAttested ==
    /\ NextData({"OnAttested"})
    /\ LET e == Head(feed) IN
          \/ Listed(e.data) /\ InsertAttestation(e.about, e.data)
          \/ ~Listed(e.data) /\ UNCHANGED <<attestations, txns>>
    /\ UNCHANGED <<chainVars, dbVars, damaged, calls, lost,
                   profile, attested, projects, stale, missing>>

DataEventLost ==
    /\ NextData({"ProfileNameUpdated", "ProfileMetadataUpdated", "Registered", "OnAttested"})
    /\ lost < MaxLost /\ lost' = lost + 1
    /\ LET e == Head(feed)
           field == CASE e.type = "ProfileNameUpdated" -> {<<e.about, "anchor">>}
                      [] e.type = "ProfileMetadataUpdated" -> {<<e.about, "doc">>}
                      [] OTHER -> {}
       IN /\ stale' = stale \cup field
          /\ missing' = IF e.type = "OnAttested" THEN missing \cup {e.about} ELSE missing
    /\ UNCHANGED <<chainVars, dbVars, damaged, calls,
                   profile, attested, projects, attestations, txns>>

RegistryNext ==
    \/ \E p \in Profiles : CreateWith(p) \/ Rename(p) \/ SetDocument(p) \/ Apply(p)
    \/ \E p \in Profiles : ChangeOwner(p) /\ UNCHANGED dataVars
    \/ \E q \in Pools : CreatePool(q) /\ UNCHANGED dataVars
    \/ \E x \in Entities : GrantRole(x) /\ UNCHANGED dataVars
    \/ RevokeRole /\ UNCHANGED dataVars
    \/ \E u \in Uids : Attest(u)
    \/ HandleRoleEvent \/ RoleEventNotHandled
    \/ ProfileNameUpdated \/ ProfileMetadataUpdated \/ Registered \/ OnAttested
    \/ DataEventLost

RegistrySpec == RegistryInit /\ [][RegistryNext]_allVars
-----------------------------------------------------------------------------
(* Properties. *)

\* Once the chain is caught up with, a project has the contract's document, or
\* none if it is not usable, and the type that goes with it.  A lost update is
\* made good by the next one, and does not touch the other columns.
DocumentFollows ==
    \A p \in Profiles : Caught(p) /\ <<p, "doc">> \notin stale =>
        /\ projects[p].metadata = IF Usable(profile[p].doc) THEN profile[p].doc ELSE Null
        /\ projects[p].type = TypeOf(profile[p].doc)

\* A registration is handled against the anchor its profile has had since the
\* last change of name before it, whatever was emitted since: it finds its
\* profile and no other, unless the creation or that change was lost.
AnchorFindsProfile ==
    feed # <<>> /\ ~RoleEvent /\ Head(feed).type = "Registered" =>
        LET p == Head(feed).about IN
        p \notin damaged /\ <<p, "anchor">> \notin stale => ByAnchor(Head(feed).data) = {p}

\* An attestation that is stored has all transactions of its document, each once,
\* and one that is neither lost nor refused for a transaction listed twice is stored.
AttestationsWhole ==
    \A u \in Uids : attested[u] # Null =>
        /\ {t \in txns : t[1] = u} =
              IF u \in attestations THEN {<<u, t>> : t \in ToSet(attested[u])} ELSE {}
        /\ u \in attestations => NoDuplicates(attested[u])
        /\ feed = <<>> /\ u \notin missing /\ NoDuplicates(attested[u]) => u \in attestations
=============================================================================
