------------------------------- MODULE Hasura -------------------------------
(***************************************************************************)
(* What the configuration of the API does (scripts/hasura-config): the     *)
(* steps it sends to Hasura, in order, which of them Hasura refuses, and    *)
(* the metadata they leave.  A name is that of a table or of a relationship *)
(* and stands for its camel case form.                                      *)
(***************************************************************************)
EXTENDS Naturals, Sequences, FiniteSets, SequencesExt

\* The list of the script.
Tables == <<"projects", "pending_project_roles", "project_roles", "rounds",
            "pending_round_roles", "round_roles", "applications",
            "applications_payouts", "donations", "legacy_projects",
            "attestations", "attestation_txns", "events_registry",
            "price_cache">>

\* What the migrations create.
InitialTables == {"projects", "pending_project_roles", "project_roles", "rounds",
                  "pending_round_roles", "round_roles", "applications",
                  "applications_payouts", "donations", "legacy_projects"}
RegistryTables    == {"events_registry"}
CheckpointTables  == {"strategy_processing_checkpoints"}
AttestationTables == {"attestations", "attestation_txns"}
CachedTables == {"price_cache", "metadata_cache", "strategy_timings", "strategies_registry"}

\* What each folder of migrations creates.
TablesOf == [processing |-> InitialTables \cup RegistryTables \cup CheckpointTables
                              \cup AttestationTables,
             processing_cache |-> CachedTables]

\* The foreign keys of the migrations: <<child, parent>>.
InitialKeys ==
    <<<<"project_roles", "projects">>, <<"rounds", "projects">>,
      <<"round_roles", "rounds">>, <<"applications", "projects">>,
      <<"applications", "rounds">>, <<"applications_payouts", "applications">>,
      <<"donations", "rounds">>, <<"donations", "applications">>>>
AttestationKeys == <<<<"attestation_txns", "attestations">>>>
ForeignKeys == InitialKeys \o AttestationKeys

\* singularize, on the tables a key points at.
Singular == [projects |-> "project", rounds |-> "round",
             applications |-> "application", attestations |-> "attestation"]

Relationship(table, name, remote) ==
    [op |-> "relate", table |-> table, name |-> name, remote |-> remote]

\* Mutant: both relationships of a key are put on the child.
MutantOfKey(fk) ==
    <<Relationship(fk[1], fk[1], fk[2]), Relationship(fk[1], Singular[fk[2]], fk[2])>>

\* createSuggestedRelationships, for one key: the array of children on the
\* parent, named after the child, then the object on the child, named after
\* the parent.
OfKey(fk) ==
    <<Relationship(fk[2], fk[1], fk[1]), Relationship(fk[1], Singular[fk[2]], fk[2])>>

\* The rows of a table but for those of the keys; a row starts with its key.
Without(table, keys) ==
    LET kept[i \in 0..Len(table)] ==
            IF i = 0 THEN <<>>
            ELSE IF table[i][1] \in keys THEN kept[i - 1] ELSE Append(kept[i - 1], table[i])
    IN  kept[Len(table)]

\* The keys the database reports: those whose table exists.
KeysIn(present) == Without(ForeignKeys, {fk[1] : fk \in ToSet(ForeignKeys)} \ present)

Track(table)  == [op |-> "track", table |-> table]
Permit(table) == [op |-> "permit", table |-> table]
TrackFunction(table) == [op |-> "function", returns |-> table]

OfTable(table) == <<Track(table), Permit(table)>>

VirtualArrays ==
    <<Relationship("donations", "attestationTransactions", "attestation_txns"),
      Relationship("applications", "projects", "projects")>>
VirtualObjects == <<Relationship("attestation_txns", "donation", "donations")>>
CustomFunctions == <<TrackFunction("projects")>>

\* The two steps of each pair, one pair after the other.
InTurn(pairs) ==
    [i \in 1..(2 * Len(pairs)) |-> pairs[(i + 1) \div 2][IF i % 2 = 1 THEN 1 ELSE 2]]

\* configureHasura after clearMetadata, on a database with these tables.
Steps(present) ==
    InTurn([i \in DOMAIN Tables |-> OfTable(Tables[i])])
    \o InTurn([i \in DOMAIN KeysIn(present) |-> OfKey(KeysIn(present)[i])])
    \o VirtualArrays \o VirtualObjects \o CustomFunctions

\* The metadata: what the steps done have left.
Tracked(done)   == {s.table : s \in {s \in done : s.op = "track"}}
Permitted(done) == {s.table : s \in {s \in done : s.op = "permit"}}
Related(done)   == {s \in done : s.op = "relate"}

\* Hasura refuses to track what is not there, a permission on a table that is
\* not tracked, and a relationship whose tables are not both tracked or whose
\* name the table has already.
Refuses(step, done, present) ==
    \/ step.op = "track" /\ (step.table \notin present \/ step.table \in Tracked(done))
    \/ step.op = "permit" /\ step.table \notin Tracked(done)
    \/ /\ step.op = "relate"
       /\ \/ ~({step.table, step.remote} \subseteq Tracked(done))
          \/ \E r \in Related(done) : r.table = step.table /\ r.name = step.name
    \/ step.op = "function" /\ step.returns \notin Tracked(done)

\* How many steps are done before the first that is refused.
Accepted(present) ==
    LET steps == Steps(present)
        Done(i) == ToSet(SubSeq(steps, 1, i))
        refused == {i \in DOMAIN steps : Refuses(steps[i], Done(i - 1), present)}
    IN  IF refused = {} THEN Len(steps)
        ELSE (CHOOSE i \in refused : \A j \in refused : i <= j) - 1
=============================================================================
