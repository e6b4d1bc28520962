----------------------------- MODULE MCRegistry -----------------------------
(* One profile with one pool, and a second profile without one. *)
EXTENDS Registry, TLC

CONSTANTS ann, bob, profile1, profile2, pool1

MCAccounts == {ann, bob}
MCProfiles == {profile1, profile2}
MCPools == {pool1}
MCProfileOf == [q \in MCPools |-> profile1]
Symmetry == Permutations(MCAccounts)
MCListings == {<<"t1", "t2">>, <<"t1", "t1">>}
=============================================================================
