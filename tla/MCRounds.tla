------------------------------ MODULE MCRounds ------------------------------
(* One chain, two applications and two donors. *)
EXTENDS Rounds

CONSTANTS optimism, app1, app2, ann, bob

OneChain == {optimism}
TwoApps == {app1, app2}
MCDonors == {ann, bob}
MCStatuses == {"PENDING", "APPROVED", "REJECTED"}

\* The n-th event of a chain is at position n.
MCPositions == [c \in Chains |-> 1..MaxEvents]
=============================================================================
