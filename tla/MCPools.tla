------------------------------ MODULE MCPools ------------------------------
(* A pool of any kind with two recipients and two donors. *)
EXTENDS Pools, TLC

CONSTANTS app1, app2, ann, bob

MCRecipients == {app1, app2}
MCDonors == {ann, bob}
AllKinds == {"DVMD", "ERF", "DGLite", "DGSimple", "DirectAllocation"}
Symmetry == Permutations(MCRecipients) \cup Permutations(MCDonors)
SimpleGrants == {"DGSimple"}
=============================================================================
