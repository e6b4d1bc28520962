SPECIFICATION Spec
CONSTANTS
    app1 = app1
    app2 = app2
    ann = ann
    bob = bob
    Kinds <- AllKinds
    Recipients <- MCRecipients
    Donors <- MCDonors
    Unbounded = Unbounded
    Nil = Nil
    MaxEvents = 3
    MaxFailed = 1
    MaxLost = 1
INVARIANTS TypeOK TimingsFollowContract FundsCountedOnce MatchFollowsMetadata TotalsMatchRows ApplicationsFollowRecipients FinalFollowsContract
SYMMETRY Symmetry
CHECK_DEADLOCK FALSE
