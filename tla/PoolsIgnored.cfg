SPECIFICATION Spec
CONSTANTS
    app1 = app1
    app2 = app2
    ann = ann
    bob = bob
    Kinds <- SimpleGrants
    Recipients <- MCRecipients
    Donors <- MCDonors
    Unbounded = Unbounded
    Nil = Nil
    MaxEvents = 1
    MaxFailed = 1
    MaxLost = 1
INVARIANTS IgnoredIsSafe
CHECK_DEADLOCK FALSE
