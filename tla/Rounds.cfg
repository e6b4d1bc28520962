SPECIFICATION Spec
CONSTANTS
    optimism = optimism
    app1 = app1
    app2 = app2
    ann = ann
    bob = bob
    Chains <- OneChain
    Applications <- TwoApps
    Donors <- MCDonors
    Statuses <- MCStatuses
    Pending = "PENDING"
    Absent = "NONE"
    Positions <- MCPositions
    Overlap = FALSE
    MaxEvents = 5
    MaxLost = 1
INVARIANTS StatsMatchDonations DistributedMatchesApplications StatusFollowsContract
CHECK_DEADLOCK FALSE
