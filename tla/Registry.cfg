SPECIFICATION RegistrySpec
CONSTANTS
    ann = ann
    bob = bob
    profile1 = profile1
    profile2 = profile2
    pool1 = pool1
    NoAccount = none
    Accounts <- MCAccounts
    Profiles <- MCProfiles
    Pools <- MCPools
    ProfileOf <- MCProfileOf
    Documents = {"linked", "unusable"}
    Uids = {u1}
    Listings <- MCListings
    Null = Null
    MaxMembers = 1
    MaxCalls = 4
    MaxLost = 1
INVARIANTS PoolRolesFollow ProfileRolesSound PendingIsAwaited DocumentFollows AnchorFindsProfile AttestationsWhole
SYMMETRY Symmetry
CHECK_DEADLOCK FALSE
