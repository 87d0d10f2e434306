SPECIFICATION Spec
CONSTANTS
    Order <- MCOrder
    Registry <- MCRegistry
    Providers <- MCProviders
    Writings <- MCWritings
    Base <- MCBase
    MaxEdits = 2
INVARIANTS
    ValidityIsExact
    ImpactFollowsChains
    PathsAreShortest
    NoDifferenceIsNone
    DiffFollowsChains
    ClassesMatchListing
