SPECIFICATION FairSpec
CONSTANTS
    zighang = zighang wanted = wanted None = None
    Host = {1, 2}
    Url = {zighang, wanted}
    Targets <- TwoTargets
    MaxInFlight = 2
    Opened = zighang
    MaxSent = 3
    MaxDeaths = 1
INVARIANTS InWorkOnce BadgeShowsItsPage
PROPERTIES OwnAnswer TrackedIsReported ClosedHostEnds
CHECK_DEADLOCK FALSE
