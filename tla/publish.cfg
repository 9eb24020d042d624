SPECIFICATION FairSpec
CONSTANTS
    old1 = old1 old2 = old2 new1 = new1 new2 = new2 new3 = new3 other = other
    t1 = t1
    None = None
    N = 3
    Id = {t1}
    Content = {old1, old2, new1, new2, new3, other}
    Original <- Original3
    Replacement <- Replacement3
    JournalFaults = {"before", "after"}
    TargetFaults = {"before", "after"}
    MaxFaults = 3
    MaxCrashes = 2
    MaxEdits = 1
INVARIANTS AnswerIsTrue
PROPERTIES RestoresOnlyItsOwn Settles
