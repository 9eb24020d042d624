SPECIFICATION FairSpec
CONSTANTS
    p1 = p1 p2 = p2
    Posting = {p1, p2}
    MaxRun = 1
    Cap = {1}
    MaxCrashes = 1
INVARIANTS RunIsPending
PROPERTIES SeenWasHandedOn ResumeKeepsUnrecorded RunAccountsForAll PendingIsExtracted
