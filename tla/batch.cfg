SPECIFICATION BatchSpec
CONSTANTS
    before = before after = after approved = approved applied = applied
    None = None
    N = 4
    MaxAttempt = 2
    Id <- Attempts
    Content <- Texts
    Original <- Originals
    Replacement <- Replacements
    JournalFaults = {"before", "after"}
    TargetFaults = {"before", "after"}
    MaxFaults = 1
    MaxCrashes = 1
    MaxEdits = 4
INVARIANTS ReadableIsWhole OneCommit
CHECK_DEADLOCK FALSE
