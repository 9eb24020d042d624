SPECIFICATION FairSpec
CONSTANTS
    None = None
    j1 = j1 j2 = j2 c1 = c1 c2 = c2 runner = runner
    claude = claude local = local
    Jd = {j1, j2}
    Caller = {c1, c2}
    Runner = runner
    Cli <- OneCli
    Local = local
    Selected = claude
    MaxCalls = 2
    MaxEdits = 0
    MaxCrashes = 0
CHECK_DEADLOCK FALSE
INVARIANT VerdictIsTheDocuments
