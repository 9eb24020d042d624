SPECIFICATION MCSpec
CONSTANTS
  Source = {s}
  Text = {t1, t2, t3}
  Proposal = {v1, v2, v3}
  Evidence = {e}
  Process = {c1, c2}
  None = None
  MaxEdits = 1
  MaxFaults = 1
  MaxCalls = 5
  Occurrence = {1, 2}
  Commit = {1, 2}
  Before <- CatalogBefore
  Qualifying = {2}
  Attached = Attached
  Missing = Missing
  MaxChanges = 2
  N = 4
  FamilyOf <- EvalFamilyOf
  TitleOf <- EvalTitleOf
  Holdout <- EvalHoldout
  Tolerated <- EvalTolerated
  Significant <- EvalSignificant
  Unlabelled = Unlabelled
  Keep = Keep
  Reject = Reject
  Unsealed = Unsealed
  Nothing = Nothing
  Labellings <- EvalLabellings
  Names = {v1, v2, v3}
  Runners = {c1, c2}
  Platforms = {p1, p2}
  Shown <- CaptureTitles
  Normal <- CaptureNormal
  NotOurs <- CaptureNotOurs
  Queries = 2
  NoQueue = NoQueue
  NoError = 0
  MaxLabelEdits = 2
  MaxRuns = 1
SYMMETRY MCSymmetry
CHECK_DEADLOCK FALSE
INVARIANT UnavailableDoesNotPass
