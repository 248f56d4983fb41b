SPECIFICATION ReviewSpec
CONSTANTS
  Reviewers = {r1, r2}
  Requests = {q1, q2}
  Texts = {t1, t2}
  NoText = NoText
  NoReviewer = NoReviewer
  MaxCycles = 3
  MaxAssignments = 2
  MaxRevisions = 1
SYMMETRY Interchangeable
INVARIANTS
  SubmittedIsCompleted
  AuthorsSeeReleased
  OnlyNewestCycleOpen
PROPERTIES
  DecidedCycleIsFrozen
  ReplacedStaysOut
  PublishesLatestSave
CHECK_DEADLOCK FALSE
