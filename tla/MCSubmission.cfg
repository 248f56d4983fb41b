SPECIFICATION SubmissionSpec
CONSTANTS
  Users = {u1}
  External = {x1}
  Papers = {p1, p2}
  Requests = {q1, q2}
  Numbers = {n1, n2}
  NoNumber = NoNumber
  NoOne = NoOne
  Limit = 1
  MaxVersions = 2
SYMMETRY SubmissionSymmetry
INVARIANTS
  SubmittedHasCleanPdf
  WithinLimit
PROPERTIES
  SubmittedIsFinal
  ClosedCfpTakesNothing
