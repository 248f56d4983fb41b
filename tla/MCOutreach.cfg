SPECIFICATION OutreachSpec
CONSTANTS
  Addresses = {a1}
  Templates = {t1, t2}
  NoTemplate = NoTemplate
  Pages = {p1, p2}
  Hooks = {h1}
  Reports = {"BOUNCED"}
  Quotas = {0, 1}
  MaxImports = 2
  MaxSends = 2
  MaxAttempts = 2
  SendRetries = 1
SYMMETRY OutreachSymmetry
INVARIANT SendingIsCarried
PROPERTIES
  SendsWhatWasConfirmed
  SettledAreSpared
CHECK_DEADLOCK FALSE
