SPECIFICATION DigestSpec
CONSTANTS
  Assignments = {a1}
  Requests = {r1, r2}
  NoRequest = NoRequest
  MaxDay = 2
  MaxVersion = 1
  RetryLimit = 1
INVARIANT OutboxMatchesQueue
PROPERTIES
  RemindsOpenWork
  DigestIsSettled
CHECK_DEADLOCK FALSE
