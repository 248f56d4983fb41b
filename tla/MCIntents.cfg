SPECIFICATION FairRefundSpec
CONSTANTS
  Users = {u1}
  Calls = {}
  Openers = {}
  NoUser = NoUser
  StudentFee = 1
  RegularFee = 2
  Deadline = 0
  GraceDays = 1
  MaxTime = 0
  MaxRows = 4
  MaxRefunds = 2
  DashboardAmounts = {}
INVARIANTS
  RefundsWithinCapture
PROPERTIES
  IntentIsSettled
CHECK_DEADLOCK FALSE
