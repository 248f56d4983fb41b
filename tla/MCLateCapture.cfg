SPECIFICATION RefundSpec
CONSTANTS
  Users = {u1}
  Calls = {c1}
  Openers = {}
  NoUser = NoUser
  StudentFee = 1
  RegularFee = 2
  Deadline = 0
  GraceDays = 1
  MaxTime = 0
  MaxRows = 4
  MaxRefunds = 1
  DashboardAmounts = {}
PROPERTIES
  ClosedStatusRetained
