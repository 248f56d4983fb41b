SPECIFICATION FairCheckoutSpec
CONSTANTS
  Users = {u1}
  Calls = {c1}
  Openers = {o1}
  NoUser = NoUser
  StudentFee = 1
  RegularFee = 2
  Deadline = 0
  GraceDays = 1
  MaxTime = 1
  MaxRows = 2
PROPERTIES
  OpenChargeIsRecorded
