SPECIFICATION CheckoutSpec
CONSTANTS
  Users = {u1}
  Calls = {c1}
  Openers = {o1}
  NoUser = NoUser
  StudentFee = 1
  RegularFee = 2
  Deadline = 0
  GraceDays = 1
  MaxTime = 0
  MaxRows = 1
PROPERTIES
  WithdrawalLeavesPaid
