SPECIFICATION CheckoutSpec
CONSTANTS
  Users = {u1}
  Calls = {c1, c2}
  Openers = {o1}
  NoUser = NoUser
  StudentFee = 1
  RegularFee = 2
  Deadline = 0
  GraceDays = 1
  MaxTime = 0
  MaxRows = 2
SYMMETRY Interchangeable
INVARIANTS
  TypeOK
  PaidIsSettled
  SettledIsRecognised
  QuoteHonoured
  StudentsVerified
  OneOpenCheckout
PROPERTIES
  BooksEachChargeOnce
  ReopenOnlyUntouched
  WithdrawnNeverAdmitted
