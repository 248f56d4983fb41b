SPECIFICATION InvitationSpec
CONSTANTS
  invitee = invitee
  author = author
  Emails = {invitee, author}
  Authors = {author}
  Invited = {invitee}
  Requests = {q1, q2}
  BotRequests = {k1}
  BatchInput <- SmallBatch
  Web = Web
  Batch = Batch
  NoEmail = NoEmail
  MaxRows = 2
  MaxReissues = 1
INVARIANT RetriesInviteOnce
PROPERTIES
  ClosedStaysClosed
  LinkGrantsOnce
  AnswerUsesCurrentLink
  NewInvitationIsAlone
  RenewedIsNotExpired
SYMMETRY RequestSymmetry
