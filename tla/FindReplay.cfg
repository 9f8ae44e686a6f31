\* A rotated token is presented again.
SPECIFICATION Spec
CONSTANTS
  Accounts = {member}
  Purposes = {"password_reset"}
  Requests = {r1}
  MaxCodes = 0
  MaxAttempts = 1
  MaxSessions = 3
  MaxEnds = 1
  MaxFailedAttempts = 1
  NoRow = NoRow
  member = member
  r1 = r1
  r2 = r2
INVARIANT
  ReplayEndsEverySession
