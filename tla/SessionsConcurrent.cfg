\* Two requests overlap: rows enough for two replacements of one and a second sign-in or rotation, one
\* request that ends every session, and a code to reset the password with.
SPECIFICATION Spec
CONSTANTS
  Accounts = {member}
  Purposes = {"password_reset"}
  Requests = {r1, r2}
  MaxCodes = 1
  MaxAttempts = 1
  MaxSessions = 3
  MaxEnds = 1
  MaxFailedAttempts = 1
  NoRow = NoRow
  member = member
  r1 = r1
  r2 = r2
SYMMETRY Symmetry
CONSTRAINT Unfailed
INVARIANTS
  SessionsTypeOK
  NoSessionOutlivesItsEnd
  OneSessionPerSignIn
  ReplacementsFollow
  RotationsBounded
PROPERTY
  RevokedForever
