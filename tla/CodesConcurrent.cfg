\* Two overlapping requests; whatever was issued may be redeemed.
SPECIFICATION CodeSpec
CONSTANTS
  Accounts = {u}
  Purposes = {register, reset}
  Requests = {r1, r2}
  MaxCodes = 3
  MaxAttempts = 1
  NoRow = NoRow
  u = u
  register = register
  reset = reset
  r1 = r1
  r2 = r2
SYMMETRY Symmetry
INVARIANTS
  OutstandingBounded
  NewestOnly
  RedemptionsBounded
PROPERTY
  ConsumedForever
