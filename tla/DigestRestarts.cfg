\* Two processes, which may or may not overlap; two members, two days, any restarts.
SPECIFICATION FairSpec
CONSTANTS
  Members = {u, v}
  Letters = {1, 2}
  Processes = {p, q}
  MaxDays = 2
  NoRun = NoRun
  u = u
  v = v
  p = p
  q = q
INVARIANTS
  TypeOK
  NoSecondCopy
PROPERTIES
  MailSpec
  DigestReachesEveryone
