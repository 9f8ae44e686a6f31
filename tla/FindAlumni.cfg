\* An association announcement is listed for alumni and not mailed to them; one request suffices.
SPECIFICATION Spec
CHECK_DEADLOCK FALSE
CONSTANTS
  u = u
  v = v
  a = a
  n = n
  r1 = r1
  r2 = r2
  Members = {u, v}
  Letters = {a, n}
  Callers <- Officers
  Requests = {r1}
  Activities = {a}
  Announcements = {n}
  Departments = {"media"}
  Home <- MediaRuns
  Roster <- OneInMedia
  Alumni = {v}
  StatusInputs = {"draft"}
  AudienceInputs = {"department"}
  Answers = {"accepted"}
  MaxLost = 1
  NotYet = NotYet
  Gone = Gone
INVARIANT EmailedReachesEveryReader
