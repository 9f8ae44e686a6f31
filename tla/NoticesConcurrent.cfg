\* Two overlapping requests about one activity or one announcement, two members, one failure.
\* Everything may have been posted and deleted, with nothing left to do.
SPECIFICATION Spec
CHECK_DEADLOCK FALSE
CONSTANTS
  u = u
  v = v
  a = a
  n = n
  r1 = r1
  r2 = r2
  Members = {u, v}
  Letters = {a, n}
  Callers <- Officers
  Requests = {r1, r2}
  Activities = {a}
  Announcements = {n}
  Departments = {"media"}
  Home <- MediaRuns
  Roster <- OneInMedia
  Alumni = {v}
  StatusInputs = {"draft"}
  AudienceInputs = {"department", "alumni"}
  Answers = {"accepted"}
  MaxLost = 1
  NotYet = NotYet
  Gone = Gone
SYMMETRY Symmetry
INVARIANTS
  TypeOK
  AnnouncementsBounded
  AnnouncedMeansMailed
  MailedCanRead
  
PROPERTY
  AnnouncedForever
