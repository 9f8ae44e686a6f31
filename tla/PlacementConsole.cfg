\* A president and one account from sign-up through every status, applying to either department;
\* directors and deputies with their queues and boards, roles edited, a department retired.
SPECIFICATION Spec
CONSTANTS
  Accounts = {p, a}
  Founder = p
  FounderDept = "presidium"
  FounderOffice = "executive"
  Applicants = {}
  Departments = {"presidium", "finance"}
  Offices = {"department_member", "department_deputy", "department_lead", "executive"}
  RequestInputs = {"presidium", "finance"}
  StatusInputs = {"suspended"}
  Retirable = {"finance"}
  RoleInputs <- ReviewersEdited
  NoOffice = NoOffice
  p = p
  a = a
INVARIANTS
  TypeOK
  BoardIsHonest
  QueueIsDecidable
