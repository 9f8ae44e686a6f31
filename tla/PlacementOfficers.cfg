\* The association runs itself: a president, two applicants to the presidium, one department, and
\* directors whose role the console edits.
SPECIFICATION Spec
CONSTANTS
  Accounts = {p, a, b}
  Founder = p
  FounderDept = "presidium"
  FounderOffice = "executive"
  Applicants = {a, b}
  Departments = {"presidium", "finance"}
  Offices = {"department_member", "department_lead", "executive"}
  RequestInputs = {"presidium"}
  StatusInputs = {}
  Retirable = {}
  RoleInputs <- DirectorsEdited
  NoOffice = NoOffice
  p = p
  a = a
  b = b
SYMMETRY Symmetry
INVARIANTS
  OnePrimary
  SeatsRespected
  OfficesStayInTheirDepartments
PROPERTY
  VacancyIsForever
