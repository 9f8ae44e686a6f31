\* The president and a director edit two offices and a role of their own; the backend restarts.
SPECIFICATION Spec
CONSTANTS
  r1 = r1
  r2 = r2
  p1 = p1
  own = own
  Tracked = {"manage_roles", "manage_settings"}
  SystemRoles = {"executive", "department_lead"}
  CustomRoles = {own}
  Editors = {"president", "director"}
  OfficeOf <- OfficeHeld
  Requests = {r1, r2}
  Processes = {p1}
SYMMETRY Symmetry
INVARIANTS
  TypeOK
  NothingFromNowhere
  StartsRestore
