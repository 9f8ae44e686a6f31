SPECIFICATION Spec
CONSTANTS
  Categories = {1, 2, 3, 4, 5, 6, 7}
  Slugs = {"planning", "proposals"}
  Departments = {"finance", "reading_club"}
  NoCategory = NoCategory
  InitialCategory <- NoRows
  Editors <- OneDirector
  Blueprints = {"finance"}
  Defaults = {"planning"}
  Folders = {"proposals"}
INVARIANT
  EveryStartComesUp
CHECK_DEADLOCK FALSE
