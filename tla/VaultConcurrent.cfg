SPECIFICATION Spec
CONSTANTS
  seeded = seeded
  own = own
  Categories = {seeded, own}
  Slugs = {"planning"}
  Departments = {"finance"}
  NoCategory = NoCategory
  InitialCategory <- FirstCategories
  Callers <- TwoCallers
  Requests = {r1, r2}
  Documents = {d1}
  Keys = {k1, k2, k3, k4}
  VisibilityInputs = {"department", "presidium_only"}
  MaxVersions = 3
  NoDocument = NoDocument
  NoKey = NoKey
  r1 = r1
  r2 = r2
  d1 = d1
  k1 = k1
  k2 = k2
  k3 = k3
  k4 = k4
SYMMETRY Symmetry
INVARIANTS
  TypeOK
  HistoryIsGapless
  LossesAreDeletions
  FilingIsIntact
PROPERTIES
  CyclesAreStuck
  FilesSpec
