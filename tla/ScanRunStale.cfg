SPECIFICATION Spec
CONSTANTS
  a = a
  b = b
  n1 = n1
  n2 = n2
  v1 = v1
  v2 = v2
  p1 = p1
  p2 = p2
  NoName = NoName
  Technologies <- MCTechnologies
  Names <- MCNames
  Records <- MCRecords
  About <- MCAbout
  Marked <- MCMarked
  Answers <- MCAnswers
  Targets <- MCTargets
  Catalogs <- MCCatalogs
  Procs <- MCProcs
  Options <- MCOptions
  Ttl = 0
  MaxDays = 1
  MaxTrouble = 1
SYMMETRY Symmetric
CHECK_DEADLOCK FALSE
INVARIANTS StaleKevIsWarned
