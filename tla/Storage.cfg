SPECIFICATION MCSpec
CONSTANTS
  a = a
  n = n
  v1 = v1
  v2 = v2
  r1 = r1
  r2 = r2
  form = form
  button = button
  none = none
  entered = entered
  NoName = NoName
  KevKey = KevKey
  Technologies <- MCTechnologies
  Names <- MCNames
  Records <- MCRecords
  About <- MCAbout
  Marked <- MCMarked
  Answers <- MCAnswers
  Catalogs <- MCCatalogs
  Ttl = 0
  MaxDays = 1
  MaxTrouble = 1
  Runs <- MCRuns
  Detected <- MCDetected
  Fields <- MCFields
  Values <- MCValues
  Empty = none
  Forms <- MCForms
  Popups <- MCPopups
  MaxSaves = 2
  MaxResults = 3
SYMMETRY Symmetric
CHECK_DEADLOCK FALSE
INVARIANTS LiveVerdictsAreRecent ClearedStaysCleared PopupIsLive
PROPERTIES OtherSettingsKept
