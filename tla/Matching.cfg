SPECIFICATION MCSpec
CONSTANTS
  p1 = p1
  p2 = p2
  na = na
  Wildcard = Wildcard
  Absent = Absent
  Literals <- MCLiterals
  Reserved <- MCReserved
  Products = {p1}
  Others = {p2}
  Incomparable = {na}
  Versions <- MCVersions
  Records <- MCRecords
  Texts <- MCTexts
  CycleNames <- MCCycleNames
  CycleLists <- MCCycleLists
  Found <- MCFound
  Advised <- MCAdvised
  Listings <- MCListings
  NoId = NoId
  f1 = f1
  f2 = f2
  f3 = f3
  f4 = f4
  short = short
  long = long
  longer = longer
  stamp = stamp
  Fingerprints <- MCFingerprints
  Implies <- MCImplies
  VersionTexts <- MCVersionTexts
  LengthOf <- MCLengthOf
  Timestamps = {stamp}
  NoVersion = NoVersion
  MaxLength = 15
  Pages <- MCPages
CHECK_DEADLOCK FALSE
INVARIANTS StoredPathIsLivePath OrderIsTotal VersionSurvivesName CycleIsClosest RankedOnce RecordsWin ResultIsClosure
