SPECIFICATION Spec
CONSTANTS
  l1 = l1
  l2 = l2
  home = home
  mirror = mirror
  Loads <- MCLoads
  Urls <- MCUrls
  Versions <- MCVersions
  Publisher <- MCPublisher
  First <- MCFirst
  MaxCalls = 3
  MaxChanges = 1
  MaxDays = 1
  MaxRestarts = 1
  MaxFaults = 1
SYMMETRY MCSymmetry
CHECK_DEADLOCK FALSE
INVARIANTS RepairsItself CopySurvivesServer UnwarnedIsRecent
