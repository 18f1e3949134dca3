SPECIFICATION FairSpec
CONSTANTS
  MaxVersions = 2
  Globals <- MCGlobals
  Samples = 1
  MaxRescans = 2
  MaxUpdates = 1
CHECK_DEADLOCK FALSE
INVARIANTS WorkerHasLastReport LastSampleIsSent
PROPERTIES EveryDocumentIsReported RescanReachesPageScript
