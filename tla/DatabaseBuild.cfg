SPECIFICATION FairBuildSpec
CONSTANTS
  r1 = r1
  r2 = r2
  r3 = r3
  r4 = r4
  r5 = r5
  r6 = r6
  None = None
  Records <- MCRecords
  Editions <- MCEditions
  Names <- MCNames
  Apps <- MCApps
  Answers <- MCAnswers
  LastYear = 2
  StallLimit = 3
  FeedAttempts = 2
  OpenAttempts = 2
CHECK_DEADLOCK FALSE
INVARIANTS FileIsComplete WrittenIsWhole WrittenIsEnriched LinksFollowNames
PROPERTIES BuildEnds
