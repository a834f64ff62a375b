SPECIFICATION FairSpec
CONSTANTS
  MaxStages = 2
  NumStages = 3
  NumThreads = 2
  NULL = NULL
  GARBAGE = GARBAGE
INVARIANTS TypeOK NoEarlierStage FreedStagesUnused
PROPERTIES HangsOnlyOnLostFlags
