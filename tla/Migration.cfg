CONSTANTS
  Job = {j1, j2}
  Database = {d}
  Content <- Contents
  Inputs <- Files
  Group = 2
  Word = 5
  None = None
SPECIFICATION FairSpec
INVARIANTS TypeOK CapacityOne AnsweredAreReleased ImportsValidated
INVARIANTS DataFollowsSchema ReportIsTrue CleanExitIsIdle FramesAreRecords
PROPERTIES NoClobber StagingIsAccounted ImplementsService EveryJobIsAnswered ShutdownEnds
CHECK_DEADLOCK FALSE
