SPECIFICATION FairSpec
CONSTANTS
  Databases = {d1, d2}
  NoDb = NoDb
  Home = d1
  Cap = 1
  MaxRows = 2
  MaxFaults = 2
INVARIANTS
  TypeOK
  KeptIsAlive
  FlagIsTrue
  AdviceFits
  CapIsExact
PROPERTIES KeepsLifecycle AdviceConverges
