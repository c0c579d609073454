SPECIFICATION FairSpec
CONSTANTS
  MaxScan = 5
INVARIANTS
  TypeOK
  RunningScanHasOwner
  ScanAndAttemptExclude
  DoneHasOwnRecords
PROPERTIES
  ResultIsNew
  EveryScanEnds
