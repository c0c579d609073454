SPECIFICATION FairSpec
CONSTANTS
  MaxEvents = 1
  Resets = {"power", "console", "panic"}
INVARIANTS
  TypeOK
  GateFollowsLink
PROPERTIES
  ConfigOnlyOnRequest
  KeepsTrying
  RequestServed
  LedAdmitsLoss
