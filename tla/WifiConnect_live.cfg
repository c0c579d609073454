SPECIFICATION FairSpec
CONSTANTS
  Creds = {home}
  NoCred = NoCred
  MaxSeq = 2
  MaxEvents = 1
  Requests = {"reconnect", "console"}
  ClientWaits = FALSE
  EventsDrain = FALSE
PROPERTIES
  EveryAttemptEnds
  PendingIsSignalled
