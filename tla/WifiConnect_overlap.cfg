SPECIFICATION Spec
CONSTANTS
  Creds = {home, office}
  NoCred = NoCred
  MaxSeq = 2
  MaxEvents = 1
  Requests = {"reconnect"}
  ClientWaits = FALSE
  EventsDrain = TRUE
INVARIANT
  OnlyValidatedInFlash
