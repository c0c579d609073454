SPECIFICATION Spec
CONSTANTS
  Creds = {home, office}
  NoCred = NoCred
  MaxSeq = 2
  MaxEvents = 1
  Requests = {"reconnect", "profile", "save", "list"}
  ClientWaits = TRUE
  EventsDrain = TRUE
INVARIANTS
  OnlyValidatedInFlash
  SavedForAReason
  AddressIsOwn
  PendingIsInFlash
