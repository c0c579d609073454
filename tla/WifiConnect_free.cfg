SPECIFICATION Spec
CONSTANTS
  Creds = {home}
  NoCred = NoCred
  MaxSeq = 2
  MaxEvents = 1
  Requests = {"test", "reconnect", "profile", "list", "delete", "button"}
  ClientWaits = FALSE
  EventsDrain = FALSE
INVARIANTS
  TypeOK
  RunningHasOwner
  SuccessHasAddress
  PendingIsPersisted
  SuccessBitIsEarned
  LedShowsAttempt
PROPERTIES
  SupersededIsSilent
  ImplementsConnectAttempt
