SPECIFICATION Spec
CONSTANTS
  MaxEvents = 2
  Resets = {}
INVARIANTS
  LedShowsLink
