\* A shadow breaker; two commands, an extension among them; a fault; retries.
SPECIFICATION FairSpec
CONSTANTS
  MaxCommands = 2
  MaxBreaker = 1
  Enforce = FALSE
  AllowStop = TRUE
  Handoff = TRUE
  Operator = {"extend", "cancel"}
  Checkpoint = 1
  Grace = 1
  Budget = 1
  Extension = 1
  MaxExtension = 2
  Retries = 1
  Horizon = 2
  MaxFaults = 1
  NoSeal = NoSeal
  NoBeat = NoBeat
  NoRuntime = NoRuntime
  Damaged = Damaged
PROPERTIES CancelStops JobEnds
