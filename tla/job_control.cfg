\* Up to three commands, containment and an extension among them; a fault; retries.
SPECIFICATION Spec
CONSTANTS
  MaxCommands = 3
  MaxBreaker = 2
  Enforce = TRUE
  AllowStop = TRUE
  Handoff = TRUE
  Operator = {"extend", "cancel"}
  Checkpoint = 1
  Grace = 1
  Budget = 2
  Extension = 1
  MaxExtension = 3
  Retries = 1
  Horizon = 2
  MaxFaults = 1
  NoSeal = NoSeal
  NoBeat = NoBeat
  NoRuntime = NoRuntime
  Damaged = Damaged
INVARIANTS ControlInv  DeadlineStands
