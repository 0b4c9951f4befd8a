SPECIFICATION HookSpec
CONSTANTS
  MaxCommands = 3
  MaxBreaker = 2
  Enforce = TRUE
  AllowStop = FALSE
  Hooks = {h1, h2}
  MaxMade = 3
  MaxEvents = 3
  MaxLost = 1
SYMMETRY Twins
\* The bounds on events and commands stop the model.
CHECK_DEADLOCK FALSE
INVARIANTS HookInv
PROPERTIES CancelSticks
