CONSTANTS
  Events = {1}
  Reviews = {}
  None = None
  Setups <- CodexHost
  MaxAttempts <- AttemptsOnce
  MaxRevision <- Revisions
  MaxCrashes = 1
SPECIFICATION Spec
INVARIANT QueuedOnce
CHECK_DEADLOCK FALSE
