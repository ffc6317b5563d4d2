CONSTANTS
  Events = {1, 2}
  Reviews = {2}
  None = None
  Setups <- EachHost
  MaxAttempts <- AttemptsOnce
  MaxRevision <- Revisions
  MaxCrashes = 1
SPECIFICATION FairSpec
INVARIANT UncertainNotRepeated
PROPERTIES
  NoticeOffered
  ListenerWakes
CHECK_DEADLOCK FALSE
