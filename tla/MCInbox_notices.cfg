SPECIFICATION Spec
CONSTANTS
  N = 6
  Event <- Notices
  Senders = {"peer"}
  Self = "self"
  NoWorker = "none"
  Resources = {"report"}
  DeclineText = "decline"
  NoText = "nil"
  Workers = {"w1"}
  Texts = {"t1"}
  Limits = {1}
  Plans = {}
  Outcomes = {}
  MaxAttempts = 1
INVARIANTS ExecutionOwned ExclusiveExecution ReviewedOnce
