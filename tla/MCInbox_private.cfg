SPECIFICATION Spec
CONSTANTS
  N = 1
  Event <- OnePrivateNotice
  Senders = {"peer"}
  Self = "self"
  NoWorker = "none"
  Resources = {"report"}
  DeclineText = "decline"
  NoText = "nil"
  Workers = {"w1"}
  Texts = {"t1"}
  Limits = {}
  Plans = {}
  Outcomes = {"awaiting_approval"}
  MaxAttempts = 1
INVARIANTS PrivateNoticesNeverAnswered
