SPECIFICATION FairSpec
CONSTANTS
  N = 2
  Event <- TwoMessages
  Senders = {"peer"}
  Self = "self"
  NoWorker = "none"
  Resources = {"report"}
  DeclineText = "decline"
  NoText = "nil"
  Workers = {"w1"}
  Texts = {"t1"}
  Limits = {}
  Plans = {}
  Outcomes = {"awaiting_approval"}
  MaxAttempts = 1
PROPERTIES SavedReplyDelivered
