SPECIFICATION Spec
CONSTANTS
  N = 2
  Event <- TwoMessages
  Senders = {"peer"}
  Self = "self"
  NoWorker = "none"
  Resources = {"report"}
  DeclineText = "decline"
  NoText = "nil"
  Workers = {"w1", "w2"}
  Texts = {"t1", "t2"}
  Limits = {}
  Plans <- SharedOrAfter
  Outcomes <- AllOutcomes
  MaxAttempts = 2
INVARIANTS
  TypeOK SavedStateValid ClaimDiscipline ExecutionOwned ExclusiveExecution
  DependenciesFinished PlansAcyclic PermissionGate SingleReply PostedBeforeDone
  IInv
PROPERTIES FinishedIsFinal NoSilentRetry
