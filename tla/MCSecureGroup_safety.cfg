CONSTANTS
  c = c
  a = a
  k1 = k1
  k2 = k2
  Devices = {c, a}
  Creator = c
  Keys = {k2}
  Files = {k1}
  RoomKeys = {k1}
  Importers = {a}
  Owner <- OwnerOfKeys
  MaxCommits = 3
  MaxEnvelopes = 3
SPECIFICATION Spec
INVARIANTS
  OwnEnvelopeKnown
  NoGenerationReuse
  SendOnce
  CommitRecoverable
  HistoryComplete
PROPERTIES
  NoRollback
