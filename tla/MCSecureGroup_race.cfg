CONSTANTS
  c = c
  a = a
  k1 = k1
  k2 = k2
  Devices = {c, a}
  Creator = c
  Keys = {k2}
  Files = {k1}
  RoomKeys = {k1}
  Importers = {a}
  Owner <- OwnerOfKeys
  MaxCommits = 4
  MaxEnvelopes = 2
SPECIFICATION Spec
INVARIANT
  SyncCanContinue
