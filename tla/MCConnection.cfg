CONSTANTS
  Procs = {a, b}
  Calls = {c1, c2}
  Sessions = {s1, s2}
  Peers = {p1}
  Rooms = {r1}
  None = None
SYMMETRY Symmetry
SPECIFICATION Spec
PROPERTIES
  IdentityKept
  BindingStable
  NothingForgotten
  CreatedRoomKept
