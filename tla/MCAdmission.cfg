CONSTANTS
  Devices = {d1, d2}
  Requests = {r1, r2}
  Invites = {i1}
  Rooms = {room1, room2}
  Holders <- BothHold
  None = None
  MaxStaged = 3
SYMMETRY RequestIds
SPECIFICATION Spec
INVARIANTS
  OneDevicePerInvite
  NoAutomaticReadmission
  MembersCommitted
PROPERTY
  DisabledInvitesStayVoid
