CONSTANTS
  m = m
  old = old
  plain = plain
  h = h
  a = a
  j = j
  Payloads = {m, old, plain, h, a, j}
  Messages = {m, old, plain}
  Hellos = {h}
  Acks = {a}
  Joins = {j}
  Encrypted = {m, old, h, a}
  Unreadable = {old}
  MaxEvents = 3
  MaxFaults = 2
SPECIFICATION FairSpec
INVARIANT
  ControlBeforeCursor
PROPERTIES
  ImplementsEventLog
  EveryEventProcessed
CHECK_DEADLOCK FALSE
