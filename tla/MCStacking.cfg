SPECIFICATION Spec
CONSTANTS
  a = a
  b = b
  c = c
  Windows = {a, b, c}
  NoWindow = NoWindow
  Freed = Freed
  TransientFor <- Dialogue
  STAYSONTOP = {c}
  Restackers = {b}
  Movers = {c}
  MaxCommands = 6
INVARIANTS TypeOK RingTold OnTopAbove LastOnTop
CHECK_DEADLOCK FALSE
