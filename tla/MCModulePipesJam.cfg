CONSTANTS
  m1 = m1
  m2 = m2
  m3 = m3
  Modules = {m1, m2}
  NoModule = NoModule
  NPipes = 2
  Name <- MCName
  Commands <- MCWaitCommands
  UserCommands <- MCUserWaitCommands
  EventTypes <- MCEventTypes
  LongTypes <- MCLongTypes
  PipeCap = 1
  MaxEvents = 2
  MaxCommands = 2
  MaxNest = 1
SPECIFICATION Spec
INVARIANT NeverJammed
CHECK_DEADLOCK FALSE
