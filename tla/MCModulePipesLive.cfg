CONSTANTS
  m1 = m1
  m2 = m2
  m3 = m3
  Modules = {m1, m3}
  NoModule = NoModule
  NPipes = 2
  Name <- MCName
  Commands <- MCPlainCommands
  UserCommands <- MCUserKillCommands
  EventTypes <- MCEventTypes
  LongTypes <- MCLongTypes
  PipeCap = 1
  MaxEvents = 3
  MaxCommands = 2
  MaxNest = 0
SPECIFICATION FairSpec
PROPERTIES PendingRead DeadModuleReclaimed
CHECK_DEADLOCK FALSE
