CONSTANTS
  a = a
  b = b
  c = c
  Windows = {a, b}
  NoWindow = NoWindow
  Root = Root
  Desks = {0, 1}
  TransientFor <- Family
  StartDesk <- Nowhere
  ClickToFocus = {a, b}
  SloppyFocus = {}
  StickyStyle = {}
  StickyIcon = {}
  StartIconic = {}
  ShowOnMap = {a}
  NoInput = {}
  Commands <- MCCommands
  UserCommands <- MCUserCommands
  Screens = 1
  Grabbers = FALSE
  MaxRequests = 4
  MaxInputs = 3
  MaxQueue = 3
SPECIFICATION Spec
INVARIANTS TypeOK NoDangling ClickGrabs Visible StateTold NewTimeStamp
CHECK_DEADLOCK FALSE
