CONSTANTS
  a = a
  b = b
  c = c
  Windows = {a, b}
  NoWindow = NoWindow
  Root = Root
  Desks = {0, 1}
  TransientFor <- Family
  StartDesk <- SecondDesk
  ClickToFocus = {a}
  SloppyFocus = {b}
  StickyStyle = {}
  StickyIcon = {a}
  StartIconic = {b}
  ShowOnMap = {a}
  NoInput = {b}
  Commands <- MCRough
  UserCommands <- MCRoughUser
  Screens = 2
  Grabbers = TRUE
  MaxRequests = 3
  MaxInputs = 3
  MaxQueue = 3
SPECIFICATION Spec
INVARIANT StillRight
CHECK_DEADLOCK FALSE
