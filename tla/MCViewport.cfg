SPECIFICATION Spec
CONSTANTS
  Windows = {a, b}
  StickyIcon = {b}
  ClickToFocus = {b}
  NoWindow = NoWindow
  Screen <- MCScreen
  Places <- MCPlaces
  Shapes <- MCShapes
  DeskSizes <- MCDeskSizes
  Scrolls <- MCScrolls
  Jumps <- MCJumps
  MaxCommands = 3
INVARIANTS TypeOK PanFrames CentreShown
PROPERTY DesktopSpec
CHECK_DEADLOCK FALSE
