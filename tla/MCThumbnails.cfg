SPECIFICATION Spec
CONSTANTS
  photo = photo
  scan = scan
  first = first
  second = second
  Files = {photo, scan}
  NoFile = NoFile
  Threads = {first, second}
  MaxChanges <- Never
  MaxForgets <- OnlyPhoto
SYMMETRY SymThreads
INVARIANTS OneThread SomebodyMakes InHand
CHECK_DEADLOCK FALSE
