SPECIFICATION FairSpec
CONSTANTS
  photo = photo
  scan = scan
  first = first
  second = second
  Files = {photo}
  NoFile = NoFile
  Threads = {first}
  MaxChanges <- Once
  MaxForgets <- Never
PROPERTIES InfoReread
CHECK_DEADLOCK FALSE
