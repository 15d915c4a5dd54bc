SPECIFICATION FairSpec
CONSTANTS
  photo = photo
  scan = scan
  first = first
  second = second
  Files = {photo}
  NoFile = NoFile
  Threads = {first}
  MaxChanges <- Twice
  MaxForgets <- Never
INVARIANTS TypeOK NewestMade NoticeComes
PROPERTIES ThumbnailComes
CHECK_DEADLOCK FALSE
