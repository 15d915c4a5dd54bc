SPECIFICATION FairSpec
CONSTANTS
  copying = copying
  trashing = trashing
  Jobs = {copying, trashing}
  NoChange = NoChange
  MaxChanges = 3
INVARIANTS TypeOK OrderKept NothingLost
PROPERTY AllSent
CHECK_DEADLOCK FALSE
