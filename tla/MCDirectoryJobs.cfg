SPECIFICATION Spec
CONSTANTS
  top = top
  inside = inside
  sub = sub
  leaf = leaf
  window = window
  tree = tree
  size = size
  details = details
  contents = contents
  NoFile = NoFile
  AllFiles = AllFiles
  Dirs = {top, inside}
  Files = {sub, leaf}
  Folders = {sub}
  StartDir <- Together
  FileOf <- MCFileOf
  Monitors = {window, tree}
  Callbacks = {size, details}
  About <- MCAbout
  At <- MCAt
  Request <- MCRequest
  Changes = {"Changed", "Removed", "Invalidated", "Reload"}
  MaxJobs = 2
  MaxRequests = 4
INVARIANTS TypeOK JobsCounted QueueServed NeedyUnderway ListServed OnlyWanted FreshAnswers
CHECK_DEADLOCK FALSE
