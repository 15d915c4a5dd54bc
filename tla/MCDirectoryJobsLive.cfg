SPECIFICATION FairSpec
CONSTANTS
  top = top
  inside = inside
  sub = sub
  leaf = leaf
  window = window
  tree = tree
  size = size
  details = details
  contents = contents
  NoFile = NoFile
  AllFiles = AllFiles
  Dirs = {top, inside}
  Files = {sub, leaf}
  Folders = {sub}
  StartDir <- Nested
  FileOf <- MCFileOf
  Monitors = {window, tree}
  Callbacks = {details, contents}
  About <- MCAbout
  At <- MCAt
  Request <- MCRequest
  Changes = {"Changed", "Removed", "Moved"}
  MaxJobs = 2
  MaxRequests = 3
PROPERTIES ServiceEnds CallbacksCalled
CHECK_DEADLOCK FALSE
