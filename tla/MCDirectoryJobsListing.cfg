SPECIFICATION Spec
CONSTANTS
  top = top
  inside = inside
  sub = sub
  leaf = leaf
  window = window
  tree = tree
  size = size
  details = details
  contents = contents
  NoFile = NoFile
  AllFiles = AllFiles
  Dirs = {top, inside}
  Files = {sub, leaf}
  Folders = {sub}
  StartDir <- Nested
  FileOf <- MCFileOf
  Monitors = {window, tree}
  Callbacks = {size}
  About <- MCAbout
  At <- MCAt
  Request <- MCRequest
  Changes = {"Removed"}
  MaxJobs = 2
  MaxRequests = 4
INVARIANTS CountsFresh
CHECK_DEADLOCK FALSE
