-------------------------- MODULE MCDirectoryJobs ---------------------------
(* Instances of DirectoryJobs for TLC: directory top has the folder sub, whose own directory is
   inside; the plain file leaf is in either of them. *)
EXTENDS DirectoryJobs, TLC

CONSTANTS top, inside, sub, leaf, window, tree, size, details, contents

Nested == [f \in Files |-> IF f = sub THEN top ELSE inside]
Together == [f \in Files |-> top]
MCFileOf == [d \in Dirs |-> IF d = inside THEN sub ELSE NoFile]

\* A window on top, an unfolded tree of inside, and callbacks about sub and about inside.
Clients == Monitors \cup Callbacks
MCAbout == [x \in Clients |-> IF x \in {size, details} THEN sub ELSE AllFiles]
MCAt == [x \in Clients |-> IF x \in {tree, contents} THEN inside ELSE top]
MCRequest ==
  [x \in Clients |->
     CASE x = window -> {"list", "info", "count"}
       [] x \in {tree, contents} -> {"list", "info"}
       [] x = size -> {"count"}
       [] x = details -> {"info", "deep", "filesystem", "extension"}]
=============================================================================
